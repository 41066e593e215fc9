-------------------------- MODULE MetadataManager --------------------------
(* lapiz-metadata-manager.c: what lapiz remembers of documents (position,    *)
(* encoding, language), in one file for all of them.  The manager of one     *)
(* process is a record; the file maps the uris of the documents to items,    *)
(* NoFile says that there is none or that it cannot be parsed.               *)
EXTENDS Integers, FiniteSets, Functions

CONSTANTS
    Uris, Keys, Values,
    NoValue,   \* the value of a key that is not set
    NoFile,
    MaxItems   \* MAX_ITEMS (50 in the code)

\* A document: when it was used last, and the values of its keys.
Item == [atime : Int, values : [Keys -> Values \union {NoValue}]]
Nothing == [k \in Keys |-> NoValue]

ASSUME MaxItemsAssumption == MaxItems \in Nat
ASSUME NoFileAssumption == \A S \in SUBSET Uris : NoFile \notin [S -> Item]

\* lapiz_metadata_manager_init
NewManager == [loaded |-> FALSE, timer |-> FALSE, items |-> <<>>]

NewItem == [atime |-> 0, values |-> Nothing]

\* load_values: only the first call of get or set reads the file.
LoadValues(m, file) ==
    [m EXCEPT !.loaded = TRUE, !.items = IF file = NoFile THEN @ ELSE file]

\* Is there anything to go on with?  The call that finds no file gives up, the
\* ones after it do not.
Usable(m, file) == m.loaded \/ file # NoFile

\* Mutant: what is in memory is read again from the file.
Ready_Again(m, file) == LoadValues(m, file)

Ready(m, file) == IF m.loaded THEN m ELSE LoadValues(m, file)

Put(items, uri, item) == [u \in DOMAIN items \union {uri} |-> IF u = uri THEN item ELSE items[u]]

ItemOf(m, uri) == IF uri \in DOMAIN m.items THEN m.items[uri] ELSE NewItem

\* lapiz_metadata_manager_get: its effect, which the time of access is
GetValue(m, file, uri, now) ==
    LET ready == Ready(m, file)
    IN IF Usable(m, file) /\ uri \in DOMAIN ready.items
       THEN [ready EXCEPT !.items[uri].atime = now] ELSE ready

\* lapiz_metadata_manager_set and lapiz_metadata_manager_arm_timeout; NoValue
\* removes the key.
SetValue(m, file, uri, key, value, now) ==
    LET ready == Ready(m, file)
    IN IF Usable(m, file)
       THEN [ready EXCEPT !.timer = TRUE,
                !.items = Put(@, uri, [ItemOf(ready, uri) EXCEPT !.atime = now,
                                                                 !.values[key] = value])]
       ELSE ready

\* Mutant: the newest items go.
Oldest_Newest(items) == {u \in DOMAIN items : \A v \in DOMAIN items : items[v].atime <= items[u].atime}

\* get_oldest; of several, the hash table decides which
Oldest(items) == {u \in DOMAIN items : \A v \in DOMAIN items : items[u].atime <= items[v].atime}

\* The orders in which the loop of resize_items can remove n items, each an oldest
\* of those that are left.
Removals(items, n) ==
    {r \in [1..n -> DOMAIN items] :
        \A i \in 1..n : r[i] \in Oldest(Restrict(items, DOMAIN items \ {r[j] : j \in 1..(i - 1)}))}

\* resize_items: the results it can have
Resized(items) ==
    {Restrict(items, DOMAIN items \ Range(r)) :
        r \in Removals(items, Cardinality(DOMAIN items) - MaxItems)}
=============================================================================
