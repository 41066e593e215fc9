---------------------------- MODULE MCMessageBus ----------------------------
EXTENDS MessageBus
=============================================================================
