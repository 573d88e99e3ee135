-------------------------- MODULE MCStoreIntegrity --------------------------
EXTENDS StoreIntegrity

CONSTANT k1

MCKeyLength == [k \in Key |-> 32]
MCZeroKey == {}
MCKeyIdOf == [k \in Key |-> k]
============================================================================
