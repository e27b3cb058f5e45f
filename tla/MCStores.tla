------------------------------ MODULE MCStores ------------------------------
(***************************************************************************)
(* Small instances of Stores for TLC.                                      *)
(***************************************************************************)
EXTENDS Stores, TLC

CONSTANTS a, b

Ttls(op) ==
    CASE op = "set" -> {0, 1}
      [] op \in {"setIfAbsent", "increment", "sAdd"} -> {1}
      [] OTHER -> {Never}

On(key, names) ==
    UNION {{[op |-> op, key |-> key, ttl |-> ttl] : ttl \in Ttls(op)} : op \in names}

\* The calls that change what is stored, and one that only reads.
Menu ==
    On("value", {"set", "setIfAbsent", "take", "delete", "get"})
      \cup On("counter", {"increment"}) \cup On("set", {"sAdd", "sRemove"})

\* A value, a counter and a set, each used as the server uses them.
AllCommands ==
    On("value", {"get", "set", "setIfAbsent", "take", "delete", "exists"})
      \cup On("counter", {"increment"})
      \cup On("set", {"sAdd", "sRemove", "sMembers", "delete"})
=============================================================================
