------------------------------ MODULE KVStore ------------------------------
(***************************************************************************)
(* The state machine that Raft drives: the storage engine as              *)
(* applyCommand uses it.  Both engines (MemoryEngine, BoltEngine) keep a   *)
(* map from keys to byte strings; a key that is not there is NoValue.      *)
(***************************************************************************)

CONSTANTS
    Key,        \* keys
    Value,      \* byte strings, the empty one included
    Empty,      \* the empty byte string
    NoValue     \* "the engine has no such key"; not a byte string

ASSUME KVAssumption == Empty \in Value /\ NoValue \notin Value

Store == [Key -> Value \cup {NoValue}]

EmptyStore == [k \in Key |-> NoValue]

\* A client command.  Only CAS looks at prev, only PUT and CAS at value; an op
\* that a transaction names and applyCommand does not know is "other".
Op      == {"PUT", "DELETE", "CAS", "NOOP", "other"}
Command == [op : Op, key : Key, value : Value, prev : Value]

Put(kv, k, v) == [kv EXCEPT ![k] = v]

Delete(kv, k) == [kv EXCEPT ![k] = NoValue]

\* What CAS compares with: a key that is not found reads as nil, and
\* bytes.Equal does not tell nil from the empty byte string.
Existing(kv, k) == IF kv[k] = NoValue THEN Empty ELSE kv[k]

\* Whether applyCommand returns nil (TRUE) or an error (FALSE).
Succeeds(kv, cmd) ==
    /\ cmd.op # "other"
    /\ cmd.op = "CAS" => Existing(kv, cmd.key) = cmd.prev

ApplyCommand(kv, cmd) ==
    CASE cmd.op = "DELETE" -> Delete(kv, cmd.key)
      [] cmd.op \in {"PUT", "CAS"} /\ Succeeds(kv, cmd) -> Put(kv, cmd.key, cmd.value)
      [] OTHER -> kv

=============================================================================
