------------------------------- MODULE Redis -------------------------------
(***************************************************************************)
(* RedisService: one map of keys to values, kept in Redis while the        *)
(* connection is ready and in the memory of the process while it is not.   *)
(* Each call looks at the connection anew, so keys written on one side are *)
(* missing on the other, and come back with the connection.                *)
(***************************************************************************)
CONSTANTS
  Keys,      \* the keys in use
  Absent     \* the value of a key that is not there

VARIABLES
  redis,     \* the keys in Redis
  memory,    \* the keys in the process
  ready,     \* client.status is 'ready'
  switched   \* the connection has changed (history)

stores == <<redis, memory, ready, switched>>

RedisInit ==
  /\ redis = [k \in Keys |-> Absent]
  /\ memory = [k \in Keys |-> Absent]
  /\ ready \in BOOLEAN
  /\ switched = FALSE

Get(k) == IF ready THEN redis[k] ELSE memory[k]

Put(k, v) ==
  /\ IF ready
       THEN redis' = [redis EXCEPT ![k] = v] /\ UNCHANGED memory
       ELSE memory' = [memory EXCEPT ![k] = v] /\ UNCHANGED redis
  /\ UNCHANGED <<ready, switched>>

Del(k) == Put(k, Absent)

(* The connection is lost or found again.                                  *)
SwitchStore ==
  /\ ready' = ~ready /\ switched' = TRUE
  /\ UNCHANGED <<redis, memory>>

(* The time to live of a key has passed, on both sides.                    *)
ExpireKey(k) ==
  /\ Get(k) # Absent
  /\ redis' = [redis EXCEPT ![k] = Absent]
  /\ memory' = [memory EXCEPT ![k] = Absent]
  /\ UNCHANGED <<ready, switched>>
=============================================================================
