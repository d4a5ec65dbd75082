--------------------------- MODULE BlockRegister ----------------------------
(***************************************************************************)
(* What the client library promises of set_data and get_ndata: each block  *)
(* is one register.  A write takes effect at one moment between its call   *)
(* and its return, and a read returns a value that the register had at     *)
(* some moment between its call and its return.                            *)
(***************************************************************************)
CONSTANTS Threads, Keys, Values,
          NoData,   \* the register of a block nobody has written
          NoCall,   \* the call of a thread that is in none
          MSG_OK_OP \* what a write returns

VARIABLES block,    \* the value of each register
          call,     \* the call a thread is in
          took,     \* has the thread's write taken effect?
          window,   \* the values its block had since its read began
          result    \* what its last call returned

vars == <<block, call, took, window, result>>

Writes(t, k) == call[t] # NoCall /\ call[t].op = "SET" /\ call[t].key = k
Reads(t, k) == call[t] # NoCall /\ call[t].op = "GET" /\ call[t].key = k

Init ==
    /\ block = [k \in Keys |-> NoData]
    /\ call = [t \in Threads |-> NoCall]
    /\ took = [t \in Threads |-> FALSE]
    /\ window = [t \in Threads |-> {}]
    /\ result = [t \in Threads |-> NoCall]

Invoke(t, op, k, v) ==
    /\ call[t] = NoCall
    /\ call' = [call EXCEPT ![t] = [op |-> op, key |-> k, value |-> v]]
    /\ took' = [took EXCEPT ![t] = FALSE]
    /\ window' = [window EXCEPT ![t] = IF op = "GET" THEN {block[k]} ELSE {}]
    /\ UNCHANGED <<block, result>>

TakeEffect(t, k) ==
    /\ Writes(t, k)
    /\ ~took[t]
    /\ block' = [block EXCEPT ![k] = call[t].value]
    /\ took' = [took EXCEPT ![t] = TRUE]
    /\ window' = [u \in Threads |-> IF Reads(u, k)
                                    THEN window[u] \cup {call[t].value}
                                    ELSE window[u]]
    /\ UNCHANGED <<call, result>>

Return(t, r) ==
    /\ call[t] # NoCall
    /\ call[t].op = "GET" => r \in window[t]
    /\ call[t].op = "SET" => r = MSG_OK_OP /\ took[t]
    /\ call' = [call EXCEPT ![t] = NoCall]
    /\ took' = [took EXCEPT ![t] = FALSE]
    /\ window' = [window EXCEPT ![t] = {}]
    /\ result' = [result EXCEPT ![t] = r]
    /\ UNCHANGED block

Next ==
    \E t \in Threads :
        \/ \E op \in {"SET", "GET"}, k \in Keys, v \in Values : Invoke(t, op, k, v)
        \/ \E k \in Keys : TakeEffect(t, k)
        \/ \E r \in Values \cup {NoData, MSG_OK_OP} : Return(t, r)

Spec == Init /\ [][Next]_vars
=============================================================================
