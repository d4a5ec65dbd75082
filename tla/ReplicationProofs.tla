-------------------------- MODULE ReplicationProofs -------------------------
(***************************************************************************)
(* Placement and its use by set_data and get_ndata, for any number of      *)
(* servers, files, blocks, processes and threads.                          *)
(***************************************************************************)
EXTENDS Replication, SequenceTheorems, TLAPS

\* A remainder is smaller than the divisor.
LEMMA ModType == \A n \in Nat \ {0} : \A a \in Nat : a % n \in 0 .. n - 1
    OBVIOUS

\* A sum that passes the divisor at most once wraps around once.
LEMMA ModWrap ==
    \A n \in Nat \ {0} : \A a \in 0 .. 2 * n - 1 :
        (a < n => a % n = a) /\ (a >= n => a % n = a - n)
    OBVIOUS

\* The distance from a block's first server to its replica i.
Distance(i) == i * (num_storages \div repl_factor)

\* It is at most once around the servers, and different for each replica.
LEMMA DistanceType ==
    /\ \A i \in Replicas : Distance(i) \in 0 .. num_storages - 1
    /\ \A i, j \in Replicas : Distance(i) = Distance(j) => i = j
<1>1. num_storages \in Nat \ {0} /\ repl_factor \in 1 .. 3
      /\ repl_factor <= num_storages
    BY PlacementAssumption, Zenon
<1>2. CASE repl_factor = 1
    BY <1>1, <1>2 DEF Replicas, Distance
<1>3. CASE repl_factor = 2
    BY <1>1, <1>3 DEF Replicas, Distance
<1>4. CASE repl_factor = 3
    BY <1>1, <1>4 DEF Replicas, Distance
<1>. QED  BY <1>1, <1>2, <1>3, <1>4

LEMMA ReplicaServerSum ==
    \A n, i : ReplicaServer(n, i) = (n + Distance(i)) % num_storages
    BY Zenon DEF ReplicaServer, Distance

\* Every replica of a block is on a server of the deployment (set_data and
\* get_ndata index conns.eps with it).
THEOREM ReplicaServerInRange ==
    \A n \in Servers, i \in Replicas : ReplicaServer(n, i) \in Servers
<1>. SUFFICES ASSUME NEW n \in Servers, NEW i \in Replicas
              PROVE  (n + Distance(i)) % num_storages \in Servers
    BY ReplicaServerSum, Zenon
<1>1. num_storages \in Nat \ {0} /\ n \in Nat /\ Distance(i) \in Nat
    BY PlacementAssumption, DistanceType DEF Servers
<1>2. n + Distance(i) \in Nat
    BY <1>1
<1>. HIDE DEF Distance
<1>. QED  BY <1>1, <1>2, ModType, Zenon DEF Servers

\* No two replicas of a block are on the same server.
THEOREM ReplicasOnDistinctServers ==
    \A n \in Servers : \A i, j \in Replicas :
        ReplicaServer(n, i) = ReplicaServer(n, j) => i = j
<1>. SUFFICES ASSUME NEW n \in Servers, NEW i \in Replicas, NEW j \in Replicas,
                     ReplicaServer(n, i) = ReplicaServer(n, j)
              PROVE  i = j
    BY Zenon
<1>1. /\ Distance(i) \in 0 .. num_storages - 1
      /\ Distance(j) \in 0 .. num_storages - 1
      /\ num_storages \in Nat \ {0} /\ n \in 0 .. num_storages - 1
    BY PlacementAssumption, DistanceType, Zenon DEF Servers
<1>2. (n + Distance(i)) % num_storages = (n + Distance(j)) % num_storages
    BY Zenon DEF ReplicaServer, Distance
<1>3. \A k \in 0 .. num_storages - 1 :
          /\ n + k < num_storages => (n + k) % num_storages = n + k
          /\ n + k >= num_storages => (n + k) % num_storages = n + k - num_storages
  <2>. TAKE k \in 0 .. num_storages - 1
  <2>1. n + k \in 0 .. 2 * num_storages - 1
      BY <1>1
  <2>. DEFINE a == n + k
  <2>. HIDE DEF a
  <2>2. /\ a < num_storages => a % num_storages = a
        /\ a >= num_storages => a % num_storages = a - num_storages
      BY <1>1, <2>1, ModWrap, Zenon DEF a
  <2>. QED  BY <1>1, <2>2 DEF a
<1>4. /\ n + Distance(i) < num_storages
             => (n + Distance(i)) % num_storages = n + Distance(i)
      /\ n + Distance(i) >= num_storages
             => (n + Distance(i)) % num_storages = n + Distance(i) - num_storages
      /\ n + Distance(j) < num_storages
             => (n + Distance(j)) % num_storages = n + Distance(j)
      /\ n + Distance(j) >= num_storages
             => (n + Distance(j)) % num_storages = n + Distance(j) - num_storages
    BY <1>1, <1>3, Zenon
<1>5. Distance(i) = Distance(j)
    BY <1>1, <1>2, <1>4
<1>. QED  BY <1>5, DistanceType, Zenon

\* find_server returns a server of the deployment, with every policy that
\* has a case in it.
LEMMA LocationType ==
    \A f \in Files, b \in Blocks, g \in Nat : Location(f, b, g) \in Servers
<1>. SUFFICES ASSUME NEW f \in Files, NEW b \in Blocks, NEW g \in Nat
              PROVE  Location(f, b, g) \in Servers
    BY Zenon
<1>1. b \in Nat /\ crc16[f] \in Nat /\ hash[<<f, b>>] \in Nat
    BY NamesAssumption, Zenon
<1>2. num_storages \in Nat \ {0}
    BY PlacementAssumption, Zenon
<1>3. RoundRobin(num_storages, b, crc16[f]) \in Servers
  <2>1. crc16[f] % num_storages \in 0 .. num_storages - 1
      BY <1>1, <1>2, ModType, Zenon
  <2>2. (crc16[f] % num_storages) + b \in Nat
      BY <1>1, <1>2, <2>1
  <2>. QED  BY <1>2, <2>2, ModType, Zenon DEF RoundRobin, Servers
<1>4. /\ Hashed(num_storages, hash[<<f, b>>]) \in Servers
      /\ CRC(num_storages, g) \in Servers
    BY <1>1, <1>2, ModType, Zenon DEF Hashed, CRC, Servers
<1>. QED  BY <1>3, <1>4, DeploymentAssumption, Zenon DEF Location, find_server

-----------------------------------------------------------------------------
(* StoredAtHome.  It needs two things of the deployment: a process works   *)
(* on one file (its threads share curr_dataset) and the policy hashes      *)
(* something defined.                                                      *)

OneFilePerProcess ==
    \A t, u \in Threads : process[t] = process[u] =>
        \A f \in FilesOf[t], h \in FilesOf[u] : f = h

DefinedPolicy == policy \notin {"CRC16b", "CRC64b"}

\* A call that keeps to its file and, once located, to its servers.
GoodCalls(t) ==
    {c \in Calls :
        /\ c.key[1] \in FilesOf[t]
        /\ c.op = "SET" => c.value \in Values /\ c.value.file = c.key[1]
        /\ c.pc # "find" => c.n_server = Primary(c.key)
        /\ c.pc = "wait" => c.i < repl_factor}

\* A write sent to a server that get_ndata asks for the block.
GoodRequests(s) ==
    {r \in Requests :
        r.op # "GET" => /\ s \in HomeOf(r.key)
                        /\ r.value \in Values
                        /\ r.value.file = r.key[1]}

HomeInv ==
    /\ writes \in Nat
    /\ stored \in [Servers -> [Keys -> Values \cup {NoData}]]
    /\ call \in [Threads -> Calls \cup {NoCall}]
    /\ curr_dataset \in [Processes -> Files \cup {NoCall}]
    /\ requests \in [Processes -> [Servers -> Seq(Requests)]]
    /\ \A t \in Threads : call[t] # NoCall =>
           /\ call[t] \in GoodCalls(t)
           /\ curr_dataset[process[t]] = call[t].key[1]
    /\ \A p \in Processes, s \in Servers : requests[p][s] \in Seq(GoodRequests(s))
    /\ StoredAtHome

LEMMA HomeInit == Init => HomeInv
<1>. SUFFICES ASSUME Init PROVE HomeInv
    BY Zenon
<1>1. <<>> \in Seq(Requests) /\ \A s \in Servers : <<>> \in Seq(GoodRequests(s))
    OBVIOUS
<1>. QED  BY <1>1, Zenon DEF Init, HomeInv, StoredAtHome

\* A block is located the same way for every garbage the memory may hold.
LEMMA LocationIsPrimary ==
    ASSUME DefinedPolicy, NEW f, NEW b, NEW g
    PROVE  Location(f, b, g) = Primary(<<f, b>>)
    BY Zenon DEF DefinedPolicy, Location, Primary, find_server

LEMMA PrimaryType == \A k \in Keys : Primary(k) \in Servers
    BY LocationType, Zenon DEF Primary, Keys

\* Starting a call makes its file the current one, and no other thread of
\* the process is at work on another.
LEMMA StartStep ==
    ASSUME OneFilePerProcess, HomeInv, NEW t \in Threads, NEW op \in Ops,
           NEW f \in FilesOf[t], NEW b \in Blocks, writes < MaxWrites \/ op = "GET",
           Start(t, op, f, b), writes' \in Nat
    PROVE  HomeInv'
<1>. DEFINE v == IF op = "SET" THEN [file |-> f, n |-> writes + 1] ELSE NoData
            c == [op |-> op, key |-> <<f, b>>, value |-> v, pc |-> "find",
                  n_server |-> 0, i |-> 0]
<1>1. f \in Files /\ <<f, b>> \in Keys
    BY ThreadsAssumption, Zenon DEF Keys
<1>2. v \in Values \cup {NoData} /\ (op = "SET" => v \in Values /\ v.file = f)
    BY <1>1, DeploymentAssumption DEF HomeInv, Values, Ops
<1>3. 0 \in Servers /\ 0 \in 0 .. repl_factor
    BY PlacementAssumption DEF Servers
<1>4. c \in Calls
    BY <1>1, <1>2, <1>3, Zenon DEF Calls, Ops
<1>5. c \in GoodCalls(t)
    BY <1>2, <1>4, Zenon DEF GoodCalls
<1>6. call' = [call EXCEPT ![t] = c] /\ curr_dataset' = [curr_dataset EXCEPT ![process[t]] = f]
    BY Zenon DEF Start
<1>7. UNCHANGED <<stored, requests>>
    BY Zenon DEF Start, servers
<1>. HIDE DEF c, v
<1>8. /\ call' \in [Threads -> Calls \cup {NoCall}]
      /\ curr_dataset' \in [Processes -> Files \cup {NoCall}]
    BY <1>1, <1>4, <1>6, Zenon DEF HomeInv
<1>9. ASSUME NEW u \in Threads, call'[u] # NoCall
      PROVE  call'[u] \in GoodCalls(u) /\ curr_dataset'[process[u]] = call'[u].key[1]
  <2>0. process[t] \in Processes /\ process[u] \in Processes
      BY Zenon DEF Processes
  <2>1. CASE u = t
      BY <2>0, <2>1, <1>5, <1>6, Zenon DEF HomeInv, c
  <2>2. CASE u # t
    <3>1. call'[u] = call[u] /\ call[u] \in GoodCalls(u)
          /\ curr_dataset[process[u]] = call[u].key[1]
        BY <1>6, <1>9, <2>2, Zenon DEF HomeInv
    <3>2. process[u] = process[t] => call[u].key[1] = f
        BY <3>1, ZenonT(30) DEF GoodCalls, OneFilePerProcess
    <3>. QED  BY <2>0, <3>1, <3>2, <1>6, Zenon DEF HomeInv
  <2>. QED  BY <2>1, <2>2, Zenon
<1>. QED  BY <1>7, <1>8, <1>9, Zenon DEF HomeInv, StoredAtHome

\* A step of the library that leaves the thread in a good call on the same
\* file, or in none, and sends nothing.
LEMMA CallStep ==
    ASSUME HomeInv, NEW t \in Threads, NEW c, call' = [call EXCEPT ![t] = c],
           c # NoCall => /\ call[t] # NoCall /\ c \in GoodCalls(t)
                         /\ c.key = call[t].key,
           UNCHANGED <<stored, curr_dataset, writes>>,
           requests' \in [Processes -> [Servers -> Seq(Requests)]],
           \A p \in Processes, s \in Servers : requests'[p][s] \in Seq(GoodRequests(s))
    PROVE  HomeInv'
<1>1. c \in Calls \cup {NoCall}
    BY Zenon DEF GoodCalls
<1>2. call' \in [Threads -> Calls \cup {NoCall}]
    BY <1>1, Zenon DEF HomeInv
<1>3. ASSUME NEW u \in Threads, call'[u] # NoCall
      PROVE  call'[u] \in GoodCalls(u) /\ curr_dataset'[process[u]] = call'[u].key[1]
  <2>1. CASE u = t
      BY <2>1, <1>3, Zenon DEF HomeInv
  <2>2. CASE u # t
      BY <2>2, <1>3, Zenon DEF HomeInv
  <2>. QED  BY <2>1, <2>2, Zenon
<1>. QED  BY <1>2, <1>3, Zenon DEF HomeInv, StoredAtHome

\* What a good call is made of.
LEMMA GoodCall ==
    ASSUME HomeInv, NEW t \in Threads, call[t] # NoCall
    PROVE  /\ call[t] \in Calls /\ call[t] \in GoodCalls(t)
           /\ call[t].key \in Keys /\ call[t].key = <<call[t].key[1], call[t].key[2]>>
           /\ call[t].key[1] \in Files /\ call[t].key[2] \in Blocks
           /\ curr_dataset[process[t]] = call[t].key[1]
           /\ call[t].i \in 0 .. repl_factor /\ process[t] \in Processes
    BY DEF HomeInv, GoodCalls, Calls, Keys, Processes

LEMMA LocateStep ==
    ASSUME DefinedPolicy, HomeInv, NEW t \in Threads, NEW g \in Nat,
           get_data_location(t, g)
    PROVE  HomeInv'
<1>. DEFINE n == Location(curr_dataset[process[t]], call[t].key[2], g)
            c == [call[t] EXCEPT !.pc = "lock", !.n_server = n]
<1>1. call[t] # NoCall
    BY Zenon DEF get_data_location, At
<1>2. n = Primary(call[t].key) /\ n \in Servers
  <2>1. /\ call[t].key \in Keys /\ curr_dataset[process[t]] = call[t].key[1]
        /\ call[t].key = <<call[t].key[1], call[t].key[2]>>
      BY <1>1, GoodCall, Zenon
  <2>2. n = Primary(<<curr_dataset[process[t]], call[t].key[2]>>)
      BY LocationIsPrimary, Zenon
  <2>. QED  BY <2>1, <2>2, PrimaryType, Zenon
<1>3. call' = [call EXCEPT ![t] = c]
    BY Zenon DEF get_data_location, HomeInv
<1>. HIDE DEF n
<1>4. c \in GoodCalls(t) /\ c.key = call[t].key
    BY <1>1, <1>2, GoodCall, ZenonT(30) DEF GoodCalls, Calls
<1>5. UNCHANGED <<stored, requests, curr_dataset, writes>>
    BY Zenon DEF get_data_location, servers
<1>. HIDE DEF c
<1>. QED  BY <1>1, <1>3, <1>4, <1>5, CallStep, Zenon DEF HomeInv

LEMMA LockStep ==
    ASSUME HomeInv, NEW t \in Threads, Lock(t)
    PROVE  HomeInv'
<1>. DEFINE c == [call[t] EXCEPT !.pc = "send"]
<1>1. call[t] # NoCall /\ call[t].pc = "lock"
    BY Zenon DEF Lock, At
<1>2. call' = [call EXCEPT ![t] = c]
    BY Zenon DEF Lock, HomeInv
<1>3. c \in GoodCalls(t) /\ c.key = call[t].key
    BY <1>1, GoodCall, Zenon DEF GoodCalls, Calls
<1>4. UNCHANGED <<stored, requests, curr_dataset, writes>>
    BY Zenon DEF Lock, servers
<1>. HIDE DEF c
<1>. QED  BY <1>1, <1>2, <1>3, <1>4, CallStep, Zenon DEF HomeInv

\* A call ends, or its loop goes on with the next replica.
LEMMA ReturnStep ==
    ASSUME HomeInv, NEW t \in Threads, call[t] # NoCall,
           \/ call' = [call EXCEPT ![t] = NoCall]
           \/ At(t, "wait") /\ NextReplica(t),
           UNCHANGED <<stored, requests, curr_dataset, writes>>
    PROVE  HomeInv'
<1>1. CASE call' = [call EXCEPT ![t] = NoCall]
  <2>. DEFINE c == NoCall
  <2>1. call' = [call EXCEPT ![t] = c] /\ c = NoCall
      BY <1>1, Zenon
  <2>. HIDE DEF c
  <2>. QED  BY <2>1, CallStep, Zenon DEF HomeInv
<1>2. CASE At(t, "wait") /\ NextReplica(t)
  <2>. DEFINE c == [call[t] EXCEPT !.pc = "send", !.i = @ + 1]
  <2>1. call' = [call EXCEPT ![t] = c]
      BY <1>2, Zenon DEF NextReplica, HomeInv
  <2>2. call[t].i + 1 \in 0 .. repl_factor
      BY <1>2, GoodCall, PlacementAssumption DEF At, GoodCalls
  <2>3. c \in GoodCalls(t) /\ c.key = call[t].key
      BY <1>2, <2>2, GoodCall, ZenonT(30) DEF At, GoodCalls, Calls
  <2>. HIDE DEF c
  <2>. QED  BY <2>1, <2>3, CallStep, Zenon DEF HomeInv
<1>. QED  BY <1>1, <1>2, Zenon

\* The replica the loop is at is one that get_ndata asks.
LEMMA SendStep ==
    ASSUME HomeInv, NEW t \in Threads, Send(t)
    PROVE  HomeInv'
<1>. DEFINE p == process[t]
            n == NextServer(t)
            r == Request(t)
<1>1. call[t] # NoCall /\ call[t].pc = "send" /\ call[t].i < repl_factor
    BY Zenon DEF Send, At
<1>2. call[t].n_server = Primary(call[t].key) /\ call[t].i \in Replicas
    BY <1>1, GoodCall, PlacementAssumption DEF GoodCalls, Replicas
<1>3. n \in Servers /\ n \in HomeOf(call[t].key)
    BY <1>1, <1>2, GoodCall, PrimaryType, ReplicaServerInRange, Zenon DEF NextServer, HomeOf
<1>4. r.key = call[t].key /\ r.op = call[t].op /\ r.value = call[t].value
    BY <1>1, GoodCall, Zenon DEF Request
<1>5. r \in Requests
    BY <1>1, GoodCall, Zenon DEF Request, Requests, Calls, use_local, UseShm, Ops
<1>6. r \in GoodRequests(n)
    BY <1>1, <1>3, <1>4, <1>5, GoodCall, Zenon DEF GoodRequests, GoodCalls, Calls, Ops
<1>7. requests' = [requests EXCEPT ![p][n] = Append(@, r)]
    BY Zenon DEF Send
<1>. HIDE DEF r, n
<1>8. /\ p \in Processes
      /\ requests[p][n] \in Seq(Requests) /\ requests[p][n] \in Seq(GoodRequests(n))
    BY <1>1, <1>3, GoodCall, Zenon DEF HomeInv
<1>9. Append(requests[p][n], r) \in Seq(Requests)
      /\ Append(requests[p][n], r) \in Seq(GoodRequests(n))
    BY <1>5, <1>6, <1>8
<1>10. /\ requests' \in [Processes -> [Servers -> Seq(Requests)]]
       /\ \A q \in Processes, s \in Servers : requests'[q][s] \in Seq(GoodRequests(s))
    BY <1>3, <1>7, <1>8, <1>9, Zenon DEF HomeInv
<1>11. UNCHANGED <<stored, curr_dataset, writes>>
    BY Zenon DEF Send
<1>12. CASE call' = [call EXCEPT ![t].i = @ + 1]
  <2>. DEFINE c == [call[t] EXCEPT !.i = @ + 1]
  <2>1. call' = [call EXCEPT ![t] = c]
      BY <1>12, Zenon DEF HomeInv
  <2>2. call[t].i + 1 \in 0 .. repl_factor
      BY <1>1, GoodCall, PlacementAssumption
  <2>3. c \in GoodCalls(t) /\ c.key = call[t].key
      BY <1>1, <2>2, GoodCall, Zenon DEF GoodCalls, Calls
  <2>. HIDE DEF c
  <2>. QED  BY <1>1, <1>10, <1>11, <2>1, <2>3, CallStep, Zenon
<1>13. CASE call' = [call EXCEPT ![t].pc = "wait"]
  <2>. DEFINE c == [call[t] EXCEPT !.pc = "wait"]
  <2>1. call' = [call EXCEPT ![t] = c]
      BY <1>13, Zenon DEF HomeInv
  <2>2. c \in GoodCalls(t) /\ c.key = call[t].key
      BY <1>1, GoodCall, Zenon DEF GoodCalls, Calls
  <2>. HIDE DEF c
  <2>. QED  BY <1>1, <1>10, <1>11, <2>1, <2>2, CallStep, Zenon
<1>. QED  BY <1>12, <1>13, Zenon DEF Send, AfterSend

\* A server stores the block of a write, or nothing.
StoresFirst(p, s) ==
    \/ UNCHANGED stored
    \/ Store(s, Head(requests[p][s])) /\ Head(requests[p][s]).op # "GET"

\* It takes the request off the queue, or keeps a write to finish it.
TakesFirst(p, s) ==
    \/ Dequeue(p, s)
    \/ /\ requests' = [requests EXCEPT ![p][s] =
                          <<[Head(@) EXCEPT !.op = "COPY"]>> \o Tail(@)]
       /\ Head(requests[p][s]).op = "SET"

LEMMA StoreStep ==
    ASSUME HomeInv, NEW p \in Processes, NEW s \in Servers, requests[p][s] # <<>>,
           StoresFirst(p, s), TakesFirst(p, s), ServerStep
    PROVE  HomeInv'
<1>. DEFINE q == requests[p][s]
            r == Head(q)
<1>1. q \in Seq(Requests) /\ q \in Seq(GoodRequests(s)) /\ q # <<>>
    BY Zenon DEF HomeInv
<1>2. r \in Requests /\ r \in GoodRequests(s)
    BY <1>1
<1>3. Tail(q) \in Seq(Requests) /\ Tail(q) \in Seq(GoodRequests(s))
    BY <1>1
<1>4. UNCHANGED <<call, curr_dataset, writes>>
    BY Zenon DEF ServerStep
<1>5. ASSUME NEW w, w \in Seq(Requests), w \in Seq(GoodRequests(s)),
             requests' = [requests EXCEPT ![p][s] = w]
      PROVE  /\ requests' \in [Processes -> [Servers -> Seq(Requests)]]
             /\ \A o \in Processes, z \in Servers :
                    requests'[o][z] \in Seq(GoodRequests(z))
    BY <1>5, Zenon DEF HomeInv
<1>6. /\ requests' \in [Processes -> [Servers -> Seq(Requests)]]
      /\ \A o \in Processes, z \in Servers : requests'[o][z] \in Seq(GoodRequests(z))
  <2>1. CASE Dequeue(p, s)
    <3>1. requests' = [requests EXCEPT ![p][s] = Tail(q)]
        BY <2>1, Zenon DEF Dequeue
    <3>. HIDE DEF q
    <3>. QED  BY <1>3, <1>5, <3>1, Zenon
  <2>2. CASE /\ requests' = [requests EXCEPT ![p][s] =
                                <<[Head(@) EXCEPT !.op = "COPY"]>> \o Tail(@)]
             /\ r.op = "SET"
    <3>. DEFINE e == [r EXCEPT !.op = "COPY"]
                w == <<e>> \o Tail(q)
    <3>1. e \in Requests /\ e \in GoodRequests(s)
        BY <1>2, <2>2, Zenon DEF Requests, GoodRequests, Ops
    <3>2. requests' = [requests EXCEPT ![p][s] = w]
        BY <2>2, Zenon
    <3>. HIDE DEF e, q, r
    <3>3. w \in Seq(Requests) /\ w \in Seq(GoodRequests(s))
        BY <1>3, <3>1
    <3>. HIDE DEF w
    <3>. QED  BY <1>5, <3>2, <3>3, Zenon
  <2>. QED  BY <2>1, <2>2, Zenon DEF TakesFirst
<1>7. stored' \in [Servers -> [Keys -> Values \cup {NoData}]] /\ StoredAtHome'
  <2>1. CASE UNCHANGED stored
      BY <2>1, Zenon DEF HomeInv, StoredAtHome
  <2>2. CASE Store(s, r) /\ r.op # "GET"
    <3>1. /\ r.key \in Keys /\ s \in HomeOf(r.key)
          /\ r.value \in Values /\ r.value.file = r.key[1]
        BY <1>2, <2>2, Zenon DEF GoodRequests, Requests
    <3>2. stored' = [stored EXCEPT ![s][r.key] = r.value]
        BY <2>2, Zenon DEF Store
    <3>. HIDE DEF r
    <3>3. stored' \in [Servers -> [Keys -> Values \cup {NoData}]]
        BY <3>1, <3>2, Zenon DEF HomeInv
    <3>4. ASSUME NEW z \in Servers, NEW k \in Keys, stored'[z][k] # NoData
          PROVE  z \in HomeOf(k) /\ stored'[z][k].file = k[1]
      <4>1. CASE z = s /\ k = r.key
          BY <3>1, <3>2, <4>1, Zenon DEF HomeInv
      <4>2. CASE ~(z = s /\ k = r.key)
        <5>1. stored'[z][k] = stored[z][k]
            BY <3>1, <3>2, <4>2, Zenon DEF HomeInv
        <5>. QED  BY <5>1, <3>4, Zenon DEF HomeInv, StoredAtHome
      <4>. QED  BY <4>1, <4>2, Zenon
    <3>. QED  BY <3>3, <3>4, Zenon DEF StoredAtHome
  <2>. QED  BY <2>1, <2>2, Zenon DEF StoresFirst
<1>. QED  BY <1>4, <1>6, <1>7, Zenon DEF HomeInv

LEMMA ServeStep ==
    ASSUME HomeInv, NEW p \in Processes, NEW s \in Servers, Serve(p, s)
    PROVE  HomeInv'
<1>1. CASE READ_OP(p, s)
  <2>1. requests[p][s] # <<>> /\ StoresFirst(p, s) /\ TakesFirst(p, s) /\ ServerStep
      BY <1>1, Zenon DEF READ_OP, HasRequest, StoresFirst, TakesFirst
  <2>. QED  BY <2>1, StoreStep, Zenon
<1>2. CASE READ_OP_shm(p, s)
  <2>1. requests[p][s] # <<>> /\ StoresFirst(p, s) /\ TakesFirst(p, s) /\ ServerStep
      BY <1>2, Zenon DEF READ_OP_shm, HasRequest, StoresFirst, TakesFirst
  <2>. QED  BY <2>1, StoreStep, Zenon
<1>3. CASE WRITE_OP(p, s)
  <2>1. requests[p][s] # <<>> /\ StoresFirst(p, s) /\ TakesFirst(p, s) /\ ServerStep
      BY <1>3, Zenon DEF WRITE_OP, HasRequest, StoresFirst, TakesFirst
  <2>. QED  BY <2>1, StoreStep, Zenon
<1>4. CASE WRITE_OP_shm(p, s)
  <2>1. requests[p][s] # <<>> /\ StoresFirst(p, s) /\ TakesFirst(p, s) /\ ServerStep
      BY <1>4, Zenon DEF WRITE_OP_shm, HasRequest, StoresFirst, TakesFirst
  <2>. QED  BY <2>1, StoreStep, Zenon
<1>5. CASE WRITE_OP_shm_Attach(p, s)
  <2>1. requests[p][s] # <<>> /\ StoresFirst(p, s) /\ TakesFirst(p, s) /\ ServerStep
      BY <1>5, Zenon DEF WRITE_OP_shm_Attach, HasRequest, StoresFirst, TakesFirst
  <2>. QED  BY <2>1, StoreStep, Zenon
<1>6. CASE WRITE_OP_shm_Copy(p, s)
  <2>1. requests[p][s] # <<>> /\ StoresFirst(p, s) /\ TakesFirst(p, s) /\ ServerStep
      BY <1>6, Zenon DEF WRITE_OP_shm_Copy, HasRequest, StoresFirst, TakesFirst
  <2>. QED  BY <2>1, StoreStep, Zenon
<1>7. CASE WRITE_OP_shm_Fails(p, s)
  <2>1. requests[p][s] # <<>> /\ StoresFirst(p, s) /\ TakesFirst(p, s) /\ ServerStep
      BY <1>7, Zenon DEF WRITE_OP_shm_Fails, HasRequest, StoresFirst, TakesFirst
  <2>. QED  BY <2>1, StoreStep, Zenon
<1>. QED  BY <1>1, <1>2, <1>3, <1>4, <1>5, <1>6, <1>7, Zenon DEF Serve

LEMMA HomeStep ==
    ASSUME OneFilePerProcess, DefinedPolicy, HomeInv, Next
    PROVE  HomeInv'
<1>1. ASSUME NEW t \in Threads, NEW f \in FilesOf[t], NEW b \in Blocks, set_data(t, f, b)
      PROVE  HomeInv'
  <2>1. writes' \in Nat /\ writes < MaxWrites /\ Start(t, "SET", f, b)
      BY <1>1 DEF set_data, HomeInv
  <2>. QED  BY <2>1, StartStep, Zenon DEF Ops
<1>2. ASSUME NEW t \in Threads, NEW f \in FilesOf[t], NEW b \in Blocks, get_ndata(t, f, b)
      PROVE  HomeInv'
  <2>1. writes' \in Nat /\ Start(t, "GET", f, b)
      BY <1>2, Zenon DEF get_ndata, HomeInv
  <2>. QED  BY <2>1, StartStep, Zenon DEF Ops
<1>3. ASSUME NEW t \in Threads, ClientStep(t)
      PROVE  HomeInv'
  <2>1. ASSUME NEW g \in Nat, get_data_location(t, g)
        PROVE  HomeInv'
      BY <2>1, LocateStep, Zenon
  <2>2. CASE Lock(t)
      BY <2>2, LockStep, Zenon
  <2>3. CASE Send(t)
      BY <2>3, SendStep, Zenon
  <2>4. CASE LoopEnd(t)
      BY <2>4, ReturnStep, Zenon DEF LoopEnd, At, Return, servers
  <2>5. CASE Receive(t)
      BY <2>5, ReturnStep, Zenon DEF Receive, ReceiveSet, ReceiveGet, Return, servers, At
  <2>. QED  BY <1>3, <2>1, <2>2, <2>3, <2>4, <2>5, NamesAssumption, Zenon
            DEF ClientStep, DefinedPolicy
<1>. QED  BY <1>1, <1>2, <1>3, ServeStep, Zenon DEF Next

\* For any number of servers, copies, processes and threads: if a process
\* works on one file and the policy is not one of the two that hash
\* uninitialised memory, a data server only holds blocks that get_ndata asks
\* it for, with the data of their own file.
THEOREM PlacementIsConsistent ==
    ASSUME OneFilePerProcess, DefinedPolicy
    PROVE  Spec => []StoredAtHome
<1>1. HomeInv /\ UNCHANGED vars => HomeInv'
  <2>. SUFFICES ASSUME HomeInv, UNCHANGED vars PROVE HomeInv'
      BY Zenon
  <2>. QED  BY Zenon DEF vars, servers, HomeInv, StoredAtHome
<1>2. HomeInv /\ [Next]_vars => HomeInv'
    BY <1>1, HomeStep, Zenon
<1>3. HomeInv => StoredAtHome
    BY Zenon DEF HomeInv
<1>. QED  BY <1>2, <1>3, HomeInit, PTL DEF Spec
=============================================================================
