----------------------------- MODULE Placement ------------------------------
(***************************************************************************)
(* Where the client library puts a block: find_server (src/policies.c) and *)
(* the replicas that set_data and get_ndata (src/imss.c) derive from it.   *)
(* A name is reduced to the values of its hash functions.                  *)
(***************************************************************************)
EXTENDS Integers

CONSTANTS num_storages,  \* data servers of the deployment
          repl_factor    \* REPL_FACTOR: copies of every block

\* create_dataset refuses a factor outside NONE .. TRM and lowers it to its
\* parameter n_servers.  It does not compare n_servers with num_storages (the
\* test is commented out): the last conjunct assumes a caller that passes at
\* most that many, as the POSIX library does, which sets N_SERVERS to what
\* open_imss returns.
ASSUME PlacementAssumption ==
    /\ num_storages \in Nat \ {0}
    /\ repl_factor \in 1 .. 3
    /\ repl_factor <= num_storages

Servers == 0 .. num_storages - 1
Replicas == 0 .. repl_factor - 1

\* Also the distribution of the LOCAL and ZCOPY policies.
RoundRobin(n_servers, n_msg, crc) == ((crc % n_servers) + n_msg) % n_servers

\* hash: of the name with the number of the block.
Hashed(n_servers, hash) == hash % n_servers

\* The key that is hashed is never written: garbage is its checksum.
CRC(n_servers, garbage) == garbage % n_servers

\* BUCKETS has no case: next_server stays -1 and the process exits.
find_server(n_servers, n_msg, crc, hash, garbage, session_plcy) ==
    CASE session_plcy \in {"RR", "LOCAL", "ZCOPY"} ->
             RoundRobin(n_servers, n_msg, crc)
      [] session_plcy = "HASH" -> Hashed(n_servers, hash)
      [] session_plcy \in {"CRC16b", "CRC64b"} -> CRC(n_servers, garbage)
      [] OTHER -> -1

\* Replica i of a block whose first copy is on n_server.
ReplicaServer(n_server, i) ==
    (n_server + i * (num_storages \div repl_factor)) % num_storages
=============================================================================
