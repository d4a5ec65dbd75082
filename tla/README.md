# A verification of Hercules in TLA+

Hercules is an in-memory, ad-hoc distributed file system. A client library,
preloaded into the processes of a parallel program, sends the POSIX calls it
intercepts to metadata servers and data servers that live as long as a job.
This directory holds TLA+ models of its parts, TLC configurations that check
them on small instances, and TLAPS proofs of the main properties for instances
of any size. Paths are relative to the repository's root.

## 1. The system: inventory

| part | source | state | operations | talks to |
|---|---|---|---|---|
| POSIX interception | `tools/imss_posix.c`, `tools/mapfd.cpp`, `tools/mapdir.cpp`, `tools/flags.c`, `tools/resolvepath.c` | descriptors (path, offset, flags), directory streams | `open` `close` `read` `write` `lseek` `dup` `dup2` `unlink` `rename` `opendir` ... | file API |
| file API | `fuse/imss_posix_api.c`, `fuse/map.cpp`, `fuse/hierarchical_map.cpp`, `fuse/mapprefetch.cpp` | local map from path to (dataset number, `struct stat`, block 0) | `imss_create` `imss_open` `imss_write` `imss_sread` `imss_release` `imss_close` `imss_unlink` `imss_rename` `imss_rmdir` `imss_getattr` | client library |
| client library | `src/imss.c`, `src/policies.c`, `src/crc.c` | lists of deployments and datasets, connections, `lock_network` | `create_dataset` `open_dataset` `close_dataset` `delete_dataset` `stat_dataset` `get_ndata` `set_data` `rename_dataset_*`, intervals, placement | both kinds of server |
| server process | `app/server.c`, `src/workers.c` (dispatcher, pool, signals, malleability) | threads, condition variables, pending requests, `malleability_on` | start, attach clients, commission and decommission servers, shut down | everything |
| metadata server | `src/workers.c` (`stat_worker_helper`), `src/records.cpp`, `src/hierarchical_records.cpp`, `src/directory.c` | dataset records (status, `n_open`), garbage vector, directory tree | `GETDIR` `READ_OP` `OPEN_OP` `CLOSE_OP` `DELETE_OP` `RENAME_OP` `SET` | clients, collector |
| data server | `src/workers.c` (`srv_worker_helper`), `src/records.cpp`, `src/hierarchical_records.cpp`, `src/queue.c`, `src/shared_memory.c` | blocks `uri$N`, memory pool, `quantity_occupied`, garbage vector | `READ_OP` `WRITE_OP` `UNLINK_OP` `DELETE_OP` `RENAME_OP` | clients, collector, other data servers |
| garbage collector | `src/workers.c` (`GarbageCollector`), `src/records.cpp` (`cleaning`, `FreeMemory`) | the garbage vectors | one collection per wake-up | both servers |
| snapshot and checkpoint | `src/workers.c` (`Snapshot`), `src/records.cpp` | temporal copies, contributions of the ranks | periodic snapshot, reduce, checkpoint to disk | data servers |
| communication | `src/comms.c`, `src/map_ep.cpp`, `src/map_server_eps.cpp` | UCX workers, endpoints, tags | send, receive, connect | everything |
| configuration, logging, tools | `src/cfg_parse.c`, `src/slog.c`, `src/arg_parser.c`, `src/memalloc.c` | | | |

The behaviours that are hard to test, and where they are treated, are the
`hazards` of `PROJECT.json`: each gives the line at which it bites and the
properties that would catch it.

## 2. MetadataServer

`MetadataServer.tla` models `stat_worker_helper` and the collector thread over
the records of one directory. A record is its `status` and `n_open`; every
client has one outstanding request (it holds `lock_network` from the request to
the answer) and is attached to one thread of the pool. The handlers exclude one
another with `operation_lock`, so each is one action, except a create. `SET_OP`
sends `MSG_OK_OP` first, then takes the lock, looks the key up and *waits for
the structure of the dataset while it holds the lock*: these are `SET_Confirm`,
`SET_Lookup` and `SET_Store`. The client sends that structure in a second
message (`Send`, then `SendStructure`) and reads the answer afterwards, so the
server may hold the lock for a structure that has not been sent. The collector
does not take `operation_lock`; its wait has no predicate, so the switch
`SpuriousWakeups` lets it run between any two steps. The history variable `held`
has the clients whose open the server has counted and who have not closed;
`miscounted` has the datasets for which the count went wrong: closed by a client
that was not counted (a create that finds a record counts nobody, and
`generalOpen` gives out a descriptor when `imss_open` fails), or collected while
held, because their key was still in the garbage vector.

| run | what it shows |
|---|---|
| `metadata_safety` | three clients, one dataset, every request that changes a record (rename too), collections: a dataset marked `DEST` has an opener left (`DestHasOpener`); a dataset is stored as long as a counted opener holds it (`HeldIsStored`); a create inserts only where there is no record (`InsertsOnlyIfAbsent`); a create that returned has left a record or a thread on its way to store one (`CreatedIsComing`); an unlink is irrevocable (`DestIsFinal`) |
| `metadata_live` | every request is answered, under fairness of the threads |
| `metadata_visible` | violation: a create is confirmed before its record is inserted |
| `metadata_rename` | violation: a rename aborts the server |

Bounds: `MaxOpen` and `MaxGarbage` are guards of `Send`; they count the
requests under way, so no handler is ever disabled by a bound. Two openers are
enough to tell the last close from the others, and the third client of
`metadata_safety` unlinks or creates meanwhile; one key in the vector is enough
for a collection to take a record away. The datasets meet only in the lock and in
the listing, so that run has one. Requests that change nothing (`GETDIR`, a plain
`READ_OP`) are in `metadata_live`, with two clients. Fairness: a client sends the
structure of its create and waits for its answer (weak fairness of both); threads
poll for ever, and a thread blocked on `operation_lock` does not lose every race
for it (strong fairness of the handlers).

Proofs (`MetadataServerProofs.tla`), for every set of keys and clients and all
bounds. The first inductive invariant is `TypeOK` with `DestHasOpener`,
`InsertsOnlyIfAbsent` and the fact that no record is left `DIRTY`. `DestHasOpener`
needs no help. `InsertsOnlyIfAbsent` says that the thread holding the lock still
has its job and that its lookup is still true; it is inductive because every
action that stores a record needs the lock free. `DestIsFinal` follows action by
action, since `Revive` touches only `DIRTY` records.

`HeldIsStored` is about who opened the dataset, and the server only has a number.
The invariant that links them (`OpensCounted`) is that `n_open` is not less than the
number of holders of a dataset that is not miscounted: an open adds one to both or
only to `n_open`, and a close of a holder takes one from both. `DELETE_OP` and the
last `CLOSE_OP` then find no holder left. `CreatedIsComing` needs to know that a
client's messages are for one request (`OneMessage`), that a create with an answer
under way has its job or its record (`AnsweredIsKept`), that a SET which found the
record still finds it (`FoundIsKept`), and that a collection only takes datasets
removed before (`GarbageIsRemoved`).

Not modelled: failed receives, the tree and the directories, several directories.

## 3. BlockStore

`BlockStore.tla` models `srv_worker_helper` over the blocks of one directory. A
block is an address of memory; memory holds one version per client, because
ranks of a parallel program write their own parts of a shared block. A write is
two steps, the lookup when the request is read and the insertion or update
when the data are there (`WRITE_Lookup`, then `WRITE_Insert` or
`WRITE_Update`); block 0, the `struct stat`, has its own three actions. Several
clients may send the first block 0 of a file: `create_dataset` asks whether the
dataset exists, sends its `SET` and ignores the answer. The thread that then loses
the race to insert block 0 copies its stat over the stored one, without the
maximum of the sizes; the history variable `race_lost` has the files to which this
happened. The pool,
the counter `quantity_occupied` and the collector are modelled, and the history
variables `acked`, `acked_size` record what was confirmed to the clients.
Allocation and receive are merged with the second lookup: the buffer is private
until then. The shared-memory path writes the same bytes and is not told apart.

| run | what it shows |
|---|---|
| `blocks_writes` | two clients create, update, unlink and rename two files: confirmed writes are read back (`AckedIsStored`), an address kept between the two steps is still right (`SeenIsCurrent`), `st_size` covers every confirmed size unless two creates raced to insert block 0 (`SizeCoversAcked`) |
| `blocks_gc` | with collections: no memory has two owners (`OneOwner`), `quantity_occupied` covers the memory in use (`OccupiedCoversUse`) |
| `blocks_rename` | violation: renaming over an unlinked file loses the renamed blocks |

`SpuriousWakeups` is off in `blocks_writes`: no code signals the collector except
at shutdown. `BusyTargets` is off there too: the target of a rename
has no block at this server. With either on, `AckedIsStored` does not hold, as
`blocks_rename` shows for the second. That defect is latent in a whole deployment
today: the metadata server's rename comes before and aborts (`metadata_rename`), and
the request goes to the server of block 0 only. `MaxGarbage` is zero in
`blocks_writes`, which leaves `DELETE_OP` and the unlink of a file nobody has open to
`blocks_gc`: all they add there is a key in the vector, and without collections
that changes nothing. `blocks_gc` stays below the storage limit.

Proofs (`BlockStoreProofs.tla`). `OneOwner` is proved for any clients, files and
buffers and both switches on; with the types of the memory it is inductive.
`SeenIsCurrent /\ AckedIsStored` is proved with both switches off. It needs
`OneOwner`: a write through an address changes one block only because no
other block has that address, and needs `SeenIsCurrent` because an update goes
to the address seen before. `SizeCoversAcked` is proved with collections and without
`BusyTargets`: a confirmed size belongs to a stored block 0, and a rename moves
both, with the mark of a lost race.

Seen in the model and not given a run: a lost race to insert block 0 loses a
confirmed size; the collector compares the path of a
block with a key that still has its `$0`, so a collection frees no block of an
unlinked file; past the storage limit `HierarchicalMapPut` stores blocks and does
not count them; unlinking a file whose block 0 is not stored stops the server.

## 4. Placement, BlockRegister, Replication

`Placement.tla` has `find_server` and the servers of the copies of a block as
operators. `Replication.tla` composes threads of client processes with several
data servers, each of which handles a request in one step (`BlockStore` has the
inside of a server). A call of `set_data` or `get_ndata` goes through
`get_data_location` (which sets the global `curr_dataset`), `Lock`
(`lock_network`), and for each copy `Send` and `Receive`. What is shared is
modelled as shared: `curr_dataset`, the lock and the tag belong to a process, and
a thread that waits takes the first message with the tag of its process. The
shared-memory path of the LOCAL and ZCOPY policies has its own server actions.
Messages between two parties arrive in order and are not lost (UCX).

`BlockRegister.tla` is the abstract specification: every block is a register, a
write takes effect at one moment of its call, and a read returns a value the
register had at some moment of its call. The refinement maps the register to the
block on its first server; the history variables `took` and `window` record
whether a write has taken effect and what a read may return.

| run | what it shows |
|---|---|
| `replication_register` | three threads of two processes, three servers, two copies: the register (`RegisterSpec`), answers go to the thread that asked (`AnswersMatch`), a block is on all of its servers or on none between writes (`ReplicasComplete`), it is only where `get_ndata` looks (`StoredAtHome`), every call returns (`CallsReturn`) |
| `replication_local` | the LOCAL policy with processes on the nodes of two servers: whichever path a block takes, it is stored where `get_ndata` looks for it |
| `replication_threads` | violation: two threads of one process work on two files; `curr_dataset` changes between two uses in a call and a file gets the data of the other |

Bounds: `MaxWrites`, `MaxReads` limit the calls; two writes and two reads are
enough for a read to overlap two writes of different processes, and for
leftover messages to reach a later call. Three servers with two copies make
the stride between copies differ from the number of copies. Deadlock is not
checked: the calls run out. Fairness is weak, of each thread and of each server
for each client: threads spin on their receives, and the threads of a server
poll for ever. `lock_network` needs only weak fairness there: the calls are
bounded, so it is not taken for ever by others.

Proofs (`ReplicationProofs.tla`), for any number of servers and copies:
`ReplicaServerInRange` and `ReplicasOnDistinctServers`, if the factor is at most
the number of servers. `create_dataset` lowers it to its parameter `n_servers`, which
the POSIX library sets to the number of servers found by `open_imss`; the test of that
parameter against `num_storages` is commented out. `PlacementIsConsistent` proves
`Spec => []StoredAtHome` for any files, blocks, processes and threads, under
two assumptions: `OneFilePerProcess` (without it, `replication_threads` has the
counterexample) and `DefinedPolicy` (the CRC policies hash memory that was never
written). The invariant `HomeInv` carries the fact from the call to the server: a
call in progress has the location of its own key, `curr_dataset` is its
file, and every request under way to a server is for a key that belongs there.

Seen in the model and not given a run: with the LOCAL policy `set_data` compares
the number of the copy, not of the server it goes to, with the server of its
node, and a call may wait for ever for a server that could not attach its
memory; a new block in shared memory is confirmed twice; `get_ndata` returns with
`lock_network` held when `shmget` fails (not in the model); with `ASYNC_IO` the
confirmations stay and a later `get_ndata` takes one for its block; with two
writers the copies of a block may stay different.

## 5. FileIO

`FileIO.tla` models the calls on one file, from the interception to the blocks.
`set_data` and `get_ndata` on one block are single steps, which is what
`Replication` shows of them. A process has one descriptor (`map_fd`: opening an
open path returns the descriptor it has) and an entry of the local map
(`local`: `st_size`). A byte is the write that stored it and its index in the
buffer of that write, so a byte that is shifted, lost, repeated or taken from
an older write can be told apart. Two processes may both find no record and create
the file; `race_lost` records that one of them lost the race to insert block 0 and
copied a size of zero over the other's.

| code | actions |
|---|---|
| `generalOpen`, `imss_create`, `imss_open` | `imss_create` (no record found), `create_dataset_SET` (record), `imss_create_Lookup` and `imss_create_Block0` (block 0), `imss_open`, `open_trunc` |
| `generalWrite`, `imss_write` | `imss_write` (offsets, copy of `st_size`), `imss_write_Block` (a turn of the loop), `imss_write_End` (local size, offset) |
| `read`, `pread`, `imss_sread` | `imss_sread`, `imss_sread_Block`, `imss_sread_End` |
| `close`, `imss_close` | `imss_release`, `imss_release_Block0`, `imss_refresh` |
| `lseek`, `stat` | `lseek`, `lseek_end`, `imss_getattr` |

| run | what it shows |
|---|---|
| `fileio_calls` | two processes: bytes are stored where they were asked for (`WritesInPlace`), a finished write has left all of its bytes (`WritesLast`), a read inside the file has exactly its bytes and none that was replaced before it began (`ReadsInPlace`), every size is the end of a write (`SizesAreReal`), the size in block 0 covers every write followed by a close, unless two creates raced to insert it (`ClosedIsPublished`) |
| `fileio_eof` | violation: only the first block of a read is cut at the end of the file |

Bounds: blocks of two bytes, at most `MaxBlk` of them; writes of one and
four bytes at offsets one and two cover a part of a block, whole blocks, and a
first part, a middle block and a last part. One process uses the offset of its
descriptor and the other explicit offsets (`Positional`). `MaxWrites` is two: a
write over another. Each process has one thread; with two threads in one process
`ClosedIsPublished` does not hold, because `imss_write` stores a size it
compared with a copy made before its loop.

Proofs (`FileIOProofs.tla`), for any block size, offsets, sizes, threads and
processes. `TypeCorrect`: `TypeOK` with the bound of the writes (`WriteBounds`) is
inductive; the work is the arithmetic of `FirstBlk` and `LastBlk`, as lemmas about
division. `InPlace`: `WritesInPlace`, if no write has size zero (`set_data`
takes zero for a whole block). It needs the invariant of the loop (`GoodWrite`):
as long as the last block is not passed, the place the loop is at in the blocks,
`(curr_blk - 1) * B + block_offset`, is `off + done`, the place it is at in the
buffer, and something is left to write. `WriteTurn` then shows that a turn copies
at least one byte, no more than is left, and ends inside its block.
`ClosedIsPublishedAlways`: `ClosedIsPublished` for any processes of one thread each.
It needs what a thread knows of its process in the middle of a call (`Own`): the
copy of `st_size` that a write compares with is still the local size, and a close
sends a size that covers all the process has written.

Seen in the model and not given a run: the offset after a write is the old
size plus the bytes written; a path that is known to a process is opened with
the size it had there; `O_TRUNC` only changes the local size, and the old one
comes back; a lost race between two creates resets a published size; an open with `O_CREAT` between the two steps of another's create
returns a descriptor that cannot be written.

## 6. What is proved and what is only checked

Proved for all constants: the theorems of `PROJECT.json`. Model-checked on the
instances above only: liveness (`EveryCallReturns`, `CallsReturn`), which TLAPS
does not reach; the refinement `RegisterSpec`; `AnswersMatch`,
`ReplicasComplete`, `OccupiedCoversUse`, `WritesLast`, `ReadsInPlace` and
`SizesAreReal`. `CreatedIsVisible`, `ReadStopsAtEOF` and the other properties
of violation runs are refuted; the findings quote what the code says of them.

## 7. Plan

Done: the metadata server, the data server, placement and replication, the
calls on one file. Left, in this order:

1. `Shutdown`: signal handler, dispatcher, collector and snapshot threads and
   their condition variables (`app/server.c`, `src/workers.c`); does the
   server stop, and is no request lost? Abstract specification: threads that
   end once.
2. `FileLifecycle`: `MetadataServer` and `FileIO` composed: several descriptors,
   `dup`, `unlink` of open files, `close`, create again; the count of
   openers against the descriptors that exist.
3. `Snapshot`: contributions of the ranks, the merge and the checkpoint.
4. `Namespace`: the directory tree, `readdir`, renames of directories over the
   tree, the local map and the blocks; the client side of a rename with its
   locks.
5. `Prefetch`, and the attachment of clients (`Dispatcher`, `HandleClient`, `ready`).
6. Proofs: `TypeOK` and `AnswersMatch` of Replication, the refinement to
   `BlockRegister`; `WritesLast`, `ReadsInPlace` and `SizesAreReal` of FileIO; the
   invariants of the new modules.

## 8. Not modelled

Malleability: `MALLEABILITY_ON` is a `static` variable of a header, so only
`hercules.cpp` ever sees it set, and the messages that stop or reorder servers
are commented out. UCX, sockets and system calls: external; messages of a
connection arrive in order. Hash functions: any functions. Configuration, logging,
mount tools and the FUSE wrappers: no protocol state. Failed receives and failed
allocations: the code mostly reports them and goes on.
