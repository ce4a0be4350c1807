----------------------------- MODULE LinkCache -----------------------------
(***************************************************************************)
(* shader::link() and its two caches: the results of recent links in the   *)
(* memory of each process (LinkCache, compiler.cpp) and one file per link  *)
(* key in a directory that every process of the account shares             *)
(* (link_file_cache.cpp).                                                  *)
(*                                                                         *)
(* Threads of several processes link at once.  The caches promise to be    *)
(* invisible: a thread gets what compiling its inputs with its own build   *)
(* gives.  Processes are killed between any two steps.                     *)
(*                                                                         *)
(* A link key is a model value; the result of a link is the pair of build  *)
(* and key it was compiled from.  PathOf is pathFor(): two pairs may hash  *)
(* to one name.  Modification times are abstracted to the order `recency`  *)
(* of the files, least recently used first.  trimDirectory()'s scan of the *)
(* directory is one step, its unlinks are not.                             *)
(***************************************************************************)
EXTENDS Integers, Sequences, FiniteSets, SequencesExt, FiniteSetsExt

CONSTANTS
  Processes,
  Linkers,
  ProcessOf,  \* [Linkers -> Processes]
  BuildOf,    \* [Processes -> Builds]: the core's file identity
  Keys,
  Failing,    \* the keys whose link fails
  PathOf,     \* [Builds \X Keys -> Names]
  BytesOf,    \* [Keys -> size of the file of a result]
  MaxBytes, KeepBytes,
  kEntries,   \* LinkCache::kEntries
  NoFile

Names == {PathOf[x] : x \in DOMAIN PathOf}

Builds == {BuildOf[p] : p \in Processes}
File == [build : Builds, key : Keys, result : Builds \X Keys, bytes : Nat]

LinkAssumption ==
  /\ ProcessOf \in [Linkers -> Processes]
  /\ Builds \X Keys \subseteq DOMAIN PathOf
  /\ \A k \in Keys : BytesOf[k] \in Nat
  /\ KeepBytes \in Nat /\ kEntries \in Nat
  /\ NoFile \notin File

VARIABLES
  linkPc,   \* where each thread is in link()
  key,      \* the key it links
  held,     \* the file it has read, or the result it returns
  order,    \* LinkCache::order_ of each process, most recently used first
  entries,  \* LinkCache::entries_ of each process
  trim,     \* the once_flag of trimDirectory() in each process
  scan,     \* the files the trim of each process has still to look at
  left,     \* its `total`
  grown,    \* ghost: the processes whose scan is older than a store
  files,    \* what is under each name
  recency   \* the names by modification time

memory == <<order, entries>>
trimming == <<trim, scan, left>>
directory == <<files, recency>>
linkVars == <<linkPc, key, held, memory, trimming, grown, directory>>

OwnBuild(t) == BuildOf[ProcessOf[t]]
Path(t) == PathOf[<<OwnBuild(t), key[t]>>]
Linked(t) == <<OwnBuild(t), key[t]>>

\* What trimDirectory() adds up: each byte of each file, once.
BytesIn(n) == {n} \X (1 .. files[n].bytes)
Stored == UNION {BytesIn(n) : n \in ToSet(recency)}
DirectoryBytes == Cardinality(Stored)

LinkTypeOK ==
  /\ linkPc \in [Linkers -> {"idle", "find", "read", "touch", "store", "unlink", "rename", "add", "done"}]
  /\ key \in [Linkers -> Keys \cup {NoFile}]
  /\ trim \in [Processes -> {"no", "running", "done"}]
  /\ grown \subseteq Processes
  /\ ToSet(recency) = {n \in Names : files[n] # NoFile}

LinkInit ==
  /\ linkPc = [t \in Linkers |-> "idle"]
  /\ key = [t \in Linkers |-> NoFile]
  /\ held = [t \in Linkers |-> NoFile]
  /\ order = [p \in Processes |-> <<>>]
  /\ entries = [p \in Processes |-> <<>>]
  /\ trim = [p \in Processes |-> "no"]
  /\ scan = [p \in Processes |-> <<>>]
  /\ left = [p \in Processes |-> 0]
  /\ grown = {}
  /\ files = [n \in Names |-> NoFile]
  /\ recency = <<>>

\* A sequence that lists an element at most once, without it.
LeftOut(s, x) ==
  IF x \in ToSet(s) THEN RemoveAt(s, CHOOSE j \in DOMAIN s : s[j] = x) ELSE s

\* The file under a name becomes the most recently used one.
MostRecent(n) == Append(LeftOut(recency, n), n)

LinkGoto(t, label) == linkPc' = [linkPc EXCEPT ![t] = label]
Hold(t, value) == held' = [held EXCEPT ![t] = value]

\* link(key) starts.
Link(t, k) ==
  /\ linkPc[t] \in {"idle", "done"}
  /\ key' = [key EXCEPT ![t] = k]
  /\ Hold(t, NoFile)
  /\ LinkGoto(t, "find")
  /\ UNCHANGED <<memory, trimming, grown, directory>>

\* splice(): a key is moved to the front of the list.
ToFront(s, k) == <<k>> \o LeftOut(s, k)

\* LinkCache::find(): a hit becomes the most recently used entry.
Find(t) ==
  LET p == ProcessOf[t] IN
  /\ linkPc[t] = "find"
  /\ IF key[t] \in DOMAIN entries[p]
     THEN /\ order' = [order EXCEPT ![p] = ToFront(@, key[t])]
          /\ Hold(t, entries[p][key[t]])
          /\ LinkGoto(t, "done")
     ELSE /\ LinkGoto(t, "read")
          /\ UNCHANGED <<order, held>>
  /\ UNCHANGED <<key, entries, trimming, grown, directory>>

\* linkUncached(), which touches nothing shared; a failed link is not stored.
Compile(t) ==
  /\ Hold(t, Linked(t))
  /\ LinkGoto(t, IF key[t] \in Failing THEN "add" ELSE "store")

\* readFile(): the open file stays readable when its name is removed or replaced.
Read(t) ==
  /\ linkPc[t] = "read"
  /\ IF files[Path(t)] = NoFile
     THEN Compile(t)
     ELSE Hold(t, files[Path(t)]) /\ LinkGoto(t, "touch")
  /\ UNCHANGED <<key, memory, trimming, grown, directory>>

\* Mutant: the file found under the name is taken to be of this build.
MatchesKeyOnly(t) == held[t].key = key[t]

\* The name is the hash of the build and the key: the file says which it is for.
Matches(t) == held[t].build = OwnBuild(t) /\ held[t].key = key[t]

\* The file is compared with the build and the key, and touched.
Touch(t) ==
  /\ linkPc[t] = "touch"
  /\ IF Matches(t)
     THEN /\ recency' = IF files[Path(t)] = NoFile THEN recency ELSE MostRecent(Path(t))
          /\ Hold(t, held[t].result)
          /\ LinkGoto(t, "add")
     ELSE Compile(t) /\ UNCHANGED recency
  /\ UNCHANGED <<key, memory, trimming, grown, files>>

\* trimDirectory(), once per process, before its first store.
TrimScan(t) ==
  LET p == ProcessOf[t] IN
  /\ linkPc[t] = "store"
  /\ trim[p] = "no"
  /\ IF DirectoryBytes <= MaxBytes
     THEN /\ trim' = [trim EXCEPT ![p] = "done"]
          /\ UNCHANGED <<linkPc, scan, left, grown>>
     ELSE /\ trim' = [trim EXCEPT ![p] = "running"]
          /\ scan' = [scan EXCEPT ![p] = [i \in DOMAIN recency |-> [name |-> recency[i], bytes |-> files[recency[i]].bytes]]]
          /\ left' = [left EXCEPT ![p] = DirectoryBytes]
          /\ grown' = grown \ {p}
          /\ LinkGoto(t, "unlink")
  /\ UNCHANGED <<key, held, memory, directory>>

\* Mutant: a trim stops at the size that starts one.
TrimEnoughAbove(p) == scan[p] = <<>> \/ left[p] <= MaxBytes

TrimEnough(p) == scan[p] = <<>> \/ left[p] <= KeepBytes

\* unlink() of the least recently used file of the scan; it fails when
\* another process was faster.
TrimUnlink(t) ==
  LET p == ProcessOf[t]
      file == Head(scan[p]) IN
  /\ linkPc[t] = "unlink"
  /\ ~TrimEnough(p)
  /\ scan' = [scan EXCEPT ![p] = Tail(@)]
  /\ IF files[file.name] = NoFile
     THEN UNCHANGED <<left, directory>>
     ELSE /\ files' = [files EXCEPT ![file.name] = NoFile]
          /\ recency' = LeftOut(recency, file.name)
          /\ left' = [left EXCEPT ![p] = @ - file.bytes]
  /\ UNCHANGED <<linkPc, key, held, memory, trim, grown>>

TrimEnd(t) ==
  LET p == ProcessOf[t] IN
  /\ linkPc[t] = "unlink"
  /\ TrimEnough(p)
  /\ trim' = [trim EXCEPT ![p] = "done"]
  /\ scan' = [scan EXCEPT ![p] = <<>>]
  /\ left' = [left EXCEPT ![p] = 0]
  /\ grown' = grown \ {p}
  /\ LinkGoto(t, "store")
  /\ UNCHANGED <<key, held, memory, directory>>

\* The temporary is created and written; the process has been trimmed for
\* (call_once makes the other threads wait for the end of the trim).
Write(t) ==
  /\ linkPc[t] = "store"
  /\ trim[ProcessOf[t]] = "done"
  /\ LinkGoto(t, "rename")
  /\ UNCHANGED <<key, held, memory, trimming, grown, directory>>

\* A temporary that was written whole is renamed into place ...
Rename(t) ==
  LET n == Path(t) IN
  /\ linkPc[t] = "rename"
  /\ files' = [files EXCEPT ![n] = [build |-> OwnBuild(t), key |-> key[t], result |-> held[t], bytes |-> BytesOf[key[t]]]]
  /\ recency' = MostRecent(n)
  /\ grown' = grown \cup {p \in Processes : trim[p] = "running"}
  /\ LinkGoto(t, "add")
  /\ UNCHANGED <<key, held, memory, trimming>>

\* ... and removed when the write was short or the rename failed.
Discard(t) ==
  /\ linkPc[t] = "rename"
  /\ LinkGoto(t, "add")
  /\ UNCHANGED <<key, held, memory, trimming, grown, directory>>

\* LinkCache::add(): another thread may have added the key since find().
Add(t) ==
  LET p == ProcessOf[t]
      pushed == <<key[t]>> \o order[p]
      kept == SubSeq(pushed, 1, Min({Len(pushed), kEntries}))
      result == [k \in DOMAIN entries[p] \cup {key[t]} |-> IF k \in DOMAIN entries[p] THEN entries[p][k] ELSE held[t]] IN
  /\ linkPc[t] = "add"
  /\ IF key[t] \in DOMAIN entries[p]
     THEN UNCHANGED memory
     ELSE /\ order' = [order EXCEPT ![p] = kept]
          /\ entries' = [entries EXCEPT ![p] = [k \in DOMAIN result \ (ToSet(pushed) \ ToSet(kept)) |-> result[k]]]
  /\ LinkGoto(t, "done")
  /\ UNCHANGED <<key, held, trimming, grown, directory>>

\* The process is killed, and started again: its memory is gone (its
\* temporaries stay, which nothing reads).
Kill(p) ==
  LET mine == {t \in Linkers : ProcessOf[t] = p} IN
  /\ \E t \in mine : linkPc[t] # "idle"
  /\ linkPc' = [t \in Linkers |-> IF t \in mine THEN "idle" ELSE linkPc[t]]
  /\ held' = [t \in Linkers |-> IF t \in mine THEN NoFile ELSE held[t]]
  /\ order' = [order EXCEPT ![p] = <<>>]
  /\ entries' = [entries EXCEPT ![p] = <<>>]
  /\ trim' = [trim EXCEPT ![p] = "no"]
  /\ scan' = [scan EXCEPT ![p] = <<>>]
  /\ left' = [left EXCEPT ![p] = 0]
  /\ grown' = grown \ {p}
  /\ key' = [t \in Linkers |-> IF t \in mine THEN NoFile ELSE key[t]]
  /\ UNCHANGED directory

LinkNext ==
  \/ \E t \in Linkers :
       \/ \E k \in Keys : Link(t, k)
       \/ Find(t) \/ Read(t) \/ Touch(t)
       \/ TrimScan(t) \/ TrimUnlink(t) \/ TrimEnd(t)
       \/ Write(t) \/ Rename(t) \/ Discard(t) \/ Add(t)
  \/ \E p \in Processes : Kill(p)

LinkSpec == LinkInit /\ [][LinkNext]_linkVars

-----------------------------------------------------------------------------
\* A thread in link() has a key, and what it found or compiled is of that key.
HeldIsRight ==
  /\ linkPc \in [Linkers -> {"idle", "find", "read", "touch", "store", "unlink", "rename", "add", "done"}]
  /\ key \in [Linkers -> Keys \cup {NoFile}] /\ DOMAIN held = Linkers
  /\ \A t \in Linkers :
       /\ linkPc[t] # "idle" => key[t] \in Keys
       /\ linkPc[t] = "touch" => held[t] \in File /\ held[t].result = <<held[t].build, held[t].key>>
       /\ linkPc[t] \in {"store", "unlink", "rename", "add", "done"} => held[t] = Linked(t)

\* A file says what its result is of, whoever wrote it.
FilesAreRight ==
  /\ DOMAIN files = Names
  /\ \A n \in Names :
       \/ files[n] = NoFile
       \/ files[n] \in File /\ files[n].result = <<files[n].build, files[n].key>>

\* What a process keeps in memory is of its own build, and listed once.
MemoryIsRight ==
  /\ order \in [Processes -> Seq(Keys)] /\ DOMAIN entries = Processes
  /\ \A p \in Processes :
       /\ IsInjective(order[p]) /\ Len(order[p]) <= kEntries
       /\ DOMAIN entries[p] = ToSet(order[p])
       /\ \A k \in DOMAIN entries[p] : entries[p][k] = <<BuildOf[p], k>>

LinkIInv == HeldIsRight /\ FilesAreRight /\ MemoryIsRight

\* Every file of the directory has its place among the modification times.
RecencyIsRight ==
  /\ recency \in Seq(Names) /\ IsInjective(recency)
  /\ ToSet(recency) = {n \in Names : files[n] # NoFile}

DirectoryIInv ==
  /\ trim \in [Processes -> {"no", "running", "done"}]
  /\ grown \subseteq Processes
  /\ RecencyIsRight

\* One thread of a process trims, and one trim is all it does.
OneTrims ==
  \A t \in Linkers : linkPc[t] = "unlink" =>
    /\ trim[ProcessOf[t]] = "running"
    /\ \A u \in Linkers : linkPc[u] = "unlink" /\ ProcessOf[u] = ProcessOf[t] => u = t

\* While nobody stores, the rest of a scan lists every file there is, of the
\* size it has, and `total` is not below what they have together.
ScanCovers(p) ==
  /\ \A n \in ToSet(recency) : \E i \in 1 .. Len(scan[p]) : scan[p][i].name = n
  /\ \A i \in 1 .. Len(scan[p]) :
       files[scan[p][i].name] # NoFile => files[scan[p][i].name].bytes = scan[p][i].bytes
  /\ DirectoryBytes <= left[p]

TrimIInv ==
  /\ scan \in [Processes -> Seq([name : Names, bytes : Nat])]
  /\ left \in [Processes -> Int]
  /\ IsFiniteSet(Stored)
  /\ OneTrims
  /\ \A p \in Processes : trim[p] = "running" /\ p \notin grown => ScanCovers(p)

\* link() (compiler.cpp:4908) returns what linkUncached() makes of the
\* thread's own inputs with its own build: whatever the caches of other
\* threads, processes and builds hold, and whichever process was killed.
LinkExact == \A t \in Linkers : linkPc[t] = "done" => held[t] = Linked(t)

\* LinkCache (compiler.cpp:4875): the list and the map of a process hold the
\* same keys, each once, and at most kEntries: two threads that missed the
\* same key both come to add it.
MemoryCoherent ==
  \A p \in Processes :
    /\ IsInjective(order[p])
    /\ ToSet(order[p]) = DOMAIN entries[p]
    /\ Len(order[p]) <= kEntries

\* trimDirectory() (link_file_cache.cpp:316): a trim that found more than
\* kMaxBytes leaves at most kKeepBytes, unless somebody stored meanwhile --
\* also when several processes trim at once.
TrimKeeps ==
  \A t \in Linkers : TrimEnd(t) => ProcessOf[t] \in grown \/ DirectoryBytes <= KeepBytes
TrimBounds == [][TrimKeeps]_linkVars

\* The caches are invisible, and orderly.
LinkSound == LinkTypeOK /\ LinkExact /\ MemoryCoherent
=============================================================================
