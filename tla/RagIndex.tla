------------------------------ MODULE RagIndex ------------------------------
(***************************************************************************)
(* RAGLogEngine (src/rag_engine.py): the index of the security log that a  *)
(* query searches, built or loaded by the first query of a process, and    *)
(* its copy on disk: index.faiss, index.pkl and index.metadata, the marker *)
(* with the log's mtime in whole seconds.                                  *)
(*                                                                         *)
(* The log is written by others, at any time.  Its contents are counted in *)
(* versions: version v has the first v writes in it.  Neither the threads  *)
(* nor their writes to the three files are synchronised.                   *)
(***************************************************************************)
EXTENDS Naturals

CONSTANTS Threads,      \* HTTP threads that query one engine
          MaxWrites,    \* bound: writes to the log
          MaxTime,      \* bound: seconds that pass
          MaxCrashes    \* bound: restarts of the engine

ASSUME RagAssumption ==
  MaxWrites \in Nat \ {0} /\ MaxTime \in Nat \ {0} /\ MaxCrashes \in Nat

Seconds == 1..MaxTime
Versions == 1..MaxWrites

(* What a file may hold instead of a version: it is not there; it breaks   *)
(* off, so that loading it raises; several threads have written into it.   *)
Absent == 0
Cut == MaxWrites + 1
Mixed == MaxWrites + 2
NoMarker == 0     \* no marker, or an empty one

VARIABLES
  now,           \* the current second
  log,           \* the version of the log file, Absent while it is empty
  mtime,         \* the second of its last write
  before,        \* before[s]: the version the log had when second s began
  faiss, pkl,    \* index.faiss and index.pkl: the version they were built from
  marker,        \* index.metadata
  store,         \* self.vector_store: versions of its vectors and its documents
  initialized,   \* self._initialized
  pc,            \* pc[t]: where thread t is in query
  stat,          \* stat[t]: the mtime it read
  held,          \* held[t]: the log it has read, the index it saves or loads
  crashes,
  together       \* auxiliary: two threads have been in _ensure_initialized at once

envVars == <<now, log, mtime, before>>
diskVars == <<faiss, pkl, marker>>
vars == <<now, log, mtime, before, faiss, pkl, marker, store, initialized,
          pc, stat, held, crashes, together>>

Contents == {Absent, Cut, Mixed} \cup Versions
Indexes == [vectors : Contents, documents : Contents]

IndexOf(v) == [vectors |-> v, documents |-> v]
Nothing == IndexOf(Absent)

RagTypeOK ==
  /\ now \in Seconds /\ log \in {Absent} \cup Versions /\ mtime \in Seconds
  /\ before \in [Seconds -> {Absent} \cup Versions]
  /\ faiss \in Contents /\ pkl \in Contents /\ marker \in {NoMarker} \cup Seconds
  /\ store \in Indexes
  /\ initialized \in BOOLEAN
  /\ pc \in [Threads -> {"idle", "stat", "check", "read_log", "build", "open_faiss",
                         "write_faiss", "open_pkl", "write_pkl", "open_marker",
                         "write_marker", "load_faiss", "load_pkl", "flag", "search"}]
  /\ stat \in [Threads -> {NoMarker} \cup Seconds]
  /\ held \in [Threads -> Indexes]
  /\ crashes \in 0..MaxCrashes /\ together \in BOOLEAN
  /\ \A t \in Threads : pc[t] = "build" => held[t].vectors \in Versions

(* A new installation: no index, and the log with or without a first entry.*)
Init ==
  /\ now = 1 /\ mtime = 1
  /\ log \in {Absent, 1}
  /\ before = [s \in Seconds |-> Absent]
  /\ faiss = Absent /\ pkl = Absent /\ marker = NoMarker
  /\ store = Nothing /\ initialized = FALSE
  /\ pc = [t \in Threads |-> "idle"]
  /\ stat = [t \in Threads |-> NoMarker]
  /\ held = [t \in Threads |-> Nothing]
  /\ crashes = 0 /\ together = FALSE

-----------------------------------------------------------------------------
(* The world: the clock, and whoever writes the log.                       *)

Tick ==
  /\ now < MaxTime
  /\ now' = now + 1
  /\ before' = [before EXCEPT ![now + 1] = log]
  /\ UNCHANGED <<log, mtime, diskVars, store, initialized, pc, stat, held, crashes, together>>

WriteLog ==
  /\ log < MaxWrites
  /\ log' = log + 1 /\ mtime' = now
  /\ UNCHANGED <<now, before, diskVars, store, initialized, pc, stat, held, crashes, together>>

-----------------------------------------------------------------------------
(* query and _ensure_initialized.  No lock: every thread that finds the    *)
(* flag down goes through all of it.                                       *)

Goto(t, where) == pc' = [pc EXCEPT ![t] = where]

Query(t) ==
  /\ pc[t] = "idle"
  /\ IF initialized THEN Goto(t, "search") /\ UNCHANGED together
     ELSE /\ Goto(t, "stat")
          /\ together' = (together \/ \E u \in Threads : pc[u] \notin {"idle", "search"})
  /\ UNCHANGED <<envVars, diskVars, store, initialized, stat, held, crashes>>

Stat(t) ==
  /\ pc[t] = "stat"
  /\ stat' = [stat EXCEPT ![t] = mtime]
  /\ Goto(t, "check")
  /\ UNCHANGED <<envVars, diskVars, store, initialized, held, crashes, together>>

(* _index_is_current: both files exist and the marker has the log's second.*)
IndexIsCurrent(t) == faiss # Absent /\ pkl # Absent /\ marker = stat[t]

Check(t) ==
  /\ pc[t] = "check"
  /\ Goto(t, IF IndexIsCurrent(t) THEN "load_faiss" ELSE "read_log")
  /\ UNCHANGED <<envVars, diskVars, store, initialized, stat, held, crashes, together>>

(* Mutant: an empty log is indexed. *)
ReadEmptyLog(t) ==
  /\ pc[t] = "read_log"
  /\ held' = [held EXCEPT ![t] = IndexOf(log)]
  /\ Goto(t, "build")
  /\ UNCHANGED <<envVars, diskVars, store, initialized, stat, crashes, together>>

(* _build_index: an empty log raises, and the query fails. *)
ReadLog(t) ==
  /\ pc[t] = "read_log"
  /\ held' = [held EXCEPT ![t] = IndexOf(log)]
  /\ Goto(t, IF log = Absent THEN "idle" ELSE "build")
  /\ UNCHANGED <<envVars, diskVars, store, initialized, stat, crashes, together>>

(* Mutant: the marker is written before the index is saved. *)
BuildMarkingFirst(t) ==
  /\ pc[t] = "build"
  /\ store' = held[t]
  /\ marker' = stat[t]
  /\ Goto(t, "open_faiss")
  /\ UNCHANGED <<envVars, faiss, pkl, initialized, stat, held, crashes, together>>

(* The whole log is split, embedded and becomes the store. *)
Build(t) ==
  /\ pc[t] = "build"
  /\ store' = held[t]
  /\ Goto(t, "open_faiss")
  /\ UNCHANGED <<envVars, diskVars, initialized, stat, held, crashes, together>>

-----------------------------------------------------------------------------
(* save_local, of the index that is self.vector_store when it is called:   *)
(* the vectors, then the documents.  Opening a file empties it; what is in *)
(* it when its writer is done is the writer's index, unless another thread *)
(* has written into it meanwhile.                                          *)

(* Another thread is still at it, or has been since t opened the file. *)
Disturbed(t, file) == file # Cut \/ \E u \in Threads : u # t /\ pc[u] = pc[t]

MixedIf(disturbed) == IF disturbed THEN {Mixed} ELSE {}

OpenFaiss(t) ==
  /\ pc[t] = "open_faiss"
  /\ held' = [held EXCEPT ![t] = store]
  /\ faiss' = Cut
  /\ Goto(t, "write_faiss")
  /\ UNCHANGED <<envVars, pkl, marker, store, initialized, stat, crashes, together>>

WriteFaiss(t) ==
  /\ pc[t] = "write_faiss"
  /\ faiss' \in {held[t].vectors} \cup MixedIf(Disturbed(t, faiss))
  /\ Goto(t, "open_pkl")
  /\ UNCHANGED <<envVars, pkl, marker, store, initialized, stat, held, crashes, together>>

OpenPkl(t) ==
  /\ pc[t] = "open_pkl"
  /\ pkl' = Cut
  /\ Goto(t, "write_pkl")
  /\ UNCHANGED <<envVars, faiss, marker, store, initialized, stat, held, crashes, together>>

WritePkl(t) ==
  /\ pc[t] = "write_pkl"
  /\ pkl' \in {held[t].documents} \cup MixedIf(Disturbed(t, pkl))
  /\ Goto(t, "open_marker")
  /\ UNCHANGED <<envVars, faiss, marker, store, initialized, stat, held, crashes, together>>

(* _write_marker: open with "w" empties the file before it is written. *)
OpenMarker(t) ==
  /\ pc[t] = "open_marker"
  /\ marker' = NoMarker
  /\ Goto(t, "write_marker")
  /\ UNCHANGED <<envVars, faiss, pkl, store, initialized, stat, held, crashes, together>>

(* Mutant: the marker gets the mtime the log has by now. *)
WriteMarkerNow(t) ==
  /\ pc[t] = "write_marker"
  /\ marker' = mtime
  /\ Goto(t, "flag")
  /\ UNCHANGED <<envVars, faiss, pkl, store, initialized, stat, held, crashes, together>>

(* The mtime read before the log was. *)
WriteMarker(t) ==
  /\ pc[t] = "write_marker"
  /\ marker' = stat[t]
  /\ Goto(t, "flag")
  /\ UNCHANGED <<envVars, faiss, pkl, store, initialized, stat, held, crashes, together>>

-----------------------------------------------------------------------------
(* _load_index; a file that breaks off raises, and the query fails.  One   *)
(* that is mixed, or being written, may raise or not.                      *)
Loaded(file, writing) ==
  {file} \cup (IF file = Mixed \/ \E u \in Threads : pc[u] = writing
              THEN {Cut, Mixed} ELSE {})

LoadFaiss(t) ==
  /\ pc[t] = "load_faiss"
  /\ \E f \in Loaded(faiss, "write_faiss") :
       /\ held' = [held EXCEPT ![t] = [vectors |-> f, documents |-> Absent]]
       /\ Goto(t, IF f = Cut THEN "idle" ELSE "load_pkl")
  /\ UNCHANGED <<envVars, diskVars, store, initialized, stat, crashes, together>>

LoadPkl(t) ==
  /\ pc[t] = "load_pkl"
  /\ \E f \in Loaded(pkl, "write_pkl") :
       IF f = Cut THEN Goto(t, "idle") /\ UNCHANGED store
       ELSE /\ store' = [vectors |-> held[t].vectors, documents |-> f]
            /\ Goto(t, "flag")
  /\ UNCHANGED <<envVars, diskVars, initialized, stat, held, crashes, together>>

(* Whatever reads, computes or writes may raise, which ends the query; a   *)
(* file that was being written stays as it is then.                        *)
Raise(t) ==
  /\ \/ /\ pc[t] = "write_faiss"
        /\ faiss' = IF Disturbed(t, faiss) THEN Mixed ELSE faiss
        /\ UNCHANGED <<pkl, marker>>
     \/ /\ pc[t] = "write_pkl"
        /\ pkl' = IF Disturbed(t, pkl) THEN Mixed ELSE pkl
        /\ UNCHANGED <<faiss, marker>>
     \/ /\ pc[t] \in {"stat", "read_log", "build", "open_faiss", "open_pkl", "open_marker",
                      "write_marker", "load_faiss", "load_pkl"}
        /\ UNCHANGED diskVars
  /\ Goto(t, "idle")
  /\ UNCHANGED <<envVars, store, initialized, stat, held, crashes, together>>

SetFlag(t) ==
  /\ pc[t] = "flag"
  /\ initialized' = TRUE
  /\ Goto(t, "search")
  /\ UNCHANGED <<envVars, diskVars, store, stat, held, crashes, together>>

(* similarity_search over self.vector_store. *)
Search(t) ==
  /\ pc[t] = "search"
  /\ Goto(t, "idle")
  /\ UNCHANGED <<envVars, diskVars, store, initialized, stat, held, crashes, together>>

(* The engine is killed and restarted.  A file it was writing stays as it  *)
(* is then.                                                                *)
Crash ==
  /\ crashes < MaxCrashes
  /\ crashes' = crashes + 1
  /\ faiss' \in {faiss} \cup MixedIf(\E t \in Threads : pc[t] = "write_faiss" /\ Disturbed(t, faiss))
  /\ pkl' \in {pkl} \cup MixedIf(\E t \in Threads : pc[t] = "write_pkl" /\ Disturbed(t, pkl))
  /\ store' = Nothing /\ initialized' = FALSE
  /\ pc' = [t \in Threads |-> "idle"]
  /\ UNCHANGED <<envVars, marker, stat, held, together>>

EnsureInitialized(t) ==
  \/ Stat(t) \/ Check(t) \/ ReadLog(t) \/ Build(t) \/ OpenFaiss(t) \/ WriteFaiss(t)
  \/ OpenPkl(t) \/ WritePkl(t) \/ OpenMarker(t) \/ WriteMarker(t) \/ LoadFaiss(t)
  \/ LoadPkl(t) \/ SetFlag(t) \/ Raise(t)

Next ==
  \/ Tick \/ WriteLog \/ Crash
  \/ \E t \in Threads : Query(t) \/ EnsureInitialized(t) \/ Search(t)

Spec == Init /\ [][Next]_vars

-----------------------------------------------------------------------------
(* Properties.                                                             *)

(* As long as first queries come one at a time, what a query searches was  *)
(* built from one version of the log: vectors and documents are whole and  *)
(* belong together, whatever crashes and failed saves left on disk.        *)
(* (Because the marker is written last, and the log's mtime never returns  *)
(* to what an older marker says.)  Nothing is claimed once two have met:   *)
(* they can leave files of two versions, or mixed ones, under a marker     *)
(* that says they are current.                                             *)
SearchesOneVersion ==
  ~together =>
    \A t \in Threads : pc[t] = "search" =>
      store.vectors \in Versions /\ store.documents = store.vectors

(* An index that is taken from disk is whole and lacks no write older than *)
(* the second the log was last written in.  (Because the mtime is read     *)
(* before the log: a write in between is indexed under too old a marker,   *)
(* not missed under a new one.)  Again for first queries one at a time.    *)
LoadsAllOlderWrites ==
  [][~together => \A t \in Threads :
       pc[t] = "check" /\ pc'[t] = "load_faiss" =>
         faiss \in Versions /\ pkl = faiss /\ faiss >= before[stat[t]]]_vars

=============================================================================
