------------------------------ MODULE AuditLog ------------------------------
(***************************************************************************)
(* HashChainedAuditLog.append and verify (src/audit.py) against the file,  *)
(* the Python file buffer, the operating system and crashes.               *)
(*                                                                         *)
(* The file is a sequence of chunks: the text of a record with its newline *)
(* ("whole"), or, when a write was cut, the front of it without a newline  *)
(* ("head") and the remainder with it ("tail").  A record is identified    *)
(* with its event and so is its hash: events are unique, and no two        *)
(* records have the same SHA-256.  Lengths are counted in units: a chunk   *)
(* has one unit, the end of a long record more than _last_hash reads at    *)
(* once.                                                                   *)
(***************************************************************************)
EXTENDS Naturals, Sequences, FiniteSetsExt

CONSTANTS Instances,       \* HashChainedAuditLog objects on one log_path
          ThreadsPer,      \* threads that append through one of them
          MaxEvents,       \* bound: appends begun
          Window,          \* the 4096 bytes of _last_hash, in units
          Sizes,           \* subset of {"short", "long"}
          MaxFailures,     \* bound: open, write or flush raising
          MaxCrashes,      \* bound: crashes of a process or of the host
          TornTails,       \* whether a crash of the host may cut a record
          Genesis          \* the hash ""

Threads == Instances \X (1..ThreadsPer)
Events == 1..MaxEvents

ASSUME AuditAssumption ==
  /\ ThreadsPer \in Nat \ {0} /\ Window \in Nat \ {0}
  /\ MaxEvents \in Nat /\ MaxFailures \in Nat /\ MaxCrashes \in Nat
  /\ Sizes \subseteq {"short", "long"} /\ TornTails \in BOOLEAN
  /\ Genesis \notin Events

VARIABLES
  file,       \* what the operating system has of the file
  onDisk,     \* leading chunks of it that are on stable storage
  buffer,     \* buffer[i]: what instance i's file object has not handed on
  at,         \* at[t]: where thread t is in append; not "idle" under the lock
  event,      \* event[t]: the event t appends
  prev,       \* prev[t]: what _last_hash told it
  long,       \* events whose record is long
  begun,      \* events begun so far
  returned,   \* events whose append has returned
  secured,    \* events whose fsync succeeded
  failures, crashes, hostCrashes,
  overlap     \* auxiliary: two objects have been in append at the same time

vars == <<file, onDisk, buffer, at, event, prev, long, begun,
          returned, secured, failures, crashes, hostCrashes, overlap>>

Chunks == [event : Events, prev : Events \cup {Genesis}, part : {"whole", "head", "tail"}]

AuditTypeOK ==
  /\ file \in Seq(Chunks) /\ onDisk \in 0..Len(file)
  /\ buffer \in [Instances -> Seq(Chunks)]
  /\ at \in [Threads -> {"idle", "read", "written", "flushed"}]
  /\ event \in [Threads -> Events \cup {0}]
  /\ prev \in [Threads -> Events \cup {Genesis}]
  /\ long \subseteq 1..begun /\ begun \in 0..MaxEvents
  /\ returned \subseteq 1..begun /\ secured \subseteq returned
  /\ failures \in 0..MaxFailures /\ crashes \in 0..MaxCrashes
  /\ hostCrashes \in 0..crashes /\ overlap \in BOOLEAN

Init ==
  /\ file = <<>> /\ onDisk = 0
  /\ buffer = [i \in Instances |-> <<>>]
  /\ at = [t \in Threads |-> "idle"]
  /\ event = [t \in Threads |-> 0]
  /\ prev = [t \in Threads |-> Genesis]
  /\ long = {} /\ begun = 0
  /\ returned = {} /\ secured = {}
  /\ failures = 0 /\ crashes = 0 /\ hostCrashes = 0 /\ overlap = FALSE

-----------------------------------------------------------------------------
(* Lines of a file.                                                        *)

(* The chunks that end a line, the first chunk of the line that k ends,    *)
(* and whether that line is one JSON object.                               *)
Ends(f) == {k \in 1..Len(f) : f[k].part # "head"}

LineStart(f, k) == Max({0} \cup {j \in Ends(f) : j < k}) + 1

Readable(f, k) ==
  \/ f[k].part = "whole" /\ LineStart(f, k) = k
  \/ /\ f[k].part = "tail" /\ LineStart(f, k) = k - 1
     /\ f[k - 1] = [f[k] EXCEPT !.part = "head"]

Units(c) == IF c.event \in long /\ c.part # "head" THEN Window + 1 ELSE 1

(* _last_hash: windows of Window units, twice Window, ... from the end     *)
(* until one holds the newline of the last complete line.  If it does not  *)
(* hold the whole line, or the line is no JSON, the answer is "".          *)
LastHash(f) ==
  IF Ends(f) = {} THEN Genesis
  ELSE LET k == Max(Ends(f))
           cut == Len(f) - k                       \* units after the newline
           line ==                                 \* units of the line: chunk by chunk
             Cardinality({u \in (LineStart(f, k)..k) \X (1..Window + 1) : u[2] <= Units(f[u[1]])})
           seen == Window * (cut \div Window + 1)
       IN IF seen >= cut + line /\ Readable(f, k) THEN f[k].event ELSE Genesis

-----------------------------------------------------------------------------
(* append.                                                                 *)

Goto(t, where) == at' = [at EXCEPT ![t] = where]

(* Mutant: no lock. *)
NoLock(i) == \E t \in Threads : t[1] = i /\ at[t] = "idle"

(* with self._lock: one thread of an instance at a time. *)
LockFree(i) == \A t \in Threads : t[1] = i => at[t] = "idle"

(* The lock is taken and the last hash read. *)
ReadLast(t) ==
  /\ at[t] = "idle" /\ LockFree(t[1])
  /\ begun < MaxEvents
  /\ begun' = begun + 1
  /\ event' = [event EXCEPT ![t] = begun + 1]
  /\ \E size \in Sizes : long' = IF size = "long" THEN long \cup {begun + 1} ELSE long
  /\ prev' = [prev EXCEPT ![t] = LastHash(file)]
  /\ overlap' = (overlap \/ \E u \in Threads : u[1] # t[1] /\ at[u] # "idle")
  /\ Goto(t, "read")
  /\ UNCHANGED <<file, onDisk, buffer, returned, secured, failures, crashes, hostCrashes>>

(* An OSError leaves append and releases the lock; the caller swallows it. *)
Raise(t) ==
  /\ failures < MaxFailures
  /\ failures' = failures + 1
  /\ Goto(t, "idle")

(* Mutant: the file is opened with "w" for every record. *)
WriteTruncating(t) ==
  /\ at[t] = "read"
  /\ file' = <<>>
  /\ buffer' = [buffer EXCEPT ![t[1]] =
                  Append(@, [event |-> event[t], prev |-> prev[t], part |-> "whole"])]
  /\ Goto(t, "written")
  /\ UNCHANGED <<onDisk, event, prev, long, begun, returned, secured,
                 failures, crashes, hostCrashes, overlap>>

(* Mutant: the record is written without its newline. *)
WriteWithoutNewline(t) ==
  /\ at[t] = "read"
  /\ buffer' = [buffer EXCEPT ![t[1]] =
                  Append(@, [event |-> event[t], prev |-> prev[t], part |-> "head"])]
  /\ Goto(t, "written")
  /\ UNCHANGED <<file, onDisk, event, prev, long, begun, returned, secured,
                 failures, crashes, hostCrashes, overlap>>

(* The line goes to the file object's buffer; opening the file may fail.   *)
(* (A line too long for the buffer goes through it as in Flush.)           *)
Write(t) ==
  /\ at[t] = "read"
  /\ \/ /\ buffer' = [buffer EXCEPT ![t[1]] =
                        Append(@, [event |-> event[t], prev |-> prev[t], part |-> "whole"])]
        /\ Goto(t, "written")
        /\ UNCHANGED failures
     \/ Raise(t) /\ UNCHANGED buffer
  /\ UNCHANGED <<file, onDisk, event, prev, long, begun, returned, secured,
                 crashes, hostCrashes, overlap>>

(* Mutant: the line stays in the buffer. *)
NoFlush(t) ==
  /\ at[t] = "written"
  /\ Goto(t, "flushed")
  /\ UNCHANGED <<file, onDisk, buffer, event, prev, long, begun, returned, secured,
                 failures, crashes, hostCrashes, overlap>>

Flush(t) ==
  /\ at[t] = "written"
  /\ file' = file \o buffer[t[1]]
  /\ buffer' = [buffer EXCEPT ![t[1]] = <<>>]
  /\ Goto(t, "flushed")
  /\ UNCHANGED <<onDisk, event, prev, long, begun, returned, secured,
                 failures, crashes, hostCrashes, overlap>>

(* Splitting chunk c: what the device took of it, and what it did not. *)
Front(c) == [c EXCEPT !.part = "head"]
Rest(c) == [c EXCEPT !.part = "tail"]

(* flush raises (the disk is full, ...) after it has handed on n chunks    *)
(* and perhaps the front of the next.  What it did not hand on stays in    *)
(* the buffer, and the next append through this object writes it first.    *)
FlushFails(t) ==
  /\ at[t] = "written"
  /\ LET b == buffer[t[1]]
     IN \E n \in 0..(Len(b) - 1) :
          \/ /\ file' = file \o SubSeq(b, 1, n)
             /\ buffer' = [buffer EXCEPT ![t[1]] = SubSeq(b, n + 1, Len(b))]
          \/ /\ b[n + 1].part = "whole"
             /\ file' = file \o SubSeq(b, 1, n) \o <<Front(b[n + 1])>>
             /\ buffer' = [buffer EXCEPT ![t[1]] =
                             <<Rest(b[n + 1])>> \o SubSeq(b, n + 2, Len(b))]
  /\ Raise(t)
  /\ UNCHANGED <<onDisk, event, prev, long, begun, returned, secured,
                 crashes, hostCrashes, overlap>>

(* fsync, whose OSError is swallowed; append returns. *)
SyncAndReturn(t) ==
  /\ at[t] = "flushed"
  /\ \/ onDisk' = Len(file) /\ secured' = secured \cup {event[t]}
     \/ UNCHANGED <<onDisk, secured>>
  /\ returned' = returned \cup {event[t]}
  /\ Goto(t, "idle")
  /\ UNCHANGED <<file, buffer, event, prev, long, begun, failures, crashes, hostCrashes, overlap>>

-----------------------------------------------------------------------------
(* Crashes.  The process comes back with an empty buffer and its lock free.*)

Forget(S) ==
  /\ at' = [t \in Threads |-> IF t[1] \in S THEN "idle" ELSE at[t]]
  /\ buffer' = [i \in Instances |-> IF i \in S THEN <<>> ELSE buffer[i]]

Crash(i) ==
  /\ crashes < MaxCrashes
  /\ crashes' = crashes + 1
  /\ Forget({i})
  /\ UNCHANGED <<file, onDisk, event, prev, long, begun, returned, secured,
                 failures, hostCrashes, overlap>>

(* The host loses what is not on stable storage, from the end. *)
HostCrash ==
  /\ crashes < MaxCrashes
  /\ crashes' = crashes + 1 /\ hostCrashes' = hostCrashes + 1
  /\ \E n \in onDisk..Len(file) :
       \/ file' = SubSeq(file, 1, n)
       \/ /\ TornTails /\ n < Len(file) /\ file[n + 1].part = "whole"
          /\ file' = Append(SubSeq(file, 1, n), Front(file[n + 1]))
  /\ onDisk' = Len(file')
  /\ Forget(Instances)
  /\ UNCHANGED <<event, prev, long, begun, returned, secured, failures, overlap>>

Next ==
  \/ \E t \in Threads :
       ReadLast(t) \/ Write(t) \/ Flush(t) \/ FlushFails(t) \/ SyncAndReturn(t)
  \/ \E i \in Instances : Crash(i)
  \/ HostCrash

Spec == Init /\ [][Next]_vars

-----------------------------------------------------------------------------
(* verify: every line must be JSON and carry a hash of its own contents    *)
(* that no earlier line carries.  prev_hash goes into the recomputed hash  *)
(* and is compared with nothing.                                           *)
Intact(f) ==
  /\ Ends(f) = {} => f = <<>>
  /\ \A k \in Ends(f) : Readable(f, k)
  /\ f # <<>> => Len(f) \in Ends(f)
  /\ \A j, k \in Ends(f) : f[j].event = f[k].event => j = k

-----------------------------------------------------------------------------
(* Properties.                                                             *)

(* The record on the line that k ends, and the one before it. *)
Records(f) == {k \in Ends(f) : Readable(f, k)}

Chained(f, k) ==
  LET before == {j \in Records(f) : j < k}
  IN f[k].prev = IF before = {} THEN Genesis ELSE f[Max(before)].event

(* "Every record stores the hash of the previous record plus its own hash" *)
(* (docstring of HashChainedAuditLog).                                     *)
EveryRecordChained == \A k \in Records(file) : Chained(file, k)

(* verify says yes only of a file whose chain is intact ("Replay the file  *)
(* and verify the hash chain is intact").                                  *)
VerifyMeansChained == Intact(file) => EveryRecordChained

(* The records of which the file has all the text. *)
Written == {file[k].event : k \in Ends(file)}

(* What append returned is not lost: a record whose fsync succeeded is in  *)
(* the file for ever, whatever crashes and fails afterwards and whoever    *)
(* else writes the file, and one whose fsync failed as long as the host    *)
(* stays up.                                                               *)
ReturnedIsKept ==
  /\ secured \subseteq Written
  /\ hostCrashes = 0 => returned \subseteq Written

(* A cut write spoils little: each failed flush and each crash makes at    *)
(* most one record unreadable that was safely on disk, however the writers *)
(* interleave (the fragment it leaves swallows the next line and no other).*)
DamageBounded ==
  LET readable == {file[k].event : k \in Records(file)}
  IN Cardinality(secured \ readable) <= failures + crashes

(* The abstract store. *)
logBar == [k \in 1..Len(file) |-> [event |-> file[k].event, prev |-> file[k].prev]]

Chain == INSTANCE AppendOnlyChain WITH log <- logBar, kept <- onDisk

(* What the class does not guard against: a write that failed, a record    *)
(* that was cut, a record longer than the window, and two processes that   *)
(* append at the same time.                                                *)
Rough ==
  \/ failures > 0 \/ long # {} \/ overlap
  \/ \E k \in 1..Len(file) : file[k].part = "head"

(* As long as none of that has happened, the threads, the locks and the    *)
(* crashes of processes and of the host implement the abstract store: a    *)
(* record is only ever added at the end and chained to the one before it,  *)
(* also when two processes take turns on the file.                         *)
ImplementsChain ==
  Chain!ChainInit /\ [][Rough' \/ [Chain!ChainNext]_(Chain!chainVars)]_vars

=============================================================================
