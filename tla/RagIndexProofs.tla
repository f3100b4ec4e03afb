---------------------------- MODULE RagIndexProofs ----------------------------
(***************************************************************************)
(* Theorems about RagIndex, for any number of query threads, writes to the *)
(* log, seconds and restarts.                                              *)
(***************************************************************************)
EXTENDS RagIndex, TLAPS

(* What is assumed of the constants. *)
Bounds == MaxWrites \in Nat \ {0} /\ MaxTime \in Nat \ {0} /\ MaxCrashes \in Nat

-----------------------------------------------------------------------------
(* The inductive invariant.                                                *)

(* The clock.  A thread knows an mtime of the past, and what the log had   *)
(* when a second began it still has.                                       *)
Clock ==
  /\ mtime <= now
  /\ \A t \in Threads : stat[t] <= mtime
  /\ \A t \in Threads : pc[t] \notin {"idle", "stat", "search"} => stat[t] \in Seconds
  /\ \A s \in Seconds : before[s] <= log

Whole(s) == s.vectors \in Versions /\ s.documents = s.vectors

(* Whoever searches does so after an initialisation. *)
Ready == \A t \in Threads : pc[t] = "search" => initialized

Inside(t) == pc[t] \notin {"idle", "search"}

(* One thread at a time initialises, and none once that is done. *)
Alone ==
  /\ \A t, u \in Threads : Inside(t) /\ Inside(u) => t = u
  /\ initialized => \A t \in Threads : ~Inside(t)

(* If the marker says second s, the files are whole and of one version,    *)
(* and it has all that was written before s.                               *)
Complete(s) == faiss \in Versions /\ pkl = faiss /\ faiss >= before[s]

Trusted(s) == marker = s => Complete(s)

(* The marker is of the past, or can be trusted. *)
Disk == marker <= mtime /\ Trusted(mtime)

(* What an initialisation without company relies on at each of its places. *)
Stages ==
  \A t \in Threads :
    /\ pc[t] = "check" => marker <= stat[t] /\ Trusted(stat[t])
    /\ pc[t] \in {"read_log", "build", "open_faiss", "write_faiss", "open_pkl", "write_pkl",
                  "open_marker", "write_marker"} => marker < stat[t]
    /\ pc[t] = "build" => Whole(held[t]) /\ held[t].vectors >= before[stat[t]]
    /\ pc[t] = "open_faiss" => store.vectors >= before[stat[t]]
    /\ pc[t] \in {"write_faiss", "open_pkl", "write_pkl"} =>
         Whole(held[t]) /\ held[t].vectors >= before[stat[t]]
    /\ pc[t] = "write_faiss" => faiss = Cut
    /\ pc[t] \in {"open_pkl", "write_pkl"} => faiss = held[t].vectors
    /\ pc[t] = "write_pkl" => pkl = Cut
    /\ pc[t] \in {"open_marker", "write_marker"} => Complete(stat[t])
    /\ pc[t] \in {"load_faiss", "load_pkl"} => Complete(stat[t])
    /\ pc[t] = "load_pkl" => held[t].vectors = faiss

(* What is in memory to be saved or searched is one version. *)
OneVersion ==
  initialized \/ (\E t \in Threads : pc[t] \in {"open_faiss", "write_faiss", "open_pkl", "write_pkl",
                                               "open_marker", "write_marker", "flag"})
    => Whole(store)

Undisturbed == Alone /\ Disk /\ Stages /\ OneVersion

RagInv == RagTypeOK /\ Clock /\ Ready /\ (together \/ Undisturbed)

(* A new installation has no index and no thread in the engine. *)
LEMMA RagInitInv == Init => RagInv
<1> SUFFICES ASSUME Init PROVE RagInv
  OBVIOUS
<1>0. Bounds
  BY RagAssumption DEF RagAssumption, Bounds
<1> USE <1>0 DEF Bounds, Init, Seconds, Versions, Contents, Indexes, IndexOf, Nothing, Absent, Cut,
        Mixed, NoMarker
<1>1. RagTypeOK
  <2>1. store \in Indexes
    OBVIOUS
  <2>2. crashes \in 0..MaxCrashes
    OBVIOUS
  <2>3. together \in BOOLEAN /\ initialized \in BOOLEAN
    BY Zenon
  <2> QED
    BY <2>1, <2>2, <2>3 DEF RagTypeOK
<1>2. Clock /\ Ready
  BY DEF Clock, Ready
<1>3. Alone /\ Disk /\ Stages /\ OneVersion
  BY DEF Alone, Inside, Disk, Trusted, Complete, Stages, OneVersion
<1> QED
  BY <1>1, <1>2, <1>3 DEF RagInv, Undisturbed

-----------------------------------------------------------------------------
(* Every step keeps each part of it.                                       *)

(* Types: what is indexed is a version of a log that is not empty. *)
LEMMA TypeStep ==
  ASSUME RagTypeOK, Ready, [Next]_vars
  PROVE  RagTypeOK'
<1>0. Bounds
  BY RagAssumption DEF RagAssumption, Bounds
<1> USE <1>0 DEF Bounds, RagTypeOK, Ready, Whole, Goto, envVars, diskVars, Contents, Indexes, IndexOf,
        Nothing, Versions, Seconds, Absent,
        Cut, Mixed, NoMarker
<1>1. ASSUME NEW t \in Threads, Query(t) \/ EnsureInitialized(t) \/ Search(t)
      PROVE  RagTypeOK'
  <2>1. CASE Query(t)
    <3>1. together' \in BOOLEAN
      BY <2>1, Zenon DEF Query
    <3>2. pc' \in [Threads -> {"idle", "stat", "check", "read_log", "build", "open_faiss",
                   "write_faiss", "open_pkl", "write_pkl", "open_marker",
                   "write_marker", "load_faiss", "load_pkl", "flag", "search"}]
      BY <2>1 DEF Query
    <3> QED
      BY <2>1, <3>1, <3>2 DEF Query
  <2>2. CASE Stat(t)
    BY <2>2 DEF Stat
  <2>3. CASE Check(t)
    BY <2>3 DEF Check, IndexIsCurrent
  <2>4. CASE ReadLog(t)
    BY <2>4 DEF ReadLog
  <2>5. CASE Build(t)
    BY <2>5 DEF Build
  <2>6. CASE OpenFaiss(t)
    BY <2>6 DEF OpenFaiss
  <2>7. CASE WriteFaiss(t)
    BY <2>7 DEF WriteFaiss, Disturbed, MixedIf
  <2>8. CASE OpenPkl(t)
    BY <2>8 DEF OpenPkl
  <2>9. CASE WritePkl(t)
    BY <2>9 DEF WritePkl, Disturbed, MixedIf
  <2>10. CASE OpenMarker(t)
    BY <2>10 DEF OpenMarker
  <2>11. CASE WriteMarker(t)
    BY <2>11 DEF WriteMarker
  <2>12. CASE LoadFaiss(t)
    BY <2>12 DEF LoadFaiss, Loaded
  <2>13. CASE LoadPkl(t)
    <3>1. PICK f \in Loaded(pkl, "write_pkl") :
            IF f = Cut THEN Goto(t, "idle") /\ UNCHANGED store
            ELSE store' = [vectors |-> held[t].vectors, documents |-> f] /\ Goto(t, "flag")
      BY <2>13 DEF LoadPkl
    <3>2. f \in Contents
      BY DEF Loaded
    <3>3. store' \in Indexes
      BY <3>1, <3>2
    <3> QED
      BY <2>13, <3>1, <3>3 DEF LoadPkl
  <2>14. CASE SetFlag(t)
    BY <2>14 DEF SetFlag
  <2>15. CASE Raise(t)
    BY <2>15 DEF Raise, Disturbed
  <2>16. CASE Search(t)
    BY <2>16 DEF Search
  <2> QED
    BY <1>1, <2>1, <2>2, <2>3, <2>4, <2>5, <2>6, <2>7, <2>8, <2>9, <2>10,
       <2>11, <2>12, <2>13, <2>14, <2>15, <2>16 DEF EnsureInitialized
<1>2. CASE Tick
  BY <1>2 DEF Tick
<1>3. CASE WriteLog
  BY <1>3 DEF WriteLog
<1>4. CASE Crash
  <2>1. store' \in Indexes
    BY <1>4 DEF Crash
  <2>2. crashes' \in 0..MaxCrashes
    BY <1>4 DEF Crash
  <2>3. together' \in BOOLEAN /\ initialized' \in BOOLEAN
    BY <1>4, Zenon DEF Crash
  <2> QED
    BY <1>4, <2>1, <2>2, <2>3 DEF Crash, MixedIf
<1>5. CASE UNCHANGED vars
  BY <1>5 DEF vars
<1> QED
  BY <1>1, <1>2, <1>3, <1>4, <1>5 DEF Next

(* Time and log go forward. *)
LEMMA ClockStep ==
  ASSUME RagTypeOK, Clock, [Next]_vars
  PROVE  Clock'
<1>0. Bounds
  BY RagAssumption DEF RagAssumption, Bounds
<1> USE <1>0 DEF Bounds, RagTypeOK, Clock, Goto, envVars, diskVars, Seconds, Versions, Absent, NoMarker
<1>1. ASSUME NEW t \in Threads, Query(t) \/ EnsureInitialized(t) \/ Search(t)
      PROVE  Clock'
  <2>1. CASE Query(t)
    BY <2>1 DEF Query
  <2>2. CASE Stat(t)
    BY <2>2 DEF Stat
  <2>3. CASE Check(t)
    BY <2>3 DEF Check, IndexIsCurrent
  <2>4. CASE ReadLog(t)
    BY <2>4 DEF ReadLog
  <2>5. CASE Build(t)
    BY <2>5 DEF Build
  <2>6. CASE OpenFaiss(t)
    BY <2>6 DEF OpenFaiss
  <2>7. CASE WriteFaiss(t)
    BY <2>7 DEF WriteFaiss, Disturbed, MixedIf
  <2>8. CASE OpenPkl(t)
    BY <2>8 DEF OpenPkl
  <2>9. CASE WritePkl(t)
    BY <2>9 DEF WritePkl, Disturbed, MixedIf
  <2>10. CASE OpenMarker(t)
    BY <2>10 DEF OpenMarker
  <2>11. CASE WriteMarker(t)
    BY <2>11 DEF WriteMarker
  <2>12. CASE LoadFaiss(t)
    BY <2>12 DEF LoadFaiss, Loaded
  <2>13. CASE LoadPkl(t)
    BY <2>13 DEF LoadPkl, Loaded
  <2>14. CASE SetFlag(t)
    BY <2>14 DEF SetFlag
  <2>15. CASE Raise(t)
    BY <2>15 DEF Raise, Disturbed
  <2>16. CASE Search(t)
    BY <2>16 DEF Search
  <2> QED
    BY <1>1, <2>1, <2>2, <2>3, <2>4, <2>5, <2>6, <2>7, <2>8, <2>9, <2>10,
       <2>11, <2>12, <2>13, <2>14, <2>15, <2>16 DEF EnsureInitialized
<1>2. CASE Tick
  BY <1>2 DEF Tick
<1>3. CASE WriteLog
  BY <1>3 DEF WriteLog
<1>4. CASE Crash
  BY <1>4 DEF Crash, MixedIf
<1>5. CASE UNCHANGED vars
  BY <1>5 DEF vars
<1> QED
  BY <1>1, <1>2, <1>3, <1>4, <1>5 DEF Next

(* Only a crash takes the flag back, and after it nobody searches. *)
LEMMA ReadyStep ==
  ASSUME RagTypeOK, Ready, [Next]_vars
  PROVE  Ready'
<1>0. Bounds
  BY RagAssumption DEF RagAssumption, Bounds
<1> USE DEF RagTypeOK, Ready, Goto, envVars, diskVars
<1>1. ASSUME NEW t \in Threads, Query(t) \/ EnsureInitialized(t) \/ Search(t)
      PROVE  Ready'
  <2>1. CASE Query(t)
    BY <2>1 DEF Query
  <2>2. CASE Stat(t)
    BY <2>2 DEF Stat
  <2>3. CASE Check(t)
    BY <2>3 DEF Check, IndexIsCurrent
  <2>4. CASE ReadLog(t)
    BY <2>4 DEF ReadLog
  <2>5. CASE Build(t)
    BY <2>5 DEF Build
  <2>6. CASE OpenFaiss(t)
    BY <2>6 DEF OpenFaiss
  <2>7. CASE WriteFaiss(t)
    BY <2>7 DEF WriteFaiss, Disturbed, MixedIf
  <2>8. CASE OpenPkl(t)
    BY <2>8 DEF OpenPkl
  <2>9. CASE WritePkl(t)
    BY <2>9 DEF WritePkl, Disturbed, MixedIf
  <2>10. CASE OpenMarker(t)
    BY <2>10 DEF OpenMarker
  <2>11. CASE WriteMarker(t)
    BY <2>11 DEF WriteMarker
  <2>12. CASE LoadFaiss(t)
    BY <2>12 DEF LoadFaiss, Loaded
  <2>13. CASE LoadPkl(t)
    BY <2>13 DEF LoadPkl, Loaded
  <2>14. CASE SetFlag(t)
    BY <2>14 DEF SetFlag
  <2>15. CASE Raise(t)
    BY <2>15 DEF Raise, Disturbed
  <2>16. CASE Search(t)
    BY <2>16 DEF Search
  <2> QED
    BY <1>1, <2>1, <2>2, <2>3, <2>4, <2>5, <2>6, <2>7, <2>8, <2>9, <2>10,
       <2>11, <2>12, <2>13, <2>14, <2>15, <2>16 DEF EnsureInitialized
<1>2. CASE Tick
  BY <1>2 DEF Tick
<1>3. CASE WriteLog
  BY <1>3 DEF WriteLog
<1>4. CASE Crash
  BY <1>4 DEF Crash, MixedIf
<1>5. CASE UNCHANGED vars
  BY <1>5 DEF vars
<1> QED
  BY <1>1, <1>2, <1>3, <1>4, <1>5 DEF Next

(* A thread that enters while another is inside counts as together. *)
LEMMA AloneStep ==
  ASSUME RagTypeOK, Ready, Alone, ~together', [Next]_vars
  PROVE  Alone'
<1>0. Bounds
  BY RagAssumption DEF RagAssumption, Bounds
<1> USE <1>0 DEF Bounds, RagTypeOK, Ready, Alone, Inside, Goto, envVars, diskVars
<1>1. ASSUME NEW t \in Threads, Query(t) \/ EnsureInitialized(t) \/ Search(t)
      PROVE  Alone'
  <2>1. CASE Query(t)
    BY <2>1 DEF Query
  <2>2. CASE Stat(t)
    BY <2>2 DEF Stat
  <2>3. CASE Check(t)
    BY <2>3 DEF Check, IndexIsCurrent
  <2>4. CASE ReadLog(t)
    BY <2>4 DEF ReadLog
  <2>5. CASE Build(t)
    BY <2>5 DEF Build
  <2>6. CASE OpenFaiss(t)
    BY <2>6 DEF OpenFaiss
  <2>7. CASE WriteFaiss(t)
    BY <2>7 DEF WriteFaiss, Disturbed, MixedIf
  <2>8. CASE OpenPkl(t)
    BY <2>8 DEF OpenPkl
  <2>9. CASE WritePkl(t)
    BY <2>9 DEF WritePkl, Disturbed, MixedIf
  <2>10. CASE OpenMarker(t)
    BY <2>10 DEF OpenMarker
  <2>11. CASE WriteMarker(t)
    BY <2>11 DEF WriteMarker
  <2>12. CASE LoadFaiss(t)
    BY <2>12 DEF LoadFaiss, Loaded
  <2>13. CASE LoadPkl(t)
    BY <2>13 DEF LoadPkl, Loaded
  <2>14. CASE SetFlag(t)
    BY <2>14 DEF SetFlag
  <2>15. CASE Raise(t)
    BY <2>15 DEF Raise, Disturbed
  <2>16. CASE Search(t)
    BY <2>16 DEF Search
  <2> QED
    BY <1>1, <2>1, <2>2, <2>3, <2>4, <2>5, <2>6, <2>7, <2>8, <2>9, <2>10,
       <2>11, <2>12, <2>13, <2>14, <2>15, <2>16 DEF EnsureInitialized
<1>2. CASE Tick
  BY <1>2 DEF Tick
<1>3. CASE WriteLog
  BY <1>3 DEF WriteLog
<1>4. CASE Crash
  BY <1>4 DEF Crash, MixedIf
<1>5. CASE UNCHANGED vars
  BY <1>5 DEF vars
<1> QED
  BY <1>1, <1>2, <1>3, <1>4, <1>5 DEF Next

(* The marker is emptied before it is written, and written after the files. *)
LEMMA DiskStep ==
  ASSUME RagTypeOK, Clock, Ready, Undisturbed, ~together', [Next]_vars
  PROVE  Disk'
<1>0. Bounds
  BY RagAssumption DEF RagAssumption, Bounds
<1> USE <1>0 DEF Bounds, RagTypeOK, Clock, Ready, Whole, Undisturbed, Alone, Inside, Disk, Trusted, Stages,
        OneVersion, Complete, Goto, envVars, diskVars, Contents, Indexes, IndexOf, Nothing, Versions, Seconds, Absent,
        Cut, Mixed, NoMarker
<1>1. ASSUME NEW t \in Threads, Query(t) \/ EnsureInitialized(t) \/ Search(t)
      PROVE  Disk'
  <2>1. CASE Query(t)
    BY <2>1 DEF Query
  <2>2. CASE Stat(t)
    BY <2>2 DEF Stat
  <2>3. CASE Check(t)
    BY <2>3 DEF Check, IndexIsCurrent
  <2>4. CASE ReadLog(t)
    BY <2>4 DEF ReadLog
  <2>5. CASE Build(t)
    BY <2>5 DEF Build
  <2>6. CASE OpenFaiss(t)
    BY <2>6 DEF OpenFaiss
  <2>7. CASE WriteFaiss(t)
    BY <2>7 DEF WriteFaiss, Disturbed, MixedIf
  <2>8. CASE OpenPkl(t)
    BY <2>8 DEF OpenPkl
  <2>9. CASE WritePkl(t)
    BY <2>9 DEF WritePkl, Disturbed, MixedIf
  <2>10. CASE OpenMarker(t)
    BY <2>10 DEF OpenMarker
  <2>11. CASE WriteMarker(t)
    BY <2>11 DEF WriteMarker
  <2>12. CASE LoadFaiss(t)
    BY <2>12 DEF LoadFaiss, Loaded
  <2>13. CASE LoadPkl(t)
    BY <2>13 DEF LoadPkl, Loaded
  <2>14. CASE SetFlag(t)
    BY <2>14 DEF SetFlag
  <2>15. CASE Raise(t)
    BY <2>15 DEF Raise, Disturbed
  <2>16. CASE Search(t)
    BY <2>16 DEF Search
  <2> QED
    BY <1>1, <2>1, <2>2, <2>3, <2>4, <2>5, <2>6, <2>7, <2>8, <2>9, <2>10,
       <2>11, <2>12, <2>13, <2>14, <2>15, <2>16 DEF EnsureInitialized
<1>2. CASE Tick
  BY <1>2 DEF Tick
<1>3. CASE WriteLog
  BY <1>3 DEF WriteLog
<1>4. CASE Crash
  BY <1>4 DEF Crash, MixedIf
<1>5. CASE UNCHANGED vars
  BY <1>5 DEF vars
<1> QED
  BY <1>1, <1>2, <1>3, <1>4, <1>5 DEF Next

(* What a thread relies on, no other thread, write or crash takes from it. *)
LEMMA StagesStep ==
  ASSUME RagTypeOK, Clock, Ready, Undisturbed, ~together', [Next]_vars
  PROVE  Stages'
<1>0. Bounds
  BY RagAssumption DEF RagAssumption, Bounds
<1> USE <1>0 DEF Bounds, RagTypeOK, Clock, Ready, Whole, Undisturbed, Alone, Inside, Disk, Trusted, Stages,
        OneVersion, Complete, Goto, envVars, diskVars, Contents, Indexes, IndexOf, Nothing, Versions, Seconds, Absent,
        Cut, Mixed, NoMarker
<1>1. ASSUME NEW t \in Threads, Query(t) \/ EnsureInitialized(t) \/ Search(t)
      PROVE  Stages'
  <2>1. CASE Query(t)
    BY <2>1 DEF Query
  <2>2. CASE Stat(t)
    BY <2>2 DEF Stat
  <2>3. CASE Check(t)
    BY <2>3 DEF Check, IndexIsCurrent
  <2>4. CASE ReadLog(t)
    BY <2>4 DEF ReadLog
  <2>5. CASE Build(t)
    BY <2>5 DEF Build
  <2>6. CASE OpenFaiss(t)
    BY <2>6 DEF OpenFaiss
  <2>7. CASE WriteFaiss(t)
    BY <2>7 DEF WriteFaiss, Disturbed, MixedIf
  <2>8. CASE OpenPkl(t)
    BY <2>8 DEF OpenPkl
  <2>9. CASE WritePkl(t)
    BY SMTT(30), <2>9 DEF WritePkl, Disturbed, MixedIf
  <2>10. CASE OpenMarker(t)
    BY <2>10 DEF OpenMarker
  <2>11. CASE WriteMarker(t)
    BY <2>11 DEF WriteMarker
  <2>12. CASE LoadFaiss(t)
    BY <2>12 DEF LoadFaiss, Loaded
  <2>13. CASE LoadPkl(t)
    BY <2>13 DEF LoadPkl, Loaded
  <2>14. CASE SetFlag(t)
    BY <2>14 DEF SetFlag
  <2>15. CASE Raise(t)
    BY <2>15 DEF Raise, Disturbed
  <2>16. CASE Search(t)
    BY <2>16 DEF Search
  <2> QED
    BY <1>1, <2>1, <2>2, <2>3, <2>4, <2>5, <2>6, <2>7, <2>8, <2>9, <2>10,
       <2>11, <2>12, <2>13, <2>14, <2>15, <2>16 DEF EnsureInitialized
<1>2. CASE Tick
  BY <1>2 DEF Tick
<1>3. CASE WriteLog
  BY <1>3 DEF WriteLog
<1>4. CASE Crash
  BY <1>4 DEF Crash, MixedIf
<1>5. CASE UNCHANGED vars
  BY <1>5 DEF vars
<1> QED
  BY <1>1, <1>2, <1>3, <1>4, <1>5 DEF Next

(* The store is replaced as a whole. *)
LEMMA OneVersionStep ==
  ASSUME RagTypeOK, Clock, Ready, Undisturbed, ~together', [Next]_vars
  PROVE  OneVersion'
<1>0. Bounds
  BY RagAssumption DEF RagAssumption, Bounds
<1> USE <1>0 DEF Bounds, RagTypeOK, Clock, Ready, Whole, Undisturbed, Alone, Inside, Disk, Trusted, Stages,
        OneVersion, Complete, Goto, envVars, diskVars, Contents, Indexes, IndexOf, Nothing, Versions, Seconds, Absent,
        Cut, Mixed, NoMarker
<1>1. ASSUME NEW t \in Threads, Query(t) \/ EnsureInitialized(t) \/ Search(t)
      PROVE  OneVersion'
  <2>1. CASE Query(t)
    BY <2>1 DEF Query
  <2>2. CASE Stat(t)
    BY <2>2 DEF Stat
  <2>3. CASE Check(t)
    BY <2>3 DEF Check, IndexIsCurrent
  <2>4. CASE ReadLog(t)
    BY <2>4 DEF ReadLog
  <2>5. CASE Build(t)
    BY <2>5 DEF Build
  <2>6. CASE OpenFaiss(t)
    BY <2>6 DEF OpenFaiss
  <2>7. CASE WriteFaiss(t)
    BY <2>7 DEF WriteFaiss, Disturbed, MixedIf
  <2>8. CASE OpenPkl(t)
    BY <2>8 DEF OpenPkl
  <2>9. CASE WritePkl(t)
    BY <2>9 DEF WritePkl, Disturbed, MixedIf
  <2>10. CASE OpenMarker(t)
    BY <2>10 DEF OpenMarker
  <2>11. CASE WriteMarker(t)
    BY <2>11 DEF WriteMarker
  <2>12. CASE LoadFaiss(t)
    BY <2>12 DEF LoadFaiss, Loaded
  <2>13. CASE LoadPkl(t)
    BY <2>13 DEF LoadPkl, Loaded
  <2>14. CASE SetFlag(t)
    BY <2>14 DEF SetFlag
  <2>15. CASE Raise(t)
    BY <2>15 DEF Raise, Disturbed
  <2>16. CASE Search(t)
    BY <2>16 DEF Search
  <2> QED
    BY <1>1, <2>1, <2>2, <2>3, <2>4, <2>5, <2>6, <2>7, <2>8, <2>9, <2>10,
       <2>11, <2>12, <2>13, <2>14, <2>15, <2>16 DEF EnsureInitialized
<1>2. CASE Tick
  BY <1>2 DEF Tick
<1>3. CASE WriteLog
  BY <1>3 DEF WriteLog
<1>4. CASE Crash
  BY <1>4 DEF Crash, MixedIf
<1>5. CASE UNCHANGED vars
  BY <1>5 DEF vars
<1> QED
  BY <1>1, <1>2, <1>3, <1>4, <1>5 DEF Next

(* The parts together; once two threads have met, nothing is promised of the
   files again, restarts included. *)
LEMMA RagInvStep ==
  ASSUME RagInv, [Next]_vars
  PROVE  RagInv'
<1>1. RagTypeOK' /\ Clock' /\ Ready'
  BY TypeStep, ClockStep, ReadyStep DEF RagInv
<1>2. together => together'
  BY DEF Next, EnsureInitialized, Query, Stat, Check, ReadLog, Build, OpenFaiss, WriteFaiss, OpenPkl,
                  WritePkl, OpenMarker, WriteMarker, LoadFaiss, LoadPkl, SetFlag, Raise, Search,
                  Tick, WriteLog, Crash, vars
<1>3. ASSUME Undisturbed, ~together'
      PROVE  Undisturbed'
  <2>1. Alone'
    BY <1>3, AloneStep DEF RagInv, Undisturbed
  <2>2. Disk' /\ Stages' /\ OneVersion'
    BY <1>3, DiskStep, StagesStep, OneVersionStep DEF RagInv
  <2> QED
    BY <2>1, <2>2 DEF Undisturbed
<1> QED
  BY <1>1, <1>2, <1>3 DEF RagInv

(* What every reachable state has. *)
LEMMA RagInvariance == Spec => []RagInv
BY RagInitInv, RagInvStep, PTL DEF Spec

-----------------------------------------------------------------------------
(* The index in use and its copy on disk always have contents a query or a *)
(* load can have put there; none is ever built from an empty log.          *)
THEOREM RagTypeCorrect == Spec => []RagTypeOK
<1>1. RagInv => RagTypeOK
  BY DEF RagInv
<1> QED
  BY <1>1, RagInvariance, PTL

(* As long as no two first queries have met, a query searches whole        *)
(* vectors and documents of one version of the log, whichever files the    *)
(* crashes and the failed saves before it left behind.                     *)
THEOREM SearchesOneVersionHolds == Spec => []SearchesOneVersion
<1>1. RagInv => SearchesOneVersion
  BY DEF RagInv, Ready, Whole, Undisturbed, OneVersion, SearchesOneVersion
<1> QED
  BY <1>1, RagInvariance, PTL

(* As long as no two first queries have met, an index is loaded from disk  *)
(* only if it is whole and has every write older than the second of the    *)
(* log's last one.                                                         *)
THEOREM LoadsOlderHolds == Spec => LoadsAllOlderWrites
<1>1. ASSUME RagInv, [Next]_vars, ~together, NEW t \in Threads,
             pc[t] = "check", pc'[t] = "load_faiss"
      PROVE  Complete(stat[t])
  <2>1. Trusted(stat[t])
    BY <1>1 DEF RagInv, Undisturbed, Stages
  <2>2. PICK u \in Threads : Check(u)
    <3> USE <1>1 DEF RagInv, RagTypeOK, Goto
    <3>1. CASE Tick \/ WriteLog \/ UNCHANGED vars
      BY <3>1 DEF Tick, WriteLog, vars
    <3>2. CASE Crash
      BY <3>2 DEF Crash
    <3>3. ASSUME NEW u \in Threads, Query(u) \/ EnsureInitialized(u) \/ Search(u), ~Check(u)
          PROVE  FALSE
      BY <3>3 DEF Query, EnsureInitialized, Stat, ReadLog, Build, OpenFaiss, WriteFaiss, OpenPkl,
                  WritePkl, OpenMarker, WriteMarker, LoadFaiss, LoadPkl, SetFlag, Raise, Search
    <3> QED
      BY <3>1, <3>2, <3>3 DEF Next
  <2>3. u = t /\ IndexIsCurrent(t)
    BY <1>1, <2>2 DEF Check, Goto, RagInv, RagTypeOK
  <2> QED
    BY <2>1, <2>3 DEF IndexIsCurrent, Trusted, Complete
<1>2. RagInv /\ [Next]_vars =>
        [~together => \A t \in Threads :
            pc[t] = "check" /\ pc'[t] = "load_faiss" =>
              faiss \in Versions /\ pkl = faiss /\ faiss >= before[stat[t]]]_vars
  BY <1>1 DEF Complete
<1> QED
  BY <1>2, RagInvariance, PTL DEF Spec, LoadsAllOlderWrites

=============================================================================
