--------------------------- MODULE AuditLogProofs ---------------------------
(***************************************************************************)
(* Theorems about AuditLog, for any number of processes, threads, events,  *)
(* failures and crashes, and any window.                                   *)
(***************************************************************************)
EXTENDS AuditLog, FiniteSetTheorems, SequenceTheorems, TLAPS

-----------------------------------------------------------------------------
(* The inductive invariant.                                                *)

Active(t) == at[t] # "idle"

(* The lock of an object has one holder, and appends an event of its own.  *)
Locked ==
  /\ \A t, u \in Threads : t[1] = u[1] /\ Active(t) /\ Active(u) => t = u
  /\ \A t \in Threads : Active(t) => event[t] \in 1..begun

(* Only what has begun is written, and only the file has cut records. *)
Begun ==
  /\ \A k \in 1..Len(file) : file[k].event <= begun
  /\ \A i \in Instances : \A k \in 1..Len(buffer[i]) :
       buffer[i][k].event <= begun /\ buffer[i][k].part # "head"

(* The first n chunks of f have the record of event e as a whole. *)
Has(f, n, e) == \E k \in 1..n : f[k].event = e /\ f[k].part = "whole"

(* The way of a record: the buffer, the file, stable storage. *)
OnItsWay ==
  /\ \A t \in Threads : at[t] = "written" => Has(buffer[t[1]], Len(buffer[t[1]]), event[t])
  /\ \A t \in Threads : at[t] = "flushed" => Has(file, Len(file), event[t])
  /\ \A e \in secured : Has(file, onDisk, e)
  /\ hostCrashes = 0 => \A e \in returned : Has(file, Len(file), e)

(* The records that were cut. *)
Heads(f) == {k \in 1..Len(f) : f[k].part = "head"}

(* Each takes a failure or a crash, and one by the host is safely stored. *)
FewHeads ==
  /\ Cardinality(Heads(file)) <= failures + crashes
  /\ \A k \in Heads(file) : k <= onDisk \/ failures > 0

(* While nothing has happened that the class does not guard against.       *)
Smooth ==
  /\ \A t, u \in Threads : Active(t) /\ Active(u) => t = u
  /\ \A k \in 1..Len(file) : file[k].part = "whole"
  /\ \A t \in Threads : at[t] = "written" =>
       buffer[t[1]] = <<[event |-> event[t], prev |-> prev[t], part |-> "whole"]>>
  /\ \A i \in Instances : (\A t \in Threads : t[1] = i => at[t] # "written") => buffer[i] = <<>>
  /\ \A t \in Threads : at[t] \in {"read", "written"} =>
       /\ prev[t] = Chain!LastHashOf(logBar)
       /\ \A k \in 1..Len(file) : file[k].event # event[t]

AuditInv == AuditTypeOK /\ Locked /\ Begun /\ OnItsWay /\ FewHeads /\ (Rough \/ Smooth)

-----------------------------------------------------------------------------
(* Sets of positions, and sequences of chunks.                             *)

(* A set of natural numbers that are at most n has a largest: what Max     *)
(* chooses.                                                                *)
LEMMA LargestExists ==
  ASSUME NEW n \in Nat, NEW S, S \subseteq 0..n, S # {}
  PROVE  Max(S) \in S /\ \A y \in S : y <= Max(S)
<1> DEFINE D == {n - x : x \in S}
<1>1. D \subseteq Nat /\ D # {}
  <2>1. \A x \in S : n - x \in Nat
    OBVIOUS
  <2> QED
    BY <2>1, Zenon
<1>2. \E d \in D : \A e \in D : ~(<<e, d>> \in OpToRel(<, Nat))
  <2> HIDE DEF D
  <2> QED
    BY <1>1, NatLessThanWellFounded, WFMin
<1>3. PICK x \in S : \A e \in D : ~(<<e, n - x>> \in OpToRel(<, Nat))
  BY <1>2
<1>4. ASSUME NEW y \in S PROVE y <= x
  <2>1. ~(<<n - y, n - x>> \in OpToRel(<, Nat)) /\ n - y \in Nat /\ n - x \in Nat
    BY <1>1, <1>3
  <2>2. ~(n - y < n - x)
    BY <2>1 DEF OpToRel
  <2> QED
    BY <2>2
<1> QED
  BY <1>4, Zenon DEF Max

(* Part of a sequence. *)
LEMMA PartOf ==
  ASSUME NEW S, NEW q \in Seq(S), NEW m \in 1..Len(q) + 1, NEW n \in 0..Len(q), m <= n + 1
  PROVE  /\ SubSeq(q, m, n) \in Seq(S) /\ Len(SubSeq(q, m, n)) = n - m + 1
         /\ \A k \in 1..n - m + 1 : SubSeq(q, m, n)[k] = q[m + k - 1]
<1>1. m \in Int /\ n \in Int /\ \A k \in m..n : q[k] \in S
  OBVIOUS
<1>2. SubSeq(q, m, n) \in Seq(S)
  BY <1>1, SubSeqProperties
<1>3. Len(SubSeq(q, m, n)) = IF m <= n THEN n - m + 1 ELSE 0
  BY <1>1, SubSeqProperties
<1>4. \A k \in 1..n - m + 1 : SubSeq(q, m, n)[k] = q[m + k - 1]
  BY <1>1, SubSeqProperties
<1> QED
  BY <1>2, <1>3, <1>4

(* What is told of a chunk, and of what a write or a crash makes of it. *)
LEMMA ChunkFields ==
  ASSUME NEW c \in Chunks
  PROVE  /\ c.event \in Events /\ c.prev \in Events \cup {Genesis}
         /\ Front(c) \in Chunks /\ Front(c).event = c.event /\ Front(c).part = "head"
         /\ Rest(c) \in Chunks /\ Rest(c).event = c.event /\ Rest(c).part = "tail"
BY DEF Chunks, Front, Rest

(* _last_hash answers with the hash of a record or "". *)
LEMMA LastHashType ==
  ASSUME NEW f \in Seq(Chunks)
  PROVE  LastHash(f) \in Events \cup {Genesis}
<1>1. CASE Ends(f) = {}
  BY <1>1 DEF LastHash
<1>2. CASE Ends(f) # {}
  <2>1. Len(f) \in Nat /\ Ends(f) \subseteq 1..Len(f)
    BY DEF Ends
  <2>2. Ends(f) \subseteq 0..Len(f)
    BY <2>1
  <2>3. Max(Ends(f)) \in 1..Len(f)
    BY <1>2, <2>1, <2>2, LargestExists
  <2>4. f[Max(Ends(f))].event \in Events
    BY <2>3, ElementOfSeq, ChunkFields
  <2> QED
    BY <1>2, <2>4 DEF LastHash
<1> QED
  BY <1>1, <1>2

-----------------------------------------------------------------------------
(* How the file changes.                                                   *)

(* f begins as g does. *)
Extends(f, g) == Len(g) <= Len(f) /\ \A k \in 1..Len(g) : f[k] = g[k]

(* A successful flush. *)
LEMMA FlushWrites ==
  ASSUME AuditTypeOK, NEW t \in Threads, Flush(t)
  PROVE  /\ file' \in Seq(Chunks) /\ Extends(file', file)
         /\ Len(file') = Len(file) + Len(buffer[t[1]])
         /\ \A k \in 1..Len(buffer[t[1]]) : file'[Len(file) + k] = buffer[t[1]][k]
<1> DEFINE b == buffer[t[1]]
<1>1. file \in Seq(Chunks) /\ b \in Seq(Chunks) /\ file' = file \o b
  BY DEF AuditTypeOK, Flush, Threads
<1>2. Len(file) \in Nat /\ Len(b) \in Nat
  BY <1>1
<1> HIDE DEF b
<1>3. /\ file' \in Seq(Chunks) /\ Len(file') = Len(file) + Len(b)
      /\ \A k \in 1..Len(file) + Len(b) :
           file'[k] = IF k <= Len(file) THEN file[k] ELSE b[k - Len(file)]
  BY <1>1, ConcatProperties
<1>4. \A k \in 1..Len(b) : file'[Len(file) + k] = b[k]
  BY <1>2, <1>3
<1>5. Extends(file', file)
  BY <1>2, <1>3 DEF Extends
<1> QED
  BY <1>3, <1>4, <1>5 DEF b

(* A flush that fails: what went out is of the buffer, with one record cut *)
(* at most, at the end; what did not go out stays.                         *)
LEMMA FlushFailsWrites ==
  ASSUME AuditTypeOK, Begun, NEW t \in Threads, FlushFails(t)
  PROVE  /\ file' \in Seq(Chunks) /\ Extends(file', file)
         /\ \A k \in Len(file) + 1..Len(file') :
              file'[k].event <= begun /\ (file'[k].part = "head" => k = Len(file'))
         /\ \E rest \in Seq(Chunks) :
              /\ buffer' = [buffer EXCEPT ![t[1]] = rest]
              /\ \A k \in 1..Len(rest) : rest[k].event <= begun /\ rest[k].part # "head"
<1> DEFINE b == buffer[t[1]]
<1>1. b \in Seq(Chunks) /\ file \in Seq(Chunks) /\ Len(b) \in Nat /\ Len(file) \in Nat
  BY DEF AuditTypeOK, Threads
<1>2. PICK n \in 0..(Len(b) - 1) :
        \/ /\ file' = file \o SubSeq(b, 1, n)
           /\ buffer' = [buffer EXCEPT ![t[1]] = SubSeq(b, n + 1, Len(b))]
        \/ /\ b[n + 1].part = "whole"
           /\ file' = file \o SubSeq(b, 1, n) \o <<Front(b[n + 1])>>
           /\ buffer' = [buffer EXCEPT ![t[1]] = <<Rest(b[n + 1])>> \o SubSeq(b, n + 2, Len(b))]
  BY DEF FlushFails
<1>3. \A k \in 1..Len(b) : b[k].event <= begun /\ b[k].part # "head"
  BY DEF Begun, Threads
<1> HIDE DEF b
<1>4. n \in Nat /\ n < Len(b) /\ n + 1 \in 1..Len(b)
  BY <1>1
<1> DEFINE out == SubSeq(b, 1, n)
           grown == file \o out
<1>5. out \in Seq(Chunks) /\ Len(out) = n /\ \A k \in 1..n : out[k] = b[k]
  BY <1>1, <1>4, PartOf
<1> HIDE DEF out
<1>6. /\ grown \in Seq(Chunks) /\ Len(grown) = Len(file) + n
      /\ \A k \in 1..Len(file) + n : grown[k] = IF k <= Len(file) THEN file[k] ELSE out[k - Len(file)]
  BY <1>1, <1>5, ConcatProperties
<1> HIDE DEF grown
<1>7. Extends(grown, file)
  BY <1>1, <1>4, <1>6 DEF Extends
<1>8. ASSUME NEW k \in Len(file) + 1..Len(file) + n
      PROVE  grown[k].event <= begun /\ grown[k].part # "head"
  <2>1. k - Len(file) \in 1..n /\ ~(k <= Len(file)) /\ k \in 1..Len(file) + n
    BY <1>1, <1>4
  <2>2. grown[k] = b[k - Len(file)] /\ k - Len(file) \in 1..Len(b)
    BY <1>1, <1>4, <1>5, <1>6, <2>1
  <2> QED
    BY <1>3, <2>2
<1>9. CASE /\ file' = grown
           /\ buffer' = [buffer EXCEPT ![t[1]] = SubSeq(b, n + 1, Len(b))]
  <2> DEFINE rest == SubSeq(b, n + 1, Len(b))
  <2>1. /\ rest \in Seq(Chunks) /\ Len(rest) = Len(b) - n
        /\ \A k \in 1..Len(b) - n : rest[k] = b[n + k]
    <3>1. n + 1 \in 1..Len(b) + 1 /\ Len(b) \in 0..Len(b) /\ n + 1 <= Len(b) + 1
      BY <1>1, <1>4
    <3>2. rest \in Seq(Chunks) /\ Len(rest) = Len(b) - (n + 1) + 1
      BY <1>1, <3>1, PartOf
    <3>3. \A k \in 1..Len(b) - (n + 1) + 1 : rest[k] = b[n + 1 + k - 1]
      BY <1>1, <3>1, PartOf
    <3> QED
      BY <1>1, <1>4, <3>2, <3>3
  <2> HIDE DEF rest
  <2>2. \A k \in 1..Len(rest) : rest[k].event <= begun /\ rest[k].part # "head"
    BY <1>1, <1>3, <1>4, <2>1
  <2> QED
    BY <1>6, <1>7, <1>8, <1>9, <2>1, <2>2 DEF rest
<1>10. CASE /\ b[n + 1].part = "whole"
            /\ file' = grown \o <<Front(b[n + 1])>>
            /\ buffer' = [buffer EXCEPT ![t[1]] = <<Rest(b[n + 1])>> \o SubSeq(b, n + 2, Len(b))]
  <2> DEFINE c == b[n + 1]
             kept == SubSeq(b, n + 2, Len(b))
             rest == <<Rest(c)>> \o kept
  <2>1. c \in Chunks /\ c.event <= begun
    BY <1>1, <1>3, <1>4
  <2>2. /\ Front(c) \in Chunks /\ Front(c).event <= begun /\ Front(c).part = "head"
        /\ Rest(c) \in Chunks /\ Rest(c).event <= begun /\ Rest(c).part = "tail"
    BY <2>1, ChunkFields
  <2> HIDE DEF c
  <2>3. <<Front(c)>> \in Seq(Chunks) /\ <<Rest(c)>> \in Seq(Chunks)
        /\ Len(<<Front(c)>>) = 1 /\ Len(<<Rest(c)>>) = 1
        /\ <<Front(c)>>[1] = Front(c) /\ <<Rest(c)>>[1] = Rest(c)
    BY <2>2
  <2>4. /\ kept \in Seq(Chunks) /\ Len(kept) = Len(b) - n - 1
        /\ \A k \in 1..Len(b) - n - 1 : kept[k] = b[n + 1 + k]
    <3>1. n + 2 \in 1..Len(b) + 1 /\ Len(b) \in 0..Len(b) /\ n + 2 <= Len(b) + 1
      BY <1>1, <1>4
    <3>2. kept \in Seq(Chunks) /\ Len(kept) = Len(b) - (n + 2) + 1
      BY <1>1, <3>1, PartOf
    <3>3. \A k \in 1..Len(b) - (n + 2) + 1 : kept[k] = b[n + 2 + k - 1]
      BY <1>1, <3>1, PartOf
    <3> QED
      BY <1>1, <1>4, <3>2, <3>3
  <2> HIDE DEF kept
  <2>5. /\ rest \in Seq(Chunks) /\ Len(rest) = 1 + Len(kept)
        /\ \A k \in 1..1 + Len(kept) : rest[k] = IF k <= 1 THEN <<Rest(c)>>[k] ELSE kept[k - 1]
    BY <2>3, <2>4, ConcatProperties
  <2> HIDE DEF rest
  <2>6. ASSUME NEW k \in 1..Len(rest) PROVE rest[k].event <= begun /\ rest[k].part # "head"
    <3>1. CASE k = 1
      BY <2>2, <2>3, <2>5, <3>1
    <3>2. CASE k # 1
      <4>1. ~(k <= 1) /\ k - 1 \in 1..Len(b) - n - 1 /\ n + 1 + (k - 1) \in 1..Len(b) /\ k \in 1..1 + Len(kept)
        BY <1>1, <1>4, <2>4, <2>5, <3>2
      <4>2. rest[k] = b[n + 1 + (k - 1)]
        BY <2>4, <2>5, <4>1
      <4> QED
        BY <1>3, <4>1, <4>2
    <3> QED
      BY <3>1, <3>2
  <2>7. /\ file' \in Seq(Chunks) /\ Len(file') = Len(file) + n + 1
        /\ \A k \in 1..Len(file) + n : file'[k] = grown[k]
        /\ file'[Len(file) + n + 1] = Front(c)
    <3>1. file' = grown \o <<Front(c)>>
      BY <1>10 DEF c
    <3> DEFINE d == Front(c)
    <3>2. d \in Chunks /\ file' = grown \o <<d>>
      BY <2>2, <3>1
    <3> HIDE DEF d
    <3>3. file' = Append(grown, d)
      BY <1>6, <3>2
    <3>4. /\ file' \in Seq(Chunks) /\ Len(file') = Len(grown) + 1
          /\ \A k \in 1..Len(grown) : file'[k] = grown[k]
          /\ file'[Len(grown) + 1] = d
      <4>1. grown \in Seq(Chunks) /\ d \in Chunks
        BY <1>6, <3>2
      <4>2. /\ Append(grown, d) \in Seq(Chunks) /\ Len(Append(grown, d)) = Len(grown) + 1
            /\ \A k \in 1..Len(grown) : Append(grown, d)[k] = grown[k]
            /\ Append(grown, d)[Len(grown) + 1] = d
        BY <4>1, AppendProperties
      <4> QED
        BY <3>3, <4>2
    <3> QED
      BY <1>1, <1>4, <1>6, <3>4 DEF d
  <2>8. Extends(file', file)
    BY <1>1, <1>4, <1>6, <1>7, <2>7 DEF Extends
  <2>9. ASSUME NEW k \in Len(file) + 1..Len(file')
        PROVE  file'[k].event <= begun /\ (file'[k].part = "head" => k = Len(file'))
    <3>1. CASE k = Len(file')
      BY <1>1, <1>4, <2>2, <2>7, <3>1
    <3>2. CASE k # Len(file')
      <4>1. Len(file') = Len(file) + n + 1 /\ Len(file) \in Nat /\ n \in Nat
        BY <1>1, <1>4, <2>7
      <4>2. k \in Len(file) + 1..Len(file) + n /\ k \in 1..Len(file) + n
        BY <3>2, <4>1
      <4> QED
        BY <1>8, <2>7, <4>2
    <3> QED
      BY <3>1, <3>2
  <2>10. buffer' = [buffer EXCEPT ![t[1]] = rest]
    BY <1>10 DEF rest, kept, c
  <2> QED
    BY <2>5, <2>6, <2>7, <2>8, <2>9, <2>10
<1> QED
  BY <1>2, <1>9, <1>10 DEF grown, out

(* A crash of the host: what is on stable storage stays, and of the rest   *)
(* some of the front, the last record of it perhaps cut.                   *)
LEMMA HostCrashKeeps ==
  ASSUME AuditTypeOK, HostCrash
  PROVE  \E n \in onDisk..Len(file) :
           /\ file' \in Seq(Chunks) /\ \A k \in 1..n : file'[k] = file[k]
           /\ \/ Len(file') = n
              \/ /\ n < Len(file) /\ Len(file') = n + 1
                 /\ file'[n + 1].event = file[n + 1].event /\ file'[n + 1].part = "head"
<1>1. file \in Seq(Chunks) /\ Len(file) \in Nat /\ onDisk \in 0..Len(file)
  BY DEF AuditTypeOK
<1>2. PICK n \in onDisk..Len(file) :
        \/ file' = SubSeq(file, 1, n)
        \/ n < Len(file) /\ file' = Append(SubSeq(file, 1, n), Front(file[n + 1]))
  BY DEF HostCrash
<1> DEFINE left == SubSeq(file, 1, n)
<1>3. n \in 0..Len(file)
  BY <1>1
<1>4. left \in Seq(Chunks) /\ Len(left) = n /\ \A k \in 1..n : left[k] = file[k]
  BY <1>1, <1>3, PartOf
<1> HIDE DEF left
<1>5. CASE file' = left
  BY <1>4, <1>5
<1>6. CASE n < Len(file) /\ file' = Append(left, Front(file[n + 1]))
  <2> DEFINE c == file[n + 1]
  <2>1. c \in Chunks
    BY <1>1, <1>3, <1>6
  <2>2. Front(c) \in Chunks /\ Front(c).event = c.event /\ Front(c).part = "head"
    BY <2>1, ChunkFields
  <2> DEFINE d == Front(c)
  <2>3. file' = Append(left, d)
    BY <1>6
  <2> HIDE DEF d
  <2>4. /\ file' \in Seq(Chunks) /\ Len(file') = n + 1 /\ file'[n + 1] = d
        /\ \A k \in 1..n : file'[k] = left[k]
    BY <1>3, <1>4, <2>2, <2>3, AppendProperties DEF d
  <2> QED
    BY <1>4, <1>6, <2>2, <2>4 DEF d
<1> QED
  BY <1>2, <1>5, <1>6 DEF left

-----------------------------------------------------------------------------
(* Every step keeps each part of the invariant.                            *)

(* Types: records are of events that have begun. *)
LEMMA TypeStep ==
  ASSUME AuditTypeOK, Locked, Begun, [Next]_vars
  PROVE  AuditTypeOK'
<1>0. MaxEvents \in Nat /\ MaxFailures \in Nat /\ MaxCrashes \in Nat
  BY AuditAssumption DEF AuditAssumption
<1> USE DEF Goto
<1>1. ASSUME NEW t \in Threads, ReadLast(t) PROVE AuditTypeOK'
  <2>1. begun' = begun + 1 /\ begun' \in 0..MaxEvents /\ begun + 1 \in Events /\ 1..begun \subseteq 1..begun'
    BY <1>0, <1>1 DEF ReadLast, AuditTypeOK, Events
  <2>2. event' \in [Threads -> Events \cup {0}]
    BY <1>1, <2>1 DEF ReadLast, AuditTypeOK
  <2>3. prev' \in [Threads -> Events \cup {Genesis}]
    BY <1>1, LastHashType DEF ReadLast, AuditTypeOK
  <2>4. long' \subseteq 1..begun'
    BY <1>0, <1>1, <2>1 DEF ReadLast, AuditTypeOK
  <2>5. overlap' \in BOOLEAN
    BY <1>1, Zenon DEF ReadLast
  <2>6. returned' \subseteq 1..begun' /\ secured' \subseteq returned'
    BY <1>1, <2>1 DEF ReadLast, AuditTypeOK
  <2> QED
    BY <1>1, <2>1, <2>2, <2>3, <2>4, <2>5, <2>6 DEF ReadLast, AuditTypeOK
<1>2. ASSUME NEW t \in Threads, Write(t) PROVE AuditTypeOK'
  <2> DEFINE c == [event |-> event[t], prev |-> prev[t], part |-> "whole"]
  <2>1. event[t] \in Events
    BY <1>0, <1>2 DEF Write, Locked, Active, AuditTypeOK, Events
  <2>2. c \in Chunks
    BY <2>1 DEF Chunks, AuditTypeOK
  <2> HIDE DEF c
  <2>3. Append(buffer[t[1]], c) \in Seq(Chunks)
    BY <2>2, AppendProperties DEF AuditTypeOK, Threads
  <2>4. buffer' \in [Instances -> Seq(Chunks)]
    BY <1>2, <2>3 DEF Write, AuditTypeOK, c
  <2>5. failures' \in 0..MaxFailures /\ at' \in [Threads -> {"idle", "read", "written", "flushed"}]
    BY <1>0, <1>2 DEF Write, Raise, AuditTypeOK
  <2> QED
    BY <1>2, <2>4, <2>5 DEF Write, AuditTypeOK
<1>3. ASSUME NEW t \in Threads, Flush(t) PROVE AuditTypeOK'
  <2>1. file' \in Seq(Chunks) /\ onDisk \in 0..Len(file')
    BY <1>3, FlushWrites DEF Extends, AuditTypeOK
  <2>2. buffer' \in [Instances -> Seq(Chunks)]
    <3>1. <<>> \in Seq(Chunks)
      OBVIOUS
    <3> QED
      BY <1>3, <3>1 DEF Flush, AuditTypeOK
  <2> QED
    BY <1>3, <2>1, <2>2 DEF Flush, AuditTypeOK
<1>4. ASSUME NEW t \in Threads, FlushFails(t) PROVE AuditTypeOK'
  <2>1. file' \in Seq(Chunks) /\ onDisk \in 0..Len(file')
    BY <1>4, FlushFailsWrites DEF Extends, AuditTypeOK
  <2>2. buffer' \in [Instances -> Seq(Chunks)]
    BY <1>4, FlushFailsWrites DEF AuditTypeOK
  <2>3. failures' \in 0..MaxFailures /\ at' \in [Threads -> {"idle", "read", "written", "flushed"}]
    BY <1>0, <1>4 DEF FlushFails, Raise, AuditTypeOK
  <2> QED
    BY <1>4, <2>1, <2>2, <2>3 DEF FlushFails, AuditTypeOK
<1>5. ASSUME NEW t \in Threads, SyncAndReturn(t) PROVE AuditTypeOK'
  <2>1. event[t] \in 1..begun
    BY <1>5 DEF SyncAndReturn, Locked, Active
  <2>2. onDisk' \in 0..Len(file)
    BY <1>5 DEF SyncAndReturn, AuditTypeOK
  <2>3. returned' \subseteq 1..begun /\ secured' \subseteq returned'
    BY <1>5, <2>1 DEF SyncAndReturn, AuditTypeOK
  <2> QED
    BY <1>5, <2>2, <2>3 DEF SyncAndReturn, AuditTypeOK
<1>6. ASSUME NEW i \in Instances, Crash(i) PROVE AuditTypeOK'
  <2>1. /\ at' \in [Threads -> {"idle", "read", "written", "flushed"}]
        /\ buffer' \in [Instances -> Seq(Chunks)]
    BY <1>6 DEF Crash, Forget, AuditTypeOK
  <2>2. crashes' \in 0..MaxCrashes /\ hostCrashes' \in 0..crashes'
    BY <1>0, <1>6 DEF Crash, AuditTypeOK
  <2> QED
    BY <1>6, <2>1, <2>2 DEF Crash, AuditTypeOK
<1>7. CASE HostCrash
  <2>1. /\ at' \in [Threads -> {"idle", "read", "written", "flushed"}]
        /\ buffer' \in [Instances -> Seq(Chunks)]
    BY <1>7 DEF HostCrash, Forget, AuditTypeOK
  <2>2. crashes' \in 0..MaxCrashes /\ hostCrashes' \in 0..crashes'
    BY <1>0, <1>7 DEF HostCrash, AuditTypeOK
  <2>3. file' \in Seq(Chunks) /\ onDisk' \in 0..Len(file')
    <3>1. file' \in Seq(Chunks) /\ onDisk' = Len(file')
      BY <1>7, HostCrashKeeps DEF HostCrash
    <3>2. Len(file') \in Nat
      BY <3>1
    <3> QED
      BY <3>1, <3>2
  <2> QED
    BY <1>7, <2>1, <2>2, <2>3 DEF HostCrash, AuditTypeOK
<1>8. CASE UNCHANGED vars
  BY <1>8 DEF vars, AuditTypeOK
<1> QED
  BY <1>1, <1>2, <1>3, <1>4, <1>5, <1>6, <1>7, <1>8 DEF Next

(* The lock goes with the thread that has it, and a crash frees it. *)
LEMMA LockedStep ==
  ASSUME AuditTypeOK, Locked, [Next]_vars
  PROVE  Locked'
<1> USE DEF AuditTypeOK, Locked, Active, Goto
<1>1. ASSUME NEW t \in Threads, ReadLast(t) PROVE Locked'
  BY <1>1 DEF ReadLast, LockFree
<1>2. ASSUME NEW t \in Threads, Write(t) PROVE Locked'
  BY <1>2 DEF Write, Raise
<1>3. ASSUME NEW t \in Threads, Flush(t) PROVE Locked'
  BY <1>3 DEF Flush
<1>4. ASSUME NEW t \in Threads, FlushFails(t) PROVE Locked'
  BY <1>4 DEF FlushFails, Raise
<1>5. ASSUME NEW t \in Threads, SyncAndReturn(t) PROVE Locked'
  BY <1>5 DEF SyncAndReturn
<1>6. ASSUME NEW i \in Instances, Crash(i) PROVE Locked'
  BY <1>6 DEF Crash, Forget
<1>7. CASE HostCrash
  BY <1>7 DEF HostCrash, Forget, Threads
<1>8. CASE UNCHANGED vars
  BY <1>8 DEF vars
<1> QED
  BY <1>1, <1>2, <1>3, <1>4, <1>5, <1>6, <1>7, <1>8 DEF Next

(* Only a write that fails and a crash of the host cut a record. *)
LEMMA BegunStep ==
  ASSUME AuditTypeOK, Locked, Begun, [Next]_vars
  PROVE  Begun'
<1>0. /\ \A k \in 1..Len(file) : file[k].event <= begun
      /\ \A i \in Instances : \A k \in 1..Len(buffer[i]) :
           buffer[i][k].event <= begun /\ buffer[i][k].part # "head"
      /\ begun \in Nat /\ Len(file) \in Nat /\ file \in Seq(Chunks)
  BY DEF Begun, AuditTypeOK
<1>1. ASSUME NEW t \in Threads, ReadLast(t) PROVE Begun'
  <2>1. begun' = begun + 1 /\ UNCHANGED <<file, buffer>>
    BY <1>1 DEF ReadLast
  <2>2. \A c \in Chunks : c.event <= begun => c.event <= begun + 1
    BY <1>0 DEF Chunks, Events
  <2>3. /\ \A k \in 1..Len(file) : file[k] \in Chunks
        /\ \A i \in Instances : \A k \in 1..Len(buffer[i]) : buffer[i][k] \in Chunks
    BY DEF AuditTypeOK
  <2> QED
    BY <1>0, <2>1, <2>2, <2>3 DEF Begun
<1>2. ASSUME NEW t \in Threads, Write(t) PROVE Begun'
  <2>1. CASE UNCHANGED buffer
    BY <1>2, <1>0, <2>1 DEF Write, Begun
  <2>2. CASE buffer' = [buffer EXCEPT ![t[1]] =
                          Append(@, [event |-> event[t], prev |-> prev[t], part |-> "whole"])]
    <3> DEFINE c == [event |-> event[t], prev |-> prev[t], part |-> "whole"]
               b == buffer[t[1]]
    <3>1. event[t] \in 1..begun
      BY <1>2 DEF Write, Locked, Active
    <3>2. b \in Seq(Chunks) /\ c.event <= begun /\ c.part = "whole" /\ t[1] \in Instances
      BY <3>1 DEF AuditTypeOK, Threads
    <3>3. c \in Chunks
      BY <3>1 DEF Chunks, AuditTypeOK, Events
    <3>4. buffer' = [buffer EXCEPT ![t[1]] = Append(b, c)]
      BY <2>2
    <3>5. \A k \in 1..Len(b) : b[k].event <= begun /\ b[k].part # "head"
      BY <1>0, <3>2
    <3> HIDE DEF b, c
    <3>6. \A k \in 1..Len(Append(b, c)) : Append(b, c)[k].event <= begun /\ Append(b, c)[k].part # "head"
      BY <3>2, <3>3, <3>5, AppendProperties
    <3>7. ASSUME NEW i \in Instances, NEW k \in 1..Len(buffer'[i])
          PROVE  buffer'[i][k].event <= begun /\ buffer'[i][k].part # "head"
      BY <1>0, <3>2, <3>4, <3>6 DEF AuditTypeOK
    <3> QED
      BY <1>0, <1>2, <3>7 DEF Write, Begun
  <2> QED
    BY <1>2, <2>1, <2>2 DEF Write
<1>3. ASSUME NEW t \in Threads, Flush(t) PROVE Begun'
  <2> DEFINE b == buffer[t[1]]
  <2>1. Extends(file', file) /\ Len(file') = Len(file) + Len(b) /\ \A k \in 1..Len(b) : file'[Len(file) + k] = b[k]
    BY <1>3, FlushWrites
  <2>2. \A k \in 1..Len(b) : b[k].event <= begun
    BY <1>0 DEF Threads
  <2>3. Len(b) \in Nat
    BY DEF AuditTypeOK, Threads
  <2>4. UNCHANGED begun /\ buffer' = [buffer EXCEPT ![t[1]] = <<>>]
    BY <1>3 DEF Flush
  <2> HIDE DEF b
  <2>5. ASSUME NEW k \in 1..Len(file') PROVE file'[k].event <= begun
    <3>1. CASE k <= Len(file)
      BY <1>0, <2>1, <2>3, <3>1 DEF Extends
    <3>2. CASE ~(k <= Len(file))
      <4>1. k - Len(file) \in 1..Len(b) /\ Len(file) + (k - Len(file)) = k
        BY <1>0, <2>1, <2>3, <3>2
      <4> QED
        BY <2>1, <2>2, <4>1
    <3> QED
      BY <3>1, <3>2
  <2>6. ASSUME NEW i \in Instances, NEW k \in 1..Len(buffer'[i])
        PROVE  buffer'[i][k].event <= begun /\ buffer'[i][k].part # "head"
    BY <1>0, <2>4 DEF AuditTypeOK
  <2> QED
    BY <2>4, <2>5, <2>6 DEF Begun
<1>4. ASSUME NEW t \in Threads, FlushFails(t) PROVE Begun'
  <2>1. Extends(file', file) /\ file' \in Seq(Chunks)
    BY <1>4, FlushFailsWrites
  <2>2. \A k \in Len(file) + 1..Len(file') : file'[k].event <= begun
    BY <1>4, FlushFailsWrites
  <2>3. PICK rest \in Seq(Chunks) :
          /\ buffer' = [buffer EXCEPT ![t[1]] = rest]
          /\ \A k \in 1..Len(rest) : rest[k].event <= begun /\ rest[k].part # "head"
    BY <1>4, FlushFailsWrites
  <2>4. Len(file') \in Nat /\ UNCHANGED begun
    BY <1>4, <2>1 DEF FlushFails
  <2>5. ASSUME NEW k \in 1..Len(file') PROVE file'[k].event <= begun
    <3>1. CASE k <= Len(file)
      BY <1>0, <2>1, <3>1 DEF Extends
    <3>2. CASE ~(k <= Len(file))
      BY <1>0, <2>2, <2>4, <3>2
    <3> QED
      BY <3>1, <3>2
  <2>6. ASSUME NEW i \in Instances, NEW k \in 1..Len(buffer'[i])
        PROVE  buffer'[i][k].event <= begun /\ buffer'[i][k].part # "head"
    BY <1>0, <2>3 DEF AuditTypeOK
  <2> QED
    BY <2>4, <2>5, <2>6 DEF Begun
<1>5. ASSUME NEW t \in Threads, SyncAndReturn(t) PROVE Begun'
  BY <1>5, <1>0 DEF SyncAndReturn, Begun
<1>6. ASSUME NEW i \in Instances, Crash(i) PROVE Begun'
  <2>1. UNCHANGED <<file, begun>> /\ \A j \in Instances : buffer'[j] \in {<<>>, buffer[j]}
    BY <1>6 DEF Crash, Forget
  <2> QED
    BY <1>0, <2>1 DEF Begun
<1>7. CASE HostCrash
  <2>1. UNCHANGED begun /\ \A j \in Instances : buffer'[j] = <<>>
    BY <1>7 DEF HostCrash, Forget
  <2>2. PICK n \in onDisk..Len(file) :
          /\ file' \in Seq(Chunks) /\ \A k \in 1..n : file'[k] = file[k]
          /\ \/ Len(file') = n
             \/ n < Len(file) /\ Len(file') = n + 1 /\ file'[n + 1].event = file[n + 1].event
    BY <1>7, HostCrashKeeps
  <2>3. n \in Nat /\ n <= Len(file)
    BY <1>0 DEF AuditTypeOK
  <2>4. ASSUME NEW k \in 1..Len(file') PROVE file'[k].event <= begun
    BY <1>0, <2>2, <2>3
  <2> QED
    BY <2>1, <2>4 DEF Begun
<1>8. CASE UNCHANGED vars
  BY <1>8, <1>0 DEF vars, Begun
<1> QED
  BY <1>1, <1>2, <1>3, <1>4, <1>5, <1>6, <1>7, <1>8 DEF Next

(* A record that is in f is still there when f has grown. *)
LEMMA HasGrows ==
  ASSUME NEW f, NEW g, NEW e, Len(f) \in Nat, Len(g) \in Nat, Extends(f, g), Has(g, Len(g), e)
  PROVE  Has(f, Len(f), e)
BY DEF Extends, Has

(* A record moves from the buffer to the file as a whole, or its append    *)
(* does not return; from the file to stable storage with all before it.    *)
LEMMA OnItsWayStep ==
  ASSUME AuditTypeOK, Locked, OnItsWay, Begun, [Next]_vars, AuditTypeOK'
  PROVE  OnItsWay'
<1>0. /\ file \in Seq(Chunks) /\ Len(file) \in Nat /\ onDisk \in 0..Len(file)
      /\ file' \in Seq(Chunks) /\ Len(file') \in Nat /\ onDisk' \in 0..Len(file')
      /\ \A i \in Instances : buffer[i] \in Seq(Chunks) /\ Len(buffer[i]) \in Nat
  BY DEF AuditTypeOK
<1>a. ASSUME UNCHANGED <<file, onDisk, returned, secured, hostCrashes>>,
             \A t \in Threads : at'[t] # at[t] =>
               \/ at'[t] \notin {"written", "flushed"}
               \/ at'[t] = "written" /\ Has(buffer'[t[1]], Len(buffer'[t[1]]), event'[t]),
             \A t \in Threads : at'[t] = at[t] /\ at[t] # "idle" => UNCHANGED event[t],
             \A t \in Threads : at'[t] = at[t] /\ at[t] = "written" => UNCHANGED buffer[t[1]]
      PROVE  OnItsWay'
  BY <1>a DEF OnItsWay
<1>1. ASSUME NEW t \in Threads, ReadLast(t) PROVE OnItsWay'
  BY <1>a, <1>1 DEF ReadLast, Goto, AuditTypeOK
<1>2. ASSUME NEW t \in Threads, Write(t) PROVE OnItsWay'
  <2>1. CASE Raise(t) /\ UNCHANGED buffer
    BY <1>a, <1>2, <2>1 DEF Write, Raise, Goto, AuditTypeOK
  <2>2. CASE /\ buffer' = [buffer EXCEPT ![t[1]] =
                             Append(@, [event |-> event[t], prev |-> prev[t], part |-> "whole"])]
             /\ Goto(t, "written")
    <3> DEFINE c == [event |-> event[t], prev |-> prev[t], part |-> "whole"]
    <3>1. /\ t[1] \in Instances /\ c.event = event[t] /\ c.part = "whole"
          /\ buffer' = [buffer EXCEPT ![t[1]] = Append(buffer[t[1]], c)]
      BY <2>2 DEF Threads
    <3> HIDE DEF c
    <3>2. buffer'[t[1]] = Append(buffer[t[1]], c)
      BY <3>1 DEF AuditTypeOK
    <3>3. Len(buffer'[t[1]]) = Len(buffer[t[1]]) + 1 /\ buffer'[t[1]][Len(buffer[t[1]]) + 1] = c
      BY <1>0, <3>1, <3>2
    <3>4. Has(buffer'[t[1]], Len(buffer'[t[1]]), event[t])
      <4>1. Len(buffer[t[1]]) + 1 \in 1..Len(buffer'[t[1]])
        BY <1>0, <3>1, <3>3
      <4> QED
        BY <3>1, <3>3, <4>1 DEF Has
    <3>5. \A u \in Threads : u # t /\ at[u] = "written" => u[1] # t[1]
      BY <1>2 DEF Write, Locked, Active
    <3>6. \A u \in Threads : u # t /\ at[u] = "written" => UNCHANGED buffer[u[1]]
      BY <3>1, <3>5 DEF Threads, AuditTypeOK
    <3>7. at' = [at EXCEPT ![t] = "written"] /\ at[t] = "read"
          /\ UNCHANGED <<file, onDisk, event, returned, secured, hostCrashes>>
      BY <1>2, <2>2 DEF Write, Goto
    <3> QED
      BY <1>a, <3>4, <3>6, <3>7 DEF AuditTypeOK
  <2> QED
    BY <1>2, <2>1, <2>2 DEF Write
<1>b. ASSUME NEW t \in Threads, Extends(file', file), at[t] = "written",
             \A u \in Threads : u # t => at'[u] = at[u],
             \A i \in Instances : i # t[1] => UNCHANGED buffer[i],
             at'[t] = "idle" \/ (at'[t] = "flushed" /\ Has(file', Len(file'), event[t])),
             UNCHANGED <<onDisk, event, returned, secured, hostCrashes>>
      PROVE  OnItsWay'
  <2>1. \A u \in Threads : u # t /\ at[u] # "idle" => u[1] # t[1]
    BY <1>b DEF Locked, Active
  <2>2. \A u \in Threads : at'[u] = "written" => Has(buffer'[u[1]], Len(buffer'[u[1]]), event'[u])
    <3> SUFFICES ASSUME NEW u \in Threads, at'[u] = "written"
                 PROVE  Has(buffer'[u[1]], Len(buffer'[u[1]]), event'[u])
      OBVIOUS
    <3>1. u # t /\ at[u] = "written"
      BY <1>b
    <3>2. u[1] \in Instances /\ u[1] # t[1]
      BY <2>1, <3>1 DEF Threads
    <3>3. buffer'[u[1]] = buffer[u[1]] /\ event'[u] = event[u]
      BY <1>b, <3>2
    <3> QED
      BY <3>1, <3>3 DEF OnItsWay
  <2>3. \A u \in Threads : at'[u] = "flushed" => Has(file', Len(file'), event'[u])
    <3> SUFFICES ASSUME NEW u \in Threads, at'[u] = "flushed"
                 PROVE  Has(file', Len(file'), event'[u])
      OBVIOUS
    <3>1. CASE u = t
      BY <1>b, <3>1
    <3>2. CASE u # t
      <4>1. Has(file, Len(file), event[u]) /\ event'[u] = event[u]
        BY <1>b, <3>2 DEF OnItsWay
      <4> QED
        BY <1>0, <1>b, <4>1, HasGrows
    <3> QED
      BY <3>1, <3>2
  <2>4. \A e \in secured : Has(file', onDisk, e)
    BY <1>0, <1>b DEF OnItsWay, Has, Extends
  <2>5. hostCrashes = 0 => \A e \in returned : Has(file', Len(file'), e)
    BY <1>0, <1>b, HasGrows DEF OnItsWay
  <2> QED
    BY <1>b, <2>2, <2>3, <2>4, <2>5 DEF OnItsWay
<1>3. ASSUME NEW t \in Threads, Flush(t) PROVE OnItsWay'
  <2> DEFINE b == buffer[t[1]]
  <2>1. /\ Extends(file', file) /\ Len(file') = Len(file) + Len(b)
        /\ \A k \in 1..Len(b) : file'[Len(file) + k] = b[k]
    BY <1>3, FlushWrites
  <2>2. Has(b, Len(b), event[t]) /\ Len(b) \in Nat
    BY <1>0, <1>3 DEF Flush, OnItsWay, Threads
  <2> HIDE DEF b
  <2>3. PICK k \in 1..Len(b) : b[k].event = event[t] /\ b[k].part = "whole"
    BY <2>2 DEF Has
  <2>4. Len(file) + k \in 1..Len(file')
    BY <1>0, <2>1, <2>2
  <2>5. Has(file', Len(file'), event[t])
    BY <2>1, <2>3, <2>4 DEF Has
  <2> QED
    BY <1>b, <1>3, <2>1, <2>5 DEF Flush, Goto, AuditTypeOK
<1>4. ASSUME NEW t \in Threads, FlushFails(t) PROVE OnItsWay'
  <2>1. Extends(file', file)
    BY <1>4, FlushFailsWrites
  <2>2. \A i \in Instances : i # t[1] => UNCHANGED buffer[i]
    BY <1>4, FlushFailsWrites DEF AuditTypeOK
  <2> QED
    BY <1>b, <1>4, <2>1, <2>2 DEF FlushFails, Raise, Goto, AuditTypeOK
<1>5. ASSUME NEW t \in Threads, SyncAndReturn(t) PROVE OnItsWay'
  <2>1. Has(file, Len(file), event[t])
    BY <1>5 DEF SyncAndReturn, OnItsWay
  <2>2. UNCHANGED <<file, buffer, event, hostCrashes>> /\ at' = [at EXCEPT ![t] = "idle"]
        /\ returned' = returned \cup {event[t]}
    BY <1>5 DEF SyncAndReturn, Goto
  <2>3. \A e \in secured : Has(file, Len(file), e)
    BY <1>0 DEF OnItsWay, Has
  <2>4. \A e \in secured' : Has(file, onDisk', e)
    <3>1. CASE onDisk' = Len(file) /\ secured' = secured \cup {event[t]}
      BY <2>1, <2>3, <3>1
    <3>2. CASE UNCHANGED <<onDisk, secured>>
      BY <3>2 DEF OnItsWay
    <3> QED
      BY <1>5, <3>1, <3>2 DEF SyncAndReturn
  <2>5. hostCrashes = 0 => \A e \in returned' : Has(file, Len(file), e)
    BY <2>1, <2>2 DEF OnItsWay
  <2> QED
    BY <2>2, <2>4, <2>5 DEF OnItsWay, AuditTypeOK
<1>6. ASSUME NEW i \in Instances, Crash(i) PROVE OnItsWay'
  <2>1. UNCHANGED <<file, onDisk, event, returned, secured, hostCrashes>>
    BY <1>6 DEF Crash
  <2>2. \A t \in Threads : at'[t] = IF t[1] \in {i} THEN "idle" ELSE at[t]
    BY <1>6 DEF Crash, Forget
  <2>3. \A t \in Threads : t[1] # i => buffer'[t[1]] = buffer[t[1]]
    BY <1>6 DEF Crash, Forget, Threads
  <2> QED
    BY <2>1, <2>2, <2>3 DEF OnItsWay
<1>7. CASE HostCrash
  <2>1. \A t \in Threads : at'[t] = "idle"
    BY <1>7 DEF HostCrash, Forget, Threads
  <2>2. hostCrashes' # 0 /\ onDisk' = Len(file') /\ secured' = secured
    BY <1>7 DEF HostCrash, AuditTypeOK
  <2>3. PICK n \in onDisk..Len(file) :
          /\ \A k \in 1..n : file'[k] = file[k]
          /\ Len(file') = n \/ Len(file') = n + 1
    BY <1>7, HostCrashKeeps
  <2>4. ASSUME NEW e \in secured PROVE Has(file', Len(file'), e)
    <3>1. PICK k \in 1..onDisk : file[k].event = e /\ file[k].part = "whole"
      BY DEF OnItsWay, Has
    <3>2. k \in 1..n /\ k \in 1..Len(file')
      BY <1>0, <2>3
    <3> QED
      BY <2>3, <3>1, <3>2 DEF Has
  <2> QED
    BY <2>1, <2>2, <2>4 DEF OnItsWay
<1>8. CASE UNCHANGED vars
  BY <1>8 DEF vars, OnItsWay
<1> QED
  BY <1>1, <1>2, <1>3, <1>4, <1>5, <1>6, <1>7, <1>8 DEF Next

(* The heads of a file are finitely many, and one more is one more. *)
LEMMA HeadsCounted ==
  ASSUME NEW f, Len(f) \in Nat
  PROVE  IsFiniteSet(Heads(f)) /\ Cardinality(Heads(f)) \in Nat
<1>1. IsFiniteSet(1..Len(f))
  BY FS_Interval
<1>2. Heads(f) \in SUBSET (1..Len(f))
  BY DEF Heads
<1>3. IsFiniteSet(Heads(f))
  BY <1>1, <1>2, FS_Subset
<1> QED
  BY <1>3, FS_CardinalityType

(* A file with one more place for a head has one head more at most. *)
LEMMA OneMoreHead ==
  ASSUME NEW f, NEW g, Len(f) \in Nat, Len(g) \in Nat, NEW x, Heads(f) \subseteq Heads(g) \cup {x}
  PROVE  Cardinality(Heads(f)) <= Cardinality(Heads(g)) + 1
<1>1. IsFiniteSet(Heads(g)) /\ Cardinality(Heads(g)) \in Nat
  BY HeadsCounted
<1>2. /\ IsFiniteSet(Heads(g) \cup {x})
      /\ Cardinality(Heads(g) \cup {x}) = IF x \in Heads(g) THEN Cardinality(Heads(g))
                                          ELSE Cardinality(Heads(g)) + 1
  BY <1>1, FS_AddElement
<1>3. Cardinality(Heads(f)) <= Cardinality(Heads(g) \cup {x})
  BY <1>2, FS_Subset
<1>4. Cardinality(Heads(f)) \in Nat
  BY HeadsCounted
<1> QED
  BY <1>1, <1>2, <1>3, <1>4

(* A record is cut by a failure, or by a crash that leaves it at the end of *)
(* what it keeps.                                                          *)
LEMMA FewHeadsStep ==
  ASSUME AuditTypeOK, Begun, FewHeads, [Next]_vars, AuditTypeOK'
  PROVE  FewHeads'
<1>0. /\ Len(file) \in Nat /\ Len(file') \in Nat /\ onDisk \in 0..Len(file)
      /\ failures \in Nat /\ crashes \in Nat /\ Cardinality(Heads(file)) \in Nat
      /\ Cardinality(Heads(file')) \in Nat
  BY HeadsCounted, AuditAssumption DEF AuditTypeOK, AuditAssumption
<1>1. ASSUME NEW t \in Threads, ReadLast(t) \/ Write(t) PROVE FewHeads'
  <2>1. UNCHANGED <<file, onDisk, crashes>> /\ failures' \in {failures, failures + 1}
    BY <1>1 DEF ReadLast, Write, Raise
  <2> QED
    BY <1>0, <2>1 DEF FewHeads
<1>2. ASSUME NEW t \in Threads, Flush(t) PROVE FewHeads'
  <2> DEFINE b == buffer[t[1]]
  <2>1. /\ Extends(file', file) /\ Len(file') = Len(file) + Len(b)
        /\ \A k \in 1..Len(b) : file'[Len(file) + k] = b[k]
    BY <1>2, FlushWrites
  <2>2. \A k \in 1..Len(b) : b[k].part # "head"
    BY DEF Begun, Threads
  <2>3. Len(b) \in Nat
    BY DEF AuditTypeOK, Threads
  <2> HIDE DEF b
  <2>4. ASSUME NEW k \in Heads(file') PROVE k \in Heads(file)
    <3>1. k \in 1..Len(file') /\ file'[k].part = "head"
      BY <2>4 DEF Heads
    <3>2. k <= Len(file)
      <4> SUFFICES ASSUME ~(k <= Len(file)) PROVE FALSE
        OBVIOUS
      <4>1. k - Len(file) \in 1..Len(b) /\ Len(file) + (k - Len(file)) = k
        BY <1>0, <2>1, <2>3, <3>1
      <4> QED
        BY <2>1, <2>2, <3>1, <4>1
    <3> QED
      BY <1>0, <2>1, <3>1, <3>2 DEF Extends, Heads
  <2>5. Heads(file') = Heads(file)
    BY <1>0, <2>1, <2>4 DEF Extends, Heads
  <2> QED
    BY <1>2, <2>5 DEF FewHeads, Flush
<1>3. ASSUME NEW t \in Threads, FlushFails(t) PROVE FewHeads'
  <2>1. /\ Extends(file', file)
        /\ \A k \in Len(file) + 1..Len(file') : file'[k].part = "head" => k = Len(file')
    BY <1>3, FlushFailsWrites
  <2>2. Heads(file') \subseteq Heads(file) \cup {Len(file')}
    BY <1>0, <2>1 DEF Heads, Extends
  <2>3. Cardinality(Heads(file')) <= Cardinality(Heads(file)) + 1
    BY <1>0, <2>2, OneMoreHead
  <2>4. failures' = failures + 1 /\ crashes' = crashes
    BY <1>3 DEF FlushFails, Raise
  <2>5. Cardinality(Heads(file')) <= failures' + crashes' /\ failures' > 0
    BY <1>0, <2>3, <2>4 DEF FewHeads
  <2> QED
    BY <2>5 DEF FewHeads
<1>4. ASSUME NEW t \in Threads, SyncAndReturn(t) PROVE FewHeads'
  <2>1. UNCHANGED <<file, failures, crashes>> /\ onDisk' \in {onDisk, Len(file)}
    BY <1>4 DEF SyncAndReturn
  <2>2. \A k \in Heads(file) : k <= Len(file)
    BY <1>0 DEF Heads
  <2> QED
    BY <2>1, <2>2 DEF FewHeads
<1>5. ASSUME NEW i \in Instances, Crash(i) PROVE FewHeads'
  <2>1. UNCHANGED <<file, onDisk, failures>> /\ crashes' = crashes + 1
    BY <1>5 DEF Crash
  <2>2. Cardinality(Heads(file)) <= failures + (crashes + 1)
    BY <1>0 DEF FewHeads
  <2> QED
    BY <2>1, <2>2 DEF FewHeads
<1>6. CASE HostCrash
  <2>1. PICK n \in onDisk..Len(file) :
          /\ \A k \in 1..n : file'[k] = file[k]
          /\ Len(file') = n \/ Len(file') = n + 1
    BY <1>6, HostCrashKeeps
  <2>2. Heads(file') \subseteq Heads(file) \cup {Len(file')}
    BY <1>0, <2>1 DEF Heads
  <2>3. Cardinality(Heads(file')) <= Cardinality(Heads(file)) + 1
    BY <1>0, <2>2, OneMoreHead
  <2>4. failures' = failures /\ crashes' = crashes + 1 /\ onDisk' = Len(file')
    BY <1>6 DEF HostCrash
  <2>5. Cardinality(Heads(file')) <= failures' + crashes'
    BY <1>0, <2>3, <2>4 DEF FewHeads
  <2>6. \A k \in Heads(file') : k <= Len(file')
    BY <1>0 DEF Heads
  <2> QED
    BY <2>4, <2>5, <2>6 DEF FewHeads
<1>7. CASE UNCHANGED vars
  BY <1>7 DEF vars, FewHeads
<1> QED
  BY <1>1, <1>2, <1>3, <1>4, <1>5, <1>6, <1>7 DEF Next

(* A record without a head in front of it can be read. *)
LEMMA WholeReadable ==
  ASSUME NEW f \in Seq(Chunks), NEW k \in 1..Len(f), f[k].part = "whole",
         k > 1 => f[k - 1].part # "head"
  PROVE  k \in Records(f) /\ LineStart(f, k) = k
<1> DEFINE S == {0} \cup {j \in Ends(f) : j < k}
<1>1. Len(f) \in Nat /\ k \in Nat /\ k - 1 \in Nat
  OBVIOUS
<1>2. S \subseteq 0..Len(f) /\ S # {}
  BY <1>1 DEF Ends
<1>3. k - 1 \in S
  BY <1>1 DEF Ends
<1>4. \A y \in S : y <= k - 1 /\ y \in Nat
  BY <1>1 DEF Ends
<1> HIDE DEF S
<1>5. Max(S) \in S /\ k - 1 <= Max(S)
  BY <1>1, <1>2, <1>3, LargestExists
<1>6. Max(S) = k - 1
  BY <1>1, <1>4, <1>5
<1>7. LineStart(f, k) = k
  BY <1>1, <1>6 DEF LineStart, S
<1> QED
  BY <1>7 DEF Records, Readable, Ends

-----------------------------------------------------------------------------
(* What the parts say together.                                            *)

(* No more records are unreadable that were safely stored than heads are   *)
(* in the file: the line one of them is on begins with a head.             *)
LEMMA FewUnreadable ==
  ASSUME AuditTypeOK, OnItsWay, FewHeads
  PROVE  DamageBounded
<1> DEFINE lost == secured \ {file[k].event : k \in Records(file)}
           SwallowedAt(e, k) == k + 1 \in 1..Len(file) /\ file[k + 1].event = e
           head == [e \in lost |-> CHOOSE k \in Heads(file) : SwallowedAt(e, k)]
<1>1. file \in Seq(Chunks) /\ Len(file) \in Nat /\ onDisk \in 0..Len(file)
  BY DEF AuditTypeOK
<1>2. ASSUME NEW e \in lost PROVE \E k \in Heads(file) : SwallowedAt(e, k)
  <2>1. PICK k \in 1..onDisk : file[k].event = e /\ file[k].part = "whole"
    BY DEF OnItsWay, Has
  <2>2. k \in 1..Len(file)
    BY <1>1
  <2>3. k \notin Records(file)
    BY <2>1
  <2>4. k > 1 /\ file[k - 1].part = "head"
    BY <1>1, <2>1, <2>2, <2>3, WholeReadable
  <2>5. k - 1 \in Heads(file) /\ k - 1 + 1 = k
    BY <1>1, <2>2, <2>4 DEF Heads
  <2> QED
    BY <2>1, <2>2, <2>5
<1>3. \A e \in lost : head[e] \in Heads(file) /\ SwallowedAt(e, head[e])
  <2> HIDE DEF lost, SwallowedAt
  <2> QED
    BY <1>2
<1>4. head \in Injection(lost, Heads(file))
  <2>1. head \in [lost -> Heads(file)]
    BY <1>3
  <2>2. \A d, e \in lost : head[d] = head[e] => d = e
    <3> HIDE DEF lost, head
    <3> QED
      BY <1>3
  <2> HIDE DEF lost, head
  <2> QED
    BY <2>1, <2>2, Zenon DEF Injection, IsInjective
<1> HIDE DEF lost, head
<1>5. IsFiniteSet(Heads(file)) /\ Cardinality(Heads(file)) \in Nat
  BY <1>1, HeadsCounted
<1>6. IsFiniteSet(lost) /\ Cardinality(lost) <= Cardinality(Heads(file))
  BY <1>4, <1>5, FS_Injection
<1>7. Cardinality(lost) \in Nat
  BY <1>6, FS_CardinalityType
<1>8. failures \in Nat /\ crashes \in Nat
  BY AuditAssumption DEF AuditTypeOK, AuditAssumption
<1>9. Cardinality(lost) <= failures + crashes
  BY <1>5, <1>6, <1>7, <1>8 DEF FewHeads
<1> QED
  BY <1>9 DEF lost, DamageBounded

(* The file has the text of what is on its way through it. *)
LEMMA WayIsWritten ==
  ASSUME AuditTypeOK, OnItsWay
  PROVE  ReturnedIsKept
<1>1. Len(file) \in Nat /\ onDisk \in 0..Len(file)
  BY DEF AuditTypeOK
<1>2. \A e : Has(file, Len(file), e) => e \in Written
  BY DEF Has, Written, Ends
<1>3. \A e : Has(file, onDisk, e) => Has(file, Len(file), e)
  BY <1>1 DEF Has
<1> QED
  BY <1>2, <1>3 DEF OnItsWay, ReturnedIsKept

-----------------------------------------------------------------------------
(* The file as the abstract store.                                         *)

LogRecords == [event : Events, prev : Events \cup {Genesis}]

LogOf(f) == [k \in 1..Len(f) |-> [event |-> f[k].event, prev |-> f[k].prev]]

(* The store has a record for every chunk, with its event and its hash. *)
LEMMA LogOfFile ==
  ASSUME NEW f \in Seq(Chunks)
  PROVE  /\ LogOf(f) \in Seq(LogRecords) /\ Len(LogOf(f)) = Len(f)
         /\ \A k \in 1..Len(f) : LogOf(f)[k] = [event |-> f[k].event, prev |-> f[k].prev]
<1>1. Len(f) \in Nat
  OBVIOUS
<1>2. \A k \in 1..Len(f) : [event |-> f[k].event, prev |-> f[k].prev] \in LogRecords
  <2>1. \A k \in 1..Len(f) : f[k] \in Chunks
    OBVIOUS
  <2> QED
    BY <2>1, ChunkFields DEF LogRecords
<1>3. LogOf(f) \in [1..Len(f) -> LogRecords]
  BY <1>2 DEF LogOf
<1> HIDE DEF LogRecords
<1>4. LogOf(f) \in Seq(LogRecords)
  BY <1>1, <1>3, SeqDef
<1>5. DOMAIN LogOf(f) = 1..Len(LogOf(f)) /\ Len(LogOf(f)) \in Nat /\ DOMAIN LogOf(f) = 1..Len(f)
  BY <1>3, <1>4, LenProperties
<1>6. Len(LogOf(f)) = Len(f)
  BY <1>1, <1>5
<1> QED
  BY <1>4, <1>6 DEF LogOf

(* It is the store the file is. *)
LEMMA LogIsFile == logBar = LogOf(file) /\ logBar' = LogOf(file')
BY DEF logBar, LogOf

LastOf(f) == IF Len(f) = 0 THEN Genesis ELSE f[Len(f)].event

(* The last hash of the store is that of the last chunk. *)
LEMMA LastOfLog ==
  ASSUME file \in Seq(Chunks)
  PROVE  Chain!LastHashOf(logBar) = LastOf(file)
<1>1. Len(file) \in Nat /\ logBar \in Seq(LogRecords) /\ Len(logBar) = Len(file)
  BY LogOfFile, LogIsFile
<1>2. CASE Len(file) = 0
  <2>1. logBar = <<>>
    BY <1>1, <1>2, EmptySeq
  <2> QED
    BY <1>2, <2>1 DEF LastOf, Chain!LastHashOf
<1>3. CASE Len(file) # 0
  <2>1. logBar # <<>> /\ Len(file) \in 1..Len(file)
    BY <1>1, <1>3, EmptySeq
  <2>2. logBar[Len(file)] = [event |-> file[Len(file)].event, prev |-> file[Len(file)].prev]
    BY <2>1, LogOfFile, LogIsFile
  <2> QED
    BY <1>1, <1>3, <2>1, <2>2 DEF LastOf, Chain!LastHashOf
<1> QED
  BY <1>2, <1>3

(* _last_hash finds it: the last line is whole and shorter than a window.  *)
LEMMA LastHashFound ==
  ASSUME file \in Seq(Chunks), \A k \in 1..Len(file) : file[k].part = "whole", long = {}
  PROVE  LastHash(file) = LastOf(file)
<1>0. Window \in Nat \ {0} /\ Len(file) \in Nat
  BY AuditAssumption DEF AuditAssumption
<1>1. Ends(file) = 1..Len(file)
  BY DEF Ends
<1>2. CASE Len(file) = 0
  <2>1. Ends(file) = {}
    BY <1>1, <1>2
  <2> QED
    BY <1>2, <2>1 DEF LastHash, LastOf
<1>3. CASE Len(file) # 0
  <2> DEFINE k == Max(Ends(file))
  <2>1. Len(file) \in Ends(file) /\ Ends(file) \subseteq 0..Len(file) /\ Ends(file) # {}
    BY <1>0, <1>1, <1>3
  <2>2. k \in Ends(file) /\ Len(file) <= k
    BY <1>0, <2>1, LargestExists
  <2>3. k = Len(file) /\ k \in 1..Len(file)
    BY <1>0, <1>1, <2>2
  <2> HIDE DEF k
  <2>4. k \in Records(file) /\ LineStart(file, k) = k
    <3>1. k > 1 => file[k - 1].part # "head"
      BY <1>0, <2>3
    <3> QED
      BY <2>3, <3>1, WholeReadable
  <2> DEFINE units == {u \in (LineStart(file, k)..k) \X (1..Window + 1) : u[2] <= Units(file[u[1]])}
  <2>5. units = {<<k, 1>>}
    <3>1. \A j : Units(file[j]) = 1
      BY DEF Units
    <3>2. units = {u \in {k} \X (1..Window + 1) : u[2] <= 1}
      BY <1>0, <2>3, <2>4, <3>1
    <3> QED
      BY <1>0, <3>2
  <2>6. Cardinality(units) = 1
    BY <2>5, FS_Singleton
  <2> HIDE DEF units
  <2>7. Len(file) - k = 0 /\ Window * (0 \div Window + 1) >= 0 + 1
    <3>1. 0 \div Window = 0
      BY <1>0
    <3> QED
      BY <1>0, <2>3, <3>1
  <2>8. Readable(file, k)
    BY <2>4 DEF Records
  <2>9. LastHash(file) = IF Window * ((Len(file) - k) \div Window + 1) >= (Len(file) - k) + Cardinality(units)
                             /\ Readable(file, k)
                         THEN file[k].event ELSE Genesis
    BY <2>1, Zenon DEF LastHash, k, units
  <2>10. LastHash(file) = file[k].event
    BY <2>6, <2>7, <2>8, <2>9
  <2> QED
    BY <1>3, <2>3, <2>10 DEF LastOf
<1> QED
  BY <1>2, <1>3

-----------------------------------------------------------------------------
(* What is rough stays rough, and what is smooth smooth, or it gets rough. *)

(* The marks of roughness do not go away: only what is not on stable       *)
(* storage is lost, and a head that is not takes a failure.                *)
LEMMA RoughStays ==
  ASSUME AuditTypeOK, Begun, FewHeads, [Next]_vars, AuditTypeOK', ~Rough'
  PROVE  ~Rough
<1>0. /\ failures \in Nat /\ failures' \in Nat /\ Len(file) \in Nat /\ Len(file') \in Nat
      /\ onDisk \in 0..Len(file)
  BY AuditAssumption DEF AuditTypeOK, AuditAssumption
<1>1. failures' = 0 /\ long' = {} /\ ~overlap' /\ \A k \in 1..Len(file') : file'[k].part # "head"
  BY <1>0 DEF Rough
<1>2. \/ UNCHANGED <<failures, long, overlap, file>>
      \/ \E t \in Threads : ReadLast(t) \/ Write(t) \/ Flush(t) \/ FlushFails(t)
      \/ HostCrash
  BY DEF Next, vars, SyncAndReturn, Crash
<1>3. CASE UNCHANGED <<failures, long, overlap, file>>
  BY <1>3 DEF Rough
<1>4. ASSUME NEW t \in Threads, ReadLast(t) PROVE ~Rough
  <2>1. failures = 0 /\ ~overlap /\ file' = file
    BY <1>1, <1>4 DEF ReadLast
  <2>2. long = {}
    BY <1>1, <1>4 DEF ReadLast
  <2> QED
    BY <1>1, <2>1, <2>2 DEF Rough
<1>5. ASSUME NEW t \in Threads, Write(t) PROVE ~Rough
  BY <1>0, <1>1, <1>5 DEF Write, Raise, Rough
<1>6. ASSUME NEW t \in Threads, Flush(t) PROVE ~Rough
  <2>1. Extends(file', file)
    BY <1>6, FlushWrites
  <2>2. \A k \in 1..Len(file) : file[k].part # "head"
    BY <1>0, <1>1, <2>1 DEF Extends
  <2> QED
    BY <1>1, <1>6, <2>2 DEF Flush, Rough
<1>7. ASSUME NEW t \in Threads, FlushFails(t) PROVE ~Rough
  BY <1>0, <1>1, <1>7 DEF FlushFails, Raise
<1>8. CASE HostCrash
  <2>1. failures = 0 /\ long = {} /\ ~overlap
    BY <1>1, <1>8 DEF HostCrash
  <2>2. PICK n \in onDisk..Len(file) :
          /\ \A k \in 1..n : file'[k] = file[k]
          /\ Len(file') = n \/ Len(file') = n + 1
    BY <1>8, HostCrashKeeps
  <2>3. ASSUME NEW k \in Heads(file) PROVE FALSE
    <3>1. k \in 1..Len(file) /\ file[k].part = "head" /\ k <= onDisk
      BY <2>1, <2>3 DEF Heads, FewHeads
    <3>2. k \in 1..n /\ k \in 1..Len(file')
      BY <1>0, <2>2, <3>1
    <3> QED
      BY <1>1, <2>2, <3>1, <3>2
  <2> QED
    BY <2>1, <2>3 DEF Rough, Heads
<1> QED
  BY <1>2, <1>3, <1>4, <1>5, <1>6, <1>7, <1>8

(* The record of the one thread that writes is all the buffer has. *)
LEMMA OneRecord ==
  ASSUME AuditTypeOK, Locked, Smooth, NEW t \in Threads, Flush(t)
  PROVE  LET c == [event |-> event[t], prev |-> prev[t], part |-> "whole"]
         IN  /\ c \in Chunks /\ file' = Append(file, c)
             /\ file' \in Seq(Chunks) /\ Len(file') = Len(file) + 1
             /\ \A k \in 1..Len(file) : file'[k] = file[k]
             /\ file'[Len(file) + 1] = c
<1> DEFINE c == [event |-> event[t], prev |-> prev[t], part |-> "whole"]
<1>1. event[t] \in Events /\ prev[t] \in Events \cup {Genesis}
  BY AuditAssumption DEF Flush, Locked, Active, AuditTypeOK, Events, AuditAssumption
<1>2. c \in Chunks
  BY <1>1 DEF Chunks
<1>3. file' = file \o <<c>>
  BY DEF Flush, Smooth
<1> HIDE DEF c
<1>4. file \in Seq(Chunks)
  BY DEF AuditTypeOK
<1>5. file' = Append(file, c)
  BY <1>2, <1>3, <1>4
<1>6. /\ file' \in Seq(Chunks) /\ Len(file') = Len(file) + 1
      /\ \A k \in 1..Len(file) : file'[k] = file[k]
      /\ file'[Len(file) + 1] = c
  BY <1>2, <1>4, <1>5, AppendProperties
<1> QED
  BY <1>2, <1>5, <1>6 DEF c

(* The last hash a thread has read stays the last one until it has written.*)
LEMMA SmoothStep ==
  ASSUME AuditTypeOK, Locked, Begun, FewHeads, ~Rough, Smooth, [Next]_vars, AuditTypeOK', ~Rough'
  PROVE  Smooth'
<1>0. /\ file \in Seq(Chunks) /\ Len(file) \in Nat /\ failures \in Nat /\ begun \in Nat
      /\ failures' = 0 /\ ~overlap' /\ long = {}
      /\ \A k \in 1..Len(file) : file[k].part = "whole"
  BY AuditAssumption DEF AuditTypeOK, Rough, Smooth, AuditAssumption
<1>a. ASSUME UNCHANGED <<file, buffer, event, prev>>,
             \A t \in Threads : at'[t] = at[t] \/ (at'[t] = "idle" /\ at[t] # "written")
      PROVE  Smooth'
  <2>1. UNCHANGED Chain!LastHashOf(logBar)
    BY <1>a DEF Chain!LastHashOf, logBar
  <2>2. \A t \in Threads : at'[t] \in {"read", "written"} => at'[t] = at[t]
    BY <1>a
  <2>3. \A t \in Threads : Active(t)' => Active(t)
    BY <1>a DEF Active
  <2>4. \A t \in Threads : at'[t] # "written" => at[t] # "written"
    BY <1>a
  <2> QED
    BY <1>a, <2>1, <2>2, <2>3, <2>4 DEF Smooth
<1>1. ASSUME NEW t \in Threads, ReadLast(t) PROVE Smooth'
  <2>1. /\ UNCHANGED <<file, buffer>> /\ begun' = begun + 1
        /\ event' = [event EXCEPT ![t] = begun + 1]
        /\ prev' = [prev EXCEPT ![t] = LastHash(file)]
        /\ at' = [at EXCEPT ![t] = "read"]
    BY <1>1 DEF ReadLast, Goto
  <2>2. \A u \in Threads : at[u] = "idle"
    <3>1. \A u \in Threads : u[1] # t[1] => at[u] = "idle"
      BY <1>0, <1>1 DEF ReadLast
    <3> QED
      BY <1>1, <3>1 DEF ReadLast, LockFree
  <2>3. at'[t] = "read" /\ \A u \in Threads : u # t => at'[u] = "idle"
    BY <2>1, <2>2 DEF AuditTypeOK
  <2>4. prev'[t] = Chain!LastHashOf(logBar)'
    <3>1. prev'[t] = LastHash(file)
      BY <2>1 DEF AuditTypeOK
    <3>2. LastHash(file) = Chain!LastHashOf(logBar)
      BY <1>0, LastHashFound, LastOfLog
    <3>3. Chain!LastHashOf(logBar)' = Chain!LastHashOf(logBar)
      BY <2>1 DEF Chain!LastHashOf, logBar
    <3> QED
      BY <3>1, <3>2, <3>3
  <2>5. \A k \in 1..Len(file') : file'[k].event # event'[t]
    <3>1. event'[t] = begun + 1
      BY <2>1 DEF AuditTypeOK
    <3>2. \A k \in 1..Len(file) : file[k].event <= begun
      BY DEF Begun
    <3> QED
      BY <1>0, <2>1, <3>1, <3>2
  <2>6. \A i \in Instances : buffer'[i] = <<>>
    BY <2>1, <2>2 DEF Smooth
  <2> QED
    BY <1>0, <2>1, <2>3, <2>4, <2>5, <2>6 DEF Smooth, Active
<1>2. ASSUME NEW t \in Threads, Write(t) PROVE Smooth'
  <2> DEFINE c == [event |-> event[t], prev |-> prev[t], part |-> "whole"]
  <2>1. /\ buffer' = [buffer EXCEPT ![t[1]] = Append(@, c)]
        /\ at' = [at EXCEPT ![t] = "written"] /\ at[t] = "read"
        /\ UNCHANGED <<file, event, prev>>
    BY <1>0, <1>2 DEF Write, Raise, Goto
  <2>2. \A u \in Threads : u # t => at[u] = "idle"
    BY <2>1 DEF Smooth, Active
  <2>3. at'[t] = "written" /\ \A u \in Threads : u # t => at'[u] = "idle"
    BY <2>1, <2>2 DEF AuditTypeOK
  <2>4. \A i \in Instances : buffer[i] = <<>>
    BY <2>1, <2>2 DEF Smooth
  <2>5. t[1] \in Instances
    BY DEF Threads
  <2>6. buffer'[t[1]] = <<c>> /\ \A i \in Instances : i # t[1] => buffer'[i] = <<>>
    <3> HIDE DEF c
    <3>1. buffer' = [buffer EXCEPT ![t[1]] = Append(buffer[t[1]], c)]
      BY <2>1
    <3>2. buffer'[t[1]] = Append(<<>>, c) /\ \A i \in Instances : i # t[1] => buffer'[i] = buffer[i]
      BY <2>4, <2>5, <3>1 DEF AuditTypeOK
    <3>3. Append(<<>>, c) = <<c>>
      OBVIOUS
    <3> QED
      BY <2>4, <3>2, <3>3
  <2>7. prev'[t] = Chain!LastHashOf(logBar)' /\ \A k \in 1..Len(file') : file'[k].event # event'[t]
    BY <2>1 DEF Smooth, Chain!LastHashOf, logBar
  <2>8. \A k \in 1..Len(file') : file'[k].part = "whole"
    BY <1>0, <2>1
  <2>9. \A u \in Threads : at'[u] = "written" =>
          buffer'[u[1]] = <<[event |-> event'[u], prev |-> prev'[u], part |-> "whole"]>>
    BY <2>1, <2>3, <2>6
  <2>10. \A i \in Instances : (\A u \in Threads : u[1] = i => at'[u] # "written") => buffer'[i] = <<>>
    BY <2>3, <2>6
  <2> HIDE DEF c
  <2> QED
    BY <2>3, <2>7, <2>8, <2>9, <2>10 DEF Smooth, Active
<1>3. ASSUME NEW t \in Threads, Flush(t) PROVE Smooth'
  <2>1. /\ buffer' = [buffer EXCEPT ![t[1]] = <<>>]
        /\ at' = [at EXCEPT ![t] = "flushed"] /\ at[t] = "written"
    BY <1>3 DEF Flush, Goto
  <2>2. \A u \in Threads : u # t => at[u] = "idle"
    BY <2>1 DEF Smooth, Active
  <2>3. at'[t] = "flushed" /\ \A u \in Threads : u # t => at'[u] = "idle"
    BY <2>1, <2>2 DEF AuditTypeOK
  <2>4. \A i \in Instances : i # t[1] => buffer[i] = <<>>
    BY <2>2 DEF Smooth
  <2>5. \A i \in Instances : buffer'[i] = <<>>
    BY <2>1, <2>4 DEF AuditTypeOK
  <2>6. \A k \in 1..Len(file') : file'[k].part = "whole"
    <3> DEFINE c == [event |-> event[t], prev |-> prev[t], part |-> "whole"]
    <3>1. /\ Len(file') = Len(file) + 1 /\ file'[Len(file) + 1] = c
          /\ \A k \in 1..Len(file) : file'[k] = file[k]
      BY <1>3, OneRecord
    <3>2. c.part = "whole"
      OBVIOUS
    <3> HIDE DEF c
    <3> QED
      BY <1>0, <3>1, <3>2
  <2> QED
    BY <2>3, <2>5, <2>6 DEF Smooth, Active
<1>4. ASSUME NEW t \in Threads, FlushFails(t) PROVE Smooth'
  BY <1>0, <1>4 DEF FlushFails, Raise
<1>5. ASSUME NEW t \in Threads, SyncAndReturn(t) PROVE Smooth'
  BY <1>a, <1>5 DEF SyncAndReturn, Goto, AuditTypeOK
<1>6. ASSUME NEW i \in Instances, Crash(i) PROVE Smooth'
  <2>1. /\ \A t \in Threads : at'[t] = IF t[1] = i THEN "idle" ELSE at[t]
        /\ \A j \in Instances : buffer'[j] = IF j = i THEN <<>> ELSE buffer[j]
        /\ UNCHANGED <<file, event, prev>>
    BY <1>6 DEF Crash, Forget
  <2>2. UNCHANGED Chain!LastHashOf(logBar)
    BY <2>1 DEF Chain!LastHashOf, logBar
  <2>3. \A t \in Threads : at'[t] # "idle" => at'[t] = at[t] /\ t[1] # i /\ t[1] \in Instances
    BY <2>1 DEF Threads
  <2>4. \A t \in Threads : at'[t] = "written" => at[t] = "written" /\ buffer'[t[1]] = buffer[t[1]]
    BY <2>1, <2>3
  <2>5. ASSUME NEW j \in Instances, \A t \in Threads : t[1] = j => at'[t] # "written"
        PROVE  buffer'[j] = <<>>
    BY <2>1, <2>5 DEF Smooth
  <2>6. \A t, u \in Threads : Active(t)' /\ Active(u)' => t = u
    BY <2>3 DEF Smooth, Active
  <2>7. \A t \in Threads : at'[t] = "written" =>
          buffer'[t[1]] = <<[event |-> event'[t], prev |-> prev'[t], part |-> "whole"]>>
    BY <2>1, <2>4 DEF Smooth
  <2>8. \A t \in Threads : at'[t] \in {"read", "written"} =>
          /\ prev'[t] = Chain!LastHashOf(logBar)'
          /\ \A k \in 1..Len(file') : file'[k].event # event'[t]
    BY <2>1, <2>2, <2>3 DEF Smooth
  <2>9. \A k \in 1..Len(file') : file'[k].part = "whole"
    BY <1>0, <2>1
  <2> QED
    BY <2>5, <2>6, <2>7, <2>8, <2>9 DEF Smooth
<1>7. CASE HostCrash
  <2>1. (\A t \in Threads : at'[t] = "idle") /\ \A i \in Instances : buffer'[i] = <<>>
    BY <1>7 DEF HostCrash, Forget, Threads
  <2>2. PICK n \in onDisk..Len(file) :
          /\ \A k \in 1..n : file'[k] = file[k]
          /\ Len(file') = n \/ (Len(file') = n + 1 /\ file'[n + 1].part = "head")
    BY <1>7, HostCrashKeeps
  <2>3. n \in 0..Len(file) /\ \A k \in 1..Len(file') : file'[k].part # "head"
    BY <1>0 DEF AuditTypeOK, Rough
  <2>4. \A k \in 1..Len(file') : file'[k].part = "whole"
    BY <1>0, <2>2, <2>3
  <2> QED
    BY <2>1, <2>4 DEF Smooth, Active
<1>8. CASE UNCHANGED vars
  BY <1>a, <1>8 DEF vars
<1> QED
  BY <1>1, <1>2, <1>3, <1>4, <1>5, <1>6, <1>7, <1>8 DEF Next

(* A step that leaves the file smooth is a step of the store: a flush adds *)
(* the record, fsync secures, a crash of the host loses records from the   *)
(* end that are not on stable storage, and nothing else shows.             *)
LEMMA ChainStep ==
  ASSUME AuditTypeOK, Locked, Smooth, [Next]_vars, AuditTypeOK', ~Rough'
  PROVE  [Chain!ChainNext]_(Chain!chainVars)
<1>0. /\ file \in Seq(Chunks) /\ Len(file) \in Nat /\ onDisk \in 0..Len(file)
      /\ file' \in Seq(Chunks) /\ failures \in Nat /\ failures' = 0
  BY AuditAssumption DEF AuditTypeOK, Rough, AuditAssumption
<1>1. /\ logBar \in Seq(LogRecords) /\ Len(logBar) = Len(file)
      /\ \A k \in 1..Len(file) : logBar[k] = [event |-> file[k].event, prev |-> file[k].prev]
      /\ logBar' \in Seq(LogRecords) /\ Len(logBar') = Len(file')
      /\ \A k \in 1..Len(file') : logBar'[k] = [event |-> file'[k].event, prev |-> file'[k].prev]
  BY <1>0, LogOfFile, LogIsFile
<1>2. file' = file => logBar' = logBar
  BY LogIsFile
<1>a. ASSUME UNCHANGED <<file, onDisk>> PROVE UNCHANGED Chain!chainVars
  BY <1>a, <1>2 DEF Chain!chainVars
<1>3. ASSUME NEW t \in Threads, Flush(t) PROVE Chain!ChainNext
  <2> DEFINE c == [event |-> event[t], prev |-> prev[t], part |-> "whole"]
             r == [event |-> event[t], prev |-> prev[t]]
  <2>1. /\ c \in Chunks /\ Len(file') = Len(file) + 1
        /\ \A k \in 1..Len(file) : file'[k] = file[k]
        /\ file'[Len(file) + 1] = c
    BY <1>3, OneRecord
  <2>2. r \in LogRecords /\ event[t] \in Events /\ c.event = r.event /\ c.prev = r.prev
        /\ r = [event |-> c.event, prev |-> c.prev]
    BY <2>1, ChunkFields DEF LogRecords
  <2>3. \A k \in 1..Len(file) : logBar[k].event # event[t]
    <3>1. \A k \in 1..Len(file) : file[k].event # event[t]
      BY <1>3 DEF Flush, Smooth
    <3>2. ASSUME NEW k \in 1..Len(file) PROVE logBar[k].event # event[t]
      <4>1. logBar[k] = [event |-> file[k].event, prev |-> file[k].prev]
        BY <1>1
      <4>2. logBar[k].event = file[k].event
        BY <4>1
      <4> QED
        BY <3>1, <4>2
    <3> QED
      BY <3>2
  <2>4. prev[t] = Chain!LastHashOf(logBar)
    BY <1>3 DEF Flush, Smooth
  <2>5. r = [event |-> event[t], prev |-> Chain!LastHashOf(logBar)]
    BY <2>4
  <2> HIDE DEF c, r
  <2>6. /\ Append(logBar, r) \in Seq(LogRecords) /\ Len(Append(logBar, r)) = Len(file) + 1
        /\ \A k \in 1..Len(file) : Append(logBar, r)[k] = logBar[k]
        /\ Append(logBar, r)[Len(file) + 1] = r
    BY <1>1, <2>2, AppendProperties
  <2>7. ASSUME NEW k \in 1..Len(file') PROVE logBar'[k] = Append(logBar, r)[k]
    <3>1. CASE k \in 1..Len(file)
      BY <1>1, <2>1, <2>6, <3>1
    <3>2. CASE k = Len(file) + 1
      BY <1>1, <2>1, <2>2, <2>6, <3>2
    <3>3. Len(file') = Len(file) + 1
      BY <2>1
    <3>4. k \in 1..Len(file) \/ k = Len(file) + 1
      BY <1>0, <3>3
    <3> QED
      BY <3>1, <3>2, <3>4
  <2>8. logBar' = Append(logBar, r)
    BY <1>1, <2>1, <2>6, <2>7, SeqEqual
  <2>9. UNCHANGED onDisk
    BY <1>3 DEF Flush
  <2>10. Chain!Add(event[t])
    BY <1>1, <2>3, <2>5, <2>8, <2>9 DEF Chain!Add
  <2> QED
    BY <2>2, <2>10 DEF Chain!ChainNext
<1>4. ASSUME NEW t \in Threads, SyncAndReturn(t) PROVE [Chain!ChainNext]_(Chain!chainVars)
  <2>1. CASE onDisk' = Len(file)
    <3>1. Chain!Secure
      BY <1>1, <1>2, <1>4, <2>1 DEF SyncAndReturn, Chain!Secure
    <3> QED
      BY <3>1 DEF Chain!ChainNext
  <2>2. CASE UNCHANGED onDisk
    BY <1>a, <1>4, <2>2 DEF SyncAndReturn
  <2> QED
    BY <1>4, <2>1, <2>2 DEF SyncAndReturn
<1>5. CASE HostCrash
  <2>1. PICK n \in onDisk..Len(file) :
          /\ \A k \in 1..n : file'[k] = file[k]
          /\ Len(file') = n \/ (Len(file') = n + 1 /\ file'[n + 1].part = "head")
    BY <1>5, HostCrashKeeps
  <2>2. n \in 0..Len(file) /\ \A k \in 1..Len(file') : file'[k].part # "head"
    BY <1>0 DEF Rough
  <2>3. Len(file') = n
    BY <1>0, <2>1, <2>2
  <2>4. /\ SubSeq(logBar, 1, n) \in Seq(LogRecords) /\ Len(SubSeq(logBar, 1, n)) = n
        /\ \A k \in 1..n : SubSeq(logBar, 1, n)[k] = logBar[k]
    <3>1. 1 \in 1..Len(logBar) + 1 /\ n \in 0..Len(logBar) /\ 1 <= n + 1
      BY <1>0, <1>1, <2>2
    <3>2. /\ SubSeq(logBar, 1, n) \in Seq(LogRecords) /\ Len(SubSeq(logBar, 1, n)) = n - 1 + 1
          /\ \A k \in 1..n - 1 + 1 : SubSeq(logBar, 1, n)[k] = logBar[1 + k - 1]
      BY <1>1, <3>1, PartOf
    <3> QED
      BY <2>2, <3>2
  <2>5. \A k \in 1..n : logBar'[k] = SubSeq(logBar, 1, n)[k]
    BY <1>0, <1>1, <2>1, <2>2, <2>3, <2>4
  <2>6. logBar' = SubSeq(logBar, 1, n)
    BY <1>1, <2>3, <2>4, <2>5, SeqEqual
  <2>7. onDisk' = Len(logBar')
    BY <1>1, <1>5 DEF HostCrash
  <2>8. Chain!LoseTail
    BY <1>1, <2>6, <2>7 DEF Chain!LoseTail
  <2> QED
    BY <2>8 DEF Chain!ChainNext
<1>6. ASSUME NEW t \in Threads, ReadLast(t) \/ Write(t) PROVE UNCHANGED Chain!chainVars
  BY <1>a, <1>6 DEF ReadLast, Write
<1>7. ASSUME NEW t \in Threads, FlushFails(t) PROVE FALSE
  BY <1>0, <1>7 DEF FlushFails, Raise
<1>8. ASSUME NEW i \in Instances, Crash(i) PROVE UNCHANGED Chain!chainVars
  BY <1>a, <1>8 DEF Crash
<1>9. CASE UNCHANGED vars
  BY <1>a, <1>9 DEF vars
<1> QED
  BY <1>3, <1>4, <1>5, <1>6, <1>7, <1>8, <1>9 DEF Next

-----------------------------------------------------------------------------
(* The theorems.                                                           *)

(* The invariant holds at first. *)
LEMMA AuditInit == Init => AuditInv
<1> SUFFICES ASSUME Init PROVE AuditInv
  OBVIOUS
<1>0. MaxEvents \in Nat /\ MaxFailures \in Nat /\ MaxCrashes \in Nat /\ <<>> \in Seq(Chunks) /\ Len(<<>>) = 0
  BY AuditAssumption DEF AuditAssumption
<1> USE DEF Init
<1>1. AuditTypeOK
  <2>1. buffer \in [Instances -> Seq(Chunks)] /\ file \in Seq(Chunks) /\ onDisk \in 0..Len(file)
    BY <1>0
  <2>2. at \in [Threads -> {"idle", "read", "written", "flushed"}] /\ event \in [Threads -> Events \cup {0}]
        /\ prev \in [Threads -> Events \cup {Genesis}]
    OBVIOUS
  <2>3. begun \in 0..MaxEvents /\ long \subseteq 1..begun /\ returned \subseteq 1..begun
        /\ secured \subseteq returned /\ failures \in 0..MaxFailures /\ crashes \in 0..MaxCrashes
        /\ hostCrashes \in 0..crashes
    BY <1>0
  <2>4. overlap \in BOOLEAN
    OBVIOUS
  <2> HIDE DEF Init
  <2> QED
    BY <2>1, <2>2, <2>3, <2>4 DEF AuditTypeOK
<1>2. Locked /\ Begun /\ OnItsWay
  BY <1>0 DEF Locked, Begun, OnItsWay, Active
<1>3. FewHeads
  <2>1. Heads(file) = {}
    BY <1>0 DEF Heads
  <2>2. Cardinality(Heads(file)) = 0
    BY <2>1, FS_EmptySet
  <2> QED
    BY <2>1, <2>2 DEF FewHeads
<1>4. Smooth
  BY <1>0 DEF Smooth, Active
<1> QED
  BY <1>1, <1>2, <1>3, <1>4 DEF AuditInv

(* Every step keeps it. *)
LEMMA AuditStep == AuditInv /\ [Next]_vars => AuditInv'
<1> SUFFICES ASSUME AuditInv, [Next]_vars PROVE AuditInv'
  OBVIOUS
<1>0. AuditTypeOK /\ Locked /\ Begun /\ OnItsWay /\ FewHeads /\ (Rough \/ Smooth)
  BY DEF AuditInv
<1>1. AuditTypeOK'
  BY <1>0, TypeStep
<1>2. Locked' /\ Begun'
  BY <1>0, LockedStep, BegunStep
<1>3. OnItsWay' /\ FewHeads'
  BY <1>0, <1>1, OnItsWayStep, FewHeadsStep
<1>4. Rough' \/ Smooth'
  <2> SUFFICES ASSUME ~Rough' PROVE Smooth'
    OBVIOUS
  <2>1. ~Rough
    BY <1>0, <1>1, RoughStays
  <2> QED
    BY <1>0, <1>1, <2>1, SmoothStep
<1> QED
  BY <1>1, <1>2, <1>3, <1>4 DEF AuditInv

(* So it holds in every reachable state. *)
LEMMA AuditInvariant == Spec => []AuditInv
BY AuditInit, AuditStep, PTL DEF Spec

(* The variables of the log have their types: events are counted, what is  *)
(* on stable storage is part of the file, secured events have returned.    *)
THEOREM AuditTypeCorrect == Spec => []AuditTypeOK
<1>1. AuditInv => AuditTypeOK
  BY DEF AuditInv
<1> QED
  BY <1>1, AuditInvariant, PTL

(* What append returned is not lost: a record whose fsync succeeded is in  *)
(* the file for ever, and the others until the host crashes, for any       *)
(* number of processes and threads and whatever fails.                     *)
THEOREM ReturnedIsKeptHolds == Spec => []ReturnedIsKept
<1>1. AuditInv => ReturnedIsKept
  BY WayIsWritten DEF AuditInv
<1> QED
  BY <1>1, AuditInvariant, PTL

(* Failed flushes and crashes make at most one safely stored record        *)
(* unreadable each, whoever writes the file.                               *)
THEOREM DamageBoundedHolds == Spec => []DamageBounded
<1>1. AuditInv => DamageBounded
  BY FewUnreadable DEF AuditInv
<1> QED
  BY <1>1, AuditInvariant, PTL

(* As long as no write fails, no record is cut or longer than the window   *)
(* and no two objects are in append at once, the log implements the        *)
(* append-only chain.                                                      *)
THEOREM AuditImplementsChain == Spec => ImplementsChain
<1>1. Init => Chain!ChainInit
  BY DEF Init, Chain!ChainInit, logBar
<1>2. AuditInv /\ AuditInv' /\ [Next]_vars => [Rough' \/ [Chain!ChainNext]_(Chain!chainVars)]_vars
  <2> SUFFICES ASSUME AuditInv, AuditInv', [Next]_vars, ~Rough'
               PROVE  [Chain!ChainNext]_(Chain!chainVars)
    OBVIOUS
  <2>0. AuditTypeOK /\ Locked /\ Begun /\ FewHeads /\ (Rough \/ Smooth) /\ AuditTypeOK'
    BY DEF AuditInv
  <2>1. ~Rough
    BY <2>0, RoughStays
  <2> QED
    BY <2>0, <2>1, ChainStep
<1> QED
  BY <1>1, <1>2, AuditInvariant, PTL DEF Spec, ImplementsChain

=============================================================================
