-------------------------- MODULE CommandStreamProofs --------------------------
(***************************************************************************)
(* Proofs about CommandStream, for any textures, targets, attachments and  *)
(* number of calls.                                                        *)
(*                                                                         *)
(* A call is a composition of the stream's functions. What each function   *)
(* preserves is Ok(s, c): the inductive invariant as it reads for a stream *)
(* s in the middle of a call c.                                            *)
(*                                                                         *)
(* At the end, about UpscaleGL and UpscaleImports, which share no state    *)
(* with it.                                                                *)
(***************************************************************************)
EXTENDS CommandStream, UpscaleImports, FiniteSetTheorems, TLAPS

(* A call: its number, the serials of the textures with its own marks, the *)
(* serial of the command buffer that took over nothing so far (0: there is *)
(* none), and the last fence.                                              *)
CallState == {c \in [n : Calls, marks : [Textures -> Nat], k : Nat, f : [serial : Nat, at : Calls]] :
                c.f.at <= c.n}

Ok(s, c) ==
  /\ s \in StreamState
  /\ Good(s, c.n, c.marks, c.f)
  /\ c.k <= Recording(s)
  /\ Recording(s) = c.k => OwnWork(s, c.marks)
  /\ NoneLate(s, c.f, Recording(s) = c.k)

-----------------------------------------------------------------------------
(***************************************************************************)
(* The steps the functions are made of.                                    *)
(***************************************************************************)

(* r is s with other encoders, and less that waits.                        *)
Edited(s, r) ==
  /\ r.serial = s.serial /\ r.next = s.next /\ r.last = s.last
  /\ r.clearTarget = s.clearTarget /\ r.discardTarget = s.discardTarget
  /\ r.prelude = s.prelude /\ r.body = s.body
  /\ r.clear \in {s.clear, NoTimes} /\ r.load \in {s.load, NoTimes} /\ r.mips \in {s.mips, NoTimes}
  /\ r.store = NoTimes \/ (r.store = s.store /\ r.render = s.render)
  /\ s.blocked => r.blocked
  /\ ~(r.blit /\ r.compute)
  /\ r.render # NoTarget => ~r.blit /\ ~r.compute
  /\ r.serial = 0 => r.render = NoTarget /\ ~r.blit /\ ~r.compute
  /\ AnyOf(r.clear) => r.render # r.clearTarget

LEMMA EditOk ==
  ASSUME NEW s, NEW r, NEW c \in CallState, Ok(s, c), r \in StreamState, Edited(s, r)
  PROVE  Ok(r, c)
<1>1. \A t \in Textures : NoTimes[t] = 0
  BY DEF NoTimes
<1>2. Recording(r) = Recording(s)
  BY DEF Recording, Edited
<1>3. \A t \in Textures : /\ r.clear[t] # 0 => r.clear[t] = s.clear[t]
                          /\ r.load[t] # 0 => r.load[t] = s.load[t]
                          /\ r.mips[t] # 0 => r.mips[t] = s.mips[t]
                          /\ r.store[t] # 0 => r.store[t] = s.store[t] /\ r.render = s.render
                          /\ r.prelude[t] = s.prelude[t] /\ r.body[t] = s.body[t]
  BY <1>1 DEF Edited
<1>4. AnyOf(r.clear) => AnyOf(s.clear)
  BY <1>3 DEF AnyOf
<1>5. Serials(r, c.f)
  BY DEF Serials, Edited, Ok, Good
<1>6. Past(r, c.n)
  <2>1. c.n \in Nat
    BY DEF CallState, Calls
  <2> SUFFICES ASSUME NEW t \in Textures
               PROVE  /\ r.clear[t] <= c.n /\ r.store[t] <= c.n /\ r.load[t] <= c.n
                      /\ r.mips[t] <= c.n /\ r.prelude[t] <= c.n
                      /\ \A i \in DOMAIN r.body[t] : r.body[t][i].at <= c.n
    BY DEF Past
  <2>2. /\ s.clear[t] <= c.n /\ s.store[t] <= c.n /\ s.load[t] <= c.n
        /\ s.mips[t] <= c.n /\ s.prelude[t] <= c.n
        /\ \A i \in DOMAIN s.body[t] : s.body[t][i].at <= c.n
    BY DEF Ok, Good, Past
  <2>3. /\ r.clear[t] = 0 \/ r.clear[t] = s.clear[t]
        /\ r.store[t] = 0 \/ r.store[t] = s.store[t]
        /\ r.load[t] = 0 \/ r.load[t] = s.load[t]
        /\ r.mips[t] = 0 \/ r.mips[t] = s.mips[t]
        /\ r.prelude[t] = s.prelude[t] /\ r.body[t] = s.body[t]
    BY <1>3
  <2> QED BY <2>1, <2>2, <2>3
<1>7. Encoders(r)
  <2>1. s.mips = NoTimes => r.mips = NoTimes
    BY DEF Edited
  <2> QED BY <2>1 DEF Encoders, Edited, Ok, Good
<1>8. PendingLast(r)
  BY <1>3, <1>4 DEF PendingLast, Edited, Ok, Good
<1>9. SamplesKept(r)
  BY <1>3 DEF SamplesKept, Ok, Good
<1>10. SamplesMarked(r, c.marks)
  BY <1>3 DEF SamplesMarked, Edited, Ok, Good
<1>11. CallsInOrder(r)
  BY <1>3 DEF CallsInOrder, Swapped, Ok, Good
<1>12. WaitsLater(r, c.marks)
  BY <1>3 DEF WaitsLater, Edited, Ok, Good
<1>13. Recording(r) = c.k => OwnWork(r, c.marks)
  BY <1>2, <1>3, <1>4 DEF OwnWork, Edited, Ok
<1>14. NoneLate(r, c.f, Recording(r) = c.k)
  <2>1. \A t \in Textures : /\ r.mips[t] = 0 \/ r.mips[t] = s.mips[t]
                            /\ r.clear[t] = 0 \/ r.clear[t] = s.clear[t]
    BY <1>3
  <2> QED BY <1>2, <1>3, <2>1 DEF NoneLate, Ok
<1> QED BY <1>2, <1>5, <1>6, <1>7, <1>8, <1>9, <1>10, <1>11, <1>12, <1>13, <1>14 DEF Ok, Good

(* A command buffer begins.                                                *)
LEMMA OpenFields ==
  ASSUME NEW s \in StreamState
  PROVE  LET r == Open(s) IN
         /\ r \in StreamState
         /\ r.serial = Recording(s) /\ (s.serial # 0 => r.next = s.next) /\ (s.serial = 0 => r.next = s.next + 1)
         /\ r.last = s.last /\ r.render = s.render /\ r.blit = s.blit /\ r.compute = s.compute
         /\ r.draws = s.draws /\ r.recorded = s.recorded
         /\ r.clearTarget = s.clearTarget /\ r.clear = s.clear /\ r.store = s.store
         /\ r.discardTarget = s.discardTarget /\ r.load = s.load
         /\ r.flushDeferred = s.flushDeferred /\ r.blocked = s.blocked
         /\ r.mips = s.mips /\ r.prelude = s.prelude /\ r.body = s.body
<1>1. CASE s.serial # 0
  BY <1>1 DEF Open, Recording
<1>2. CASE s.serial = 0
  <2>1. s.next \in Nat /\ s.next + 1 \in Nat
    BY DEF StreamState
  <2>2. [s EXCEPT !.serial = s.next, !.next = s.next + 1] \in StreamState
    BY <2>1 DEF StreamState
  <2> QED BY <1>2, <2>2 DEF Open, Recording, StreamState
<1> QED BY <1>1, <1>2

LEMMA OpenOk ==
  ASSUME NEW s, NEW c \in CallState, Ok(s, c)
  PROVE  Ok(Open(s), c) /\ Open(s).serial # 0 /\ Recording(Open(s)) = Recording(s)
<1> DEFINE r == Open(s)
<1>1. s \in StreamState /\ s.serial \in Nat /\ s.next \in Nat /\ s.last \in Nat /\ c.f.serial \in Nat
  BY DEF Ok, StreamState, CallState
<1>2. /\ r \in StreamState
      /\ r.serial = Recording(s) /\ (s.serial # 0 => r.next = s.next) /\ (s.serial = 0 => r.next = s.next + 1)
      /\ r.last = s.last /\ r.render = s.render /\ r.blit = s.blit /\ r.compute = s.compute
      /\ r.clearTarget = s.clearTarget /\ r.clear = s.clear /\ r.store = s.store
      /\ r.discardTarget = s.discardTarget /\ r.load = s.load
      /\ r.blocked = s.blocked /\ r.mips = s.mips /\ r.prelude = s.prelude /\ r.body = s.body
  BY <1>1, OpenFields
<1> HIDE DEF r
<1>3. s.serial < s.next /\ s.last < s.next /\ c.f.serial < s.next
  BY DEF Ok, Good, Serials
<1>4. r.serial # 0 /\ Recording(r) = Recording(s) /\ (s.serial # 0 => r.serial = s.serial)
  BY <1>1, <1>2, <1>3 DEF Recording
<1>5. Serials(r, c.f)
  BY <1>1, <1>2, <1>3 DEF Serials, Recording
<1>6. Past(r, c.n)
  BY <1>2 DEF Past, Ok, Good
<1>7. Encoders(r) /\ (s.serial = 0 => s.render = NoTarget /\ \A t \in Textures : s.body[t] = <<>>)
  BY <1>2, <1>4 DEF Encoders, Ok, Good
<1>8. PendingLast(r)
  BY <1>2 DEF PendingLast, Ok, Good
<1>9. SamplesKept(r)
  BY <1>2 DEF SamplesKept, Ok, Good
<1>10. SamplesMarked(r, c.marks)
  BY <1>2, <1>4, <1>7 DEF SamplesMarked, Ok, Good
<1>11. CallsInOrder(r)
  BY <1>2 DEF CallsInOrder, Swapped, Ok, Good
<1>12. WaitsLater(r, c.marks)
  BY <1>2, <1>4, <1>7 DEF WaitsLater, Ok, Good
<1>13. Recording(r) = c.k => OwnWork(r, c.marks)
  BY <1>2, <1>4 DEF OwnWork, Ok
<1>14. NoneLate(r, c.f, Recording(r) = c.k)
  BY <1>2, <1>4 DEF NoneLate, Ok
<1>15. c.k <= Recording(r)
  BY <1>4 DEF Ok
<1> QED BY <1>2, <1>4, <1>5, <1>6, <1>8, <1>7, <1>9, <1>10, <1>11, <1>12, <1>13, <1>14, <1>15 DEF Ok, Good, r

(* The work of calls joins the command buffer, where nothing is in its way.*)
Joins(s, c, use, times) ==
  \A t \in Textures : times[t] # 0 =>
    /\ times[t] <= c.n /\ s.serial # 0
    /\ use = "discard" \/ s.clear[t] = 0
    /\ s.prelude[t] <= times[t]
    /\ \/ use \in {"discard", "mipmaps"}
       \/ \A i \in DOMAIN s.body[t] :
            \/ s.body[t][i].at <= times[t]
            \/ s.body[t][i].use = "discard" /\ use \in {"draw", "clear", "upload"}
    /\ use = "sample" => c.marks[t] = s.serial
    /\ Recording(s) = c.k => s.blocked \/ c.marks[t] = c.k
    /\ c.f.serial < Recording(s) =>
         /\ use \in {"discard", "clear", "mipmaps"} \/ c.f.at <= times[t]
         /\ Recording(s) = c.k => use = "discard" \/ c.f.at <= times[t]

(* r is s but for what the command buffer holds.                           *)
SameBut(s, r) ==
  /\ r.serial = s.serial /\ r.next = s.next /\ r.last = s.last
  /\ r.render = s.render /\ r.blit = s.blit /\ r.compute = s.compute
  /\ r.draws = s.draws /\ r.recorded = s.recorded
  /\ r.clearTarget = s.clearTarget /\ r.clear = s.clear /\ r.store = s.store
  /\ r.discardTarget = s.discardTarget /\ r.load = s.load
  /\ r.flushDeferred = s.flushDeferred /\ r.blocked = s.blocked
  /\ r.mips = s.mips /\ r.prelude = s.prelude

LEMMA EncodeFields ==
  ASSUME NEW s \in StreamState, NEW use \in Uses, NEW times \in Times
  PROVE  LET r == Encode(s, use, times) IN
         /\ r \in StreamState /\ SameBut(s, r)
         /\ \A t \in Textures :
              r.body[t] = IF times[t] = 0 THEN s.body[t]
                          ELSE Append(s.body[t], [use |-> use, at |-> times[t]])
<1> DEFINE b == [t \in Textures |-> IF times[t] = 0 THEN s.body[t]
                                    ELSE Append(s.body[t], [use |-> use, at |-> times[t]])]
<1>1. b \in [Textures -> Seq(Command)]
  <2> SUFFICES ASSUME NEW t \in Textures PROVE b[t] \in Seq(Command)
    OBVIOUS
  <2>1. s.body[t] \in Seq(Command) /\ times[t] \in Calls
    BY DEF StreamState, Times
  <2>2. [use |-> use, at |-> times[t]] \in Command
    BY <2>1 DEF Command
  <2> QED BY <2>1, <2>2
<1>2. \A t \in Textures : b[t] = IF times[t] = 0 THEN s.body[t]
                                 ELSE Append(s.body[t], [use |-> use, at |-> times[t]])
  OBVIOUS
<1>3. Encode(s, use, times) = [s EXCEPT !.body = b]
  BY DEF Encode
<1> HIDE DEF b
<1>4. [s EXCEPT !.body = b] \in StreamState /\ SameBut(s, [s EXCEPT !.body = b]) /\ [s EXCEPT !.body = b].body = b
  BY <1>1 DEF StreamState, SameBut
<1> QED BY <1>2, <1>3, <1>4

(* What is appended to a sequence.                                         *)
LEMMA Appended ==
  ASSUME NEW b \in Seq(Command), NEW e \in Command, NEW a, a = Append(b, e)
  PROVE  /\ a # <<>> /\ DOMAIN a = 1 .. Len(b) + 1 /\ DOMAIN b = 1 .. Len(b) /\ Len(b) \in Nat
         /\ \A i \in DOMAIN b : i \in DOMAIN a /\ a[i] = b[i]
         /\ a[Len(b) + 1] = e
         /\ \A i \in DOMAIN a : i \in DOMAIN b \/ i = Len(b) + 1
         /\ \A i \in DOMAIN a : a[i] \in Command
OBVIOUS

LEMMA EncodeOk ==
  ASSUME NEW s, NEW c \in CallState, NEW use \in Uses, NEW times \in Times,
         Ok(s, c), Joins(s, c, use, times)
  PROVE  Ok(Encode(s, use, times), c)
<1> DEFINE r == Encode(s, use, times)
<1>1. s \in StreamState
  BY DEF Ok
<1>2. /\ r \in StreamState /\ SameBut(s, r)
      /\ \A t \in Textures :
           r.body[t] = IF times[t] = 0 THEN s.body[t]
                       ELSE Append(s.body[t], [use |-> use, at |-> times[t]])
  BY <1>1, EncodeFields
<1> HIDE DEF r
(* An entry of r is one of s, or the new one.                              *)
<1>3. ASSUME NEW t \in Textures
      PROVE  /\ times[t] = 0 => r.body[t] = s.body[t]
             /\ \A i \in DOMAIN r.body[t] :
                  \/ i \in DOMAIN s.body[t] /\ r.body[t][i] = s.body[t][i]
                  \/ /\ times[t] # 0 /\ r.body[t][i].use = use /\ r.body[t][i].at = times[t]
                     /\ i \notin DOMAIN s.body[t] /\ \A j \in DOMAIN r.body[t] : j <= i
             /\ \A i \in DOMAIN r.body[t] : i \in Nat
             /\ times[t] \in Nat
  <2>1. s.body[t] \in Seq(Command) /\ times[t] \in Calls
    BY <1>1 DEF StreamState, Times
  <2>2. [use |-> use, at |-> times[t]] \in Command
    BY <2>1 DEF Command
  <2>3. CASE times[t] = 0
    <3>1. r.body[t] = s.body[t]
      BY <1>2, <2>3
    <3>2. \A i \in DOMAIN s.body[t] : i \in Nat
      BY <2>1
    <3> QED BY <2>1, <2>3, <3>1, <3>2 DEF Calls
  <2>4. CASE times[t] # 0
    <3>1. r.body[t] = Append(s.body[t], [use |-> use, at |-> times[t]])
      BY <1>2, <2>4
    <3>2. /\ DOMAIN r.body[t] = 1 .. Len(s.body[t]) + 1 /\ DOMAIN s.body[t] = 1 .. Len(s.body[t])
          /\ Len(s.body[t]) \in Nat
          /\ \A i \in DOMAIN s.body[t] : r.body[t][i] = s.body[t][i]
          /\ r.body[t][Len(s.body[t]) + 1] = [use |-> use, at |-> times[t]]
      BY <2>1, <2>2, <3>1, Appended
    <3> HIDE DEF r
    <3> QED BY <2>1, <2>4, <3>2 DEF Calls
  <2> QED BY <2>3, <2>4
<1>4. Recording(r) = Recording(s) /\ r.clear = s.clear /\ r.prelude = s.prelude /\ r.serial = s.serial
  BY <1>2 DEF Recording, SameBut
<1>5. ASSUME NEW t \in Textures, times[t] # 0
      PROVE  /\ times[t] <= c.n /\ s.serial # 0
             /\ use = "discard" \/ s.clear[t] = 0
             /\ s.prelude[t] <= times[t]
             /\ use = "sample" => c.marks[t] = s.serial
             /\ Recording(s) = c.k => s.blocked \/ c.marks[t] = c.k
             /\ c.f.serial < Recording(s) =>
                  /\ use \in {"discard", "clear", "mipmaps"} \/ c.f.at <= times[t]
                  /\ Recording(s) = c.k => use = "discard" \/ c.f.at <= times[t]
  BY <1>5 DEF Joins
<1>6. Serials(r, c.f)
  BY <1>2 DEF Serials, SameBut, Ok, Good
<1>7. Past(r, c.n)
  <2> SUFFICES ASSUME NEW t \in Textures
               PROVE  /\ r.clear[t] <= c.n /\ r.store[t] <= c.n /\ r.load[t] <= c.n
                      /\ r.mips[t] <= c.n /\ r.prelude[t] <= c.n
                      /\ \A i \in DOMAIN r.body[t] : r.body[t][i].at <= c.n
    BY DEF Past
  <2>1. /\ s.clear[t] <= c.n /\ s.store[t] <= c.n /\ s.load[t] <= c.n
        /\ s.mips[t] <= c.n /\ s.prelude[t] <= c.n
        /\ \A i \in DOMAIN s.body[t] : s.body[t][i].at <= c.n
    BY DEF Ok, Good, Past
  <2>2. \A i \in DOMAIN r.body[t] : r.body[t][i].at <= c.n
    BY <1>3, <1>5, <2>1
  <2> QED BY <1>2, <2>1, <2>2 DEF SameBut
<1>8. Encoders(r)
  <2>1. s.serial = 0 => \A t \in Textures : r.body[t] = s.body[t]
    BY <1>3, <1>5
  <2> QED BY <1>2, <2>1 DEF Encoders, SameBut, Ok, Good
<1>9. PendingLast(r)
  <2>1. ASSUME NEW t \in Textures, r.clear[t] # 0, NEW i \in DOMAIN r.body[t], r.body[t][i].use # "discard"
        PROVE  r.body[t][i].at <= r.clear[t]
    BY <1>3, <1>4, <1>5, <2>1 DEF PendingLast, Ok, Good
  <2> QED BY <1>2, <2>1 DEF PendingLast, SameBut, Ok, Good
<1>10. SamplesKept(r)
  <2> SUFFICES ASSUME NEW t \in Textures, NEW i \in DOMAIN r.body[t], r.body[t][i].use = "sample"
               PROVE  r.prelude[t] <= r.body[t][i].at
    BY DEF SamplesKept
  <2> QED BY <1>3, <1>4, <1>5 DEF SamplesKept, Ok, Good
<1>11. SamplesMarked(r, c.marks)
  <2> SUFFICES ASSUME NEW t \in Textures, NEW i \in DOMAIN r.body[t], r.body[t][i].use = "sample"
               PROVE  c.marks[t] = r.serial
    BY DEF SamplesMarked
  <2> QED BY <1>3, <1>4, <1>5 DEF SamplesMarked, Ok, Good
<1>12. CallsInOrder(r)
  <2> SUFFICES ASSUME NEW t \in Textures, NEW i \in DOMAIN r.body[t], NEW j \in DOMAIN r.body[t],
                      i < j, r.body[t][i].at > r.body[t][j].at
               PROVE  \/ r.body[t][j].use \in {"mipmaps", "discard"}
                      \/ r.body[t][i].use = "discard" /\ r.body[t][j].use \notin Unmarked \cup {"sample"}
    BY DEF CallsInOrder, Swapped
  <2>1. i \in DOMAIN s.body[t] /\ r.body[t][i] = s.body[t][i]
    BY <1>3
  <2>2. CASE j \in DOMAIN s.body[t] /\ r.body[t][j] = s.body[t][j]
    BY <2>1, <2>2 DEF CallsInOrder, Swapped, Ok, Good
  <2>3. CASE times[t] # 0 /\ r.body[t][j].use = use /\ r.body[t][j].at = times[t]
    <3>1. \/ use \in {"discard", "mipmaps"}
          \/ s.body[t][i].at <= times[t]
          \/ s.body[t][i].use = "discard" /\ use \in {"draw", "clear", "upload"}
      BY <2>1, <2>3 DEF Joins
    <3>2. s.body[t][i].at \in Nat /\ times[t] \in Nat
      <4>1. s.body[t][i] \in Command
        BY <1>1, <2>1 DEF StreamState
      <4> QED BY <1>3, <4>1 DEF Command, Calls
    <3> QED BY <2>1, <2>3, <3>1, <3>2 DEF Unmarked
  <2> QED BY <1>3, <2>2, <2>3
<1>13. WaitsLater(r, c.marks)
  BY <1>2 DEF WaitsLater, SameBut, Ok, Good
<1>14. ASSUME Recording(r) = c.k
       PROVE  OwnWork(r, c.marks)
  <2>1. OwnWork(s, c.marks)
    BY <1>4, <1>14 DEF Ok
  <2>2. ASSUME NEW t \in Textures
        PROVE  /\ r.body[t] # <<>> => r.blocked \/ c.marks[t] = Recording(r)
               /\ \A i \in DOMAIN r.body[t] : r.prelude[t] <= r.body[t][i].at
    <3>1. s.body[t] # <<>> => s.blocked \/ c.marks[t] = Recording(s)
      BY <2>1 DEF OwnWork
    <3>2. \A i \in DOMAIN s.body[t] : s.prelude[t] <= s.body[t][i].at
      BY <2>1 DEF OwnWork
    <3>3. r.blocked = s.blocked
      BY <1>2 DEF SameBut
    <3>4. r.body[t] # <<>> => r.blocked \/ c.marks[t] = Recording(r)
      BY <1>3, <1>4, <1>5, <1>14, <3>1, <3>3
    <3>5. \A i \in DOMAIN r.body[t] : r.prelude[t] <= r.body[t][i].at
      BY <1>3, <1>4, <1>5, <3>2
    <3> QED BY <3>4, <3>5
  <2>3. AnyOf(r.clear) => \A t \in Attachments[r.clearTarget] : c.marks[t] = Recording(r)
    BY <1>2, <1>4, <2>1 DEF OwnWork, SameBut
  <2> QED BY <2>2, <2>3 DEF OwnWork
<1>15. NoneLate(r, c.f, Recording(r) = c.k)
  <2> SUFFICES ASSUME c.f.serial < Recording(r), NEW t \in Textures
               PROVE  /\ ~(0 < r.mips[t] /\ r.mips[t] < c.f.at) /\ ~(0 < r.prelude[t] /\ r.prelude[t] < c.f.at)
                      /\ Recording(r) = c.k => ~(0 < r.clear[t] /\ r.clear[t] < c.f.at)
                      /\ \A i \in DOMAIN r.body[t] :
                           r.body[t][i].use \notin (IF Recording(r) = c.k THEN {"discard"} ELSE {"discard", "clear", "mipmaps"})
                             => ~(0 < r.body[t][i].at /\ r.body[t][i].at < c.f.at)
    BY DEF NoneLate
  <2>1. /\ ~(0 < s.mips[t] /\ s.mips[t] < c.f.at) /\ ~(0 < s.prelude[t] /\ s.prelude[t] < c.f.at)
        /\ Recording(s) = c.k => ~(0 < s.clear[t] /\ s.clear[t] < c.f.at)
        /\ \A i \in DOMAIN s.body[t] :
             s.body[t][i].use \notin (IF Recording(s) = c.k THEN {"discard"} ELSE {"discard", "clear", "mipmaps"})
               => ~(0 < s.body[t][i].at /\ s.body[t][i].at < c.f.at)
    BY <1>4 DEF NoneLate, Ok
  <2>2. ASSUME NEW i \in DOMAIN r.body[t],
               r.body[t][i].use \notin (IF Recording(r) = c.k THEN {"discard"} ELSE {"discard", "clear", "mipmaps"})
        PROVE  ~(0 < r.body[t][i].at /\ r.body[t][i].at < c.f.at)
    <3>1. CASE i \in DOMAIN s.body[t] /\ r.body[t][i] = s.body[t][i]
      BY <1>4, <2>1, <2>2, <3>1
    <3>2. CASE times[t] # 0 /\ r.body[t][i].use = use /\ r.body[t][i].at = times[t]
      <4>1. c.f.at <= times[t]
        BY <1>4, <1>5, <2>2, <3>2
      <4>2. c.f.at \in Nat /\ times[t] \in Nat
        BY <1>3 DEF CallState, Calls
      <4> QED BY <3>2, <4>1, <4>2
    <3> QED BY <1>3, <3>1, <3>2
  <2> QED BY <1>2, <1>4, <2>1, <2>2 DEF SameBut
<1> QED BY <1>2, <1>4, <1>6, <1>7, <1>8, <1>9, <1>10, <1>11, <1>12, <1>13, <1>14, <1>15 DEF Ok, Good, r

(* Nothing joins where no texture is named.                                *)
LEMMA NoTimesAreTimes ==
  ASSUME StreamAssumption
  PROVE  /\ NoTimes \in Times
         /\ \A t \in Textures : NoTimes[t] = 0
         /\ \A times \in Times : ~AnyOf(times) => times = NoTimes
         /\ ~AnyOf(NoTimes)
BY DEF NoTimes, Times, Calls, AnyOf, StreamAssumption

(* The encoder in progress ends, and only that.                            *)
Ended(s, r) ==
  /\ r \in StreamState
  /\ r.serial = s.serial /\ r.next = s.next /\ r.last = s.last
  /\ r.render = NoTarget /\ ~r.blit /\ ~r.compute /\ r.store = NoTimes
  /\ r.draws = s.draws /\ r.recorded = s.recorded
  /\ r.clearTarget = s.clearTarget /\ r.clear = s.clear
  /\ r.discardTarget = s.discardTarget /\ r.load = s.load
  /\ r.flushDeferred = s.flushDeferred /\ r.blocked = s.blocked
  /\ r.mips = s.mips /\ r.prelude = s.prelude

LEMMA EndEncoderOk ==
  ASSUME StreamAssumption, NEW s, NEW c \in CallState, Ok(s, c)
  PROVE  Ok(EndEncoder(s), c) /\ Ended(s, EndEncoder(s))
<1> DEFINE x == [s EXCEPT !.render = NoTarget, !.blit = FALSE, !.compute = FALSE, !.store = NoTimes]
           times == IF s.render # NoTarget THEN s.store ELSE NoTimes
<1>1. s \in StreamState /\ NoTimes \in Times /\ s.store \in Times
  BY NoTimesAreTimes DEF Ok, StreamState
<1>2. /\ x \in StreamState
      /\ x.serial = s.serial /\ x.next = s.next /\ x.last = s.last
      /\ x.render = NoTarget /\ x.blit = FALSE /\ x.compute = FALSE /\ x.store = NoTimes
      /\ x.draws = s.draws /\ x.recorded = s.recorded
      /\ x.clearTarget = s.clearTarget /\ x.clear = s.clear
      /\ x.discardTarget = s.discardTarget /\ x.load = s.load
      /\ x.flushDeferred = s.flushDeferred /\ x.blocked = s.blocked
      /\ x.mips = s.mips /\ x.prelude = s.prelude /\ x.body = s.body
  BY <1>1 DEF StreamState
<1>3. times \in Times /\ \A t \in Textures : times[t] # 0 => s.render # NoTarget /\ times[t] = s.store[t]
  BY <1>1, NoTimesAreTimes
<1>4. EndEncoder(s) = Encode(x, "discard", times)
  BY DEF EndEncoder
<1> HIDE DEF x, times
<1>5. AnyOf(s.clear) => s.clearTarget # NoTarget
  BY DEF Ok, Good, PendingLast
<1>6. Edited(s, x)
  BY <1>2, <1>5 DEF Edited
<1>7. Ok(x, c)
  BY <1>2, <1>6, EditOk
<1>8. Joins(x, c, "discard", times)
  <2> SUFFICES ASSUME NEW t \in Textures, times[t] # 0
               PROVE  /\ times[t] <= c.n /\ x.serial # 0
                      /\ x.prelude[t] <= times[t]
                      /\ Recording(x) = c.k => x.blocked \/ c.marks[t] = c.k
    BY DEF Joins
  <2>1. times[t] = s.store[t] /\ s.store[t] # 0 /\ s.render # NoTarget
    BY <1>3
  <2>2. s.store[t] <= c.n
    BY DEF Ok, Good, Past
  <2>3. s.prelude[t] <= s.store[t] /\ c.marks[t] = s.serial
    BY <2>1 DEF Ok, Good, WaitsLater
  <2>4. s.serial # 0
    BY <2>1 DEF Ok, Good, Encoders
  <2> QED BY <1>2, <2>1, <2>2, <2>3, <2>4 DEF Recording
<1>9. "discard" \in Uses
  BY DEF Uses
<1>10. Ok(EndEncoder(s), c)
  BY <1>3, <1>4, <1>7, <1>8, <1>9, EncodeOk
<1>11. EndEncoder(s) \in StreamState /\ SameBut(x, EndEncoder(s))
  BY <1>2, <1>3, <1>4, <1>9, EncodeFields
<1> QED BY <1>2, <1>10, <1>11 DEF Ended, SameBut

(* What every function of the stream leaves of it: the textures that wait  *)
(* for a clear or for mipmaps do, or none does, and uploads may not run    *)
(* ahead of a command buffer that they could not run ahead of.             *)
Frame(s, r) ==
  /\ Recording(s) <= Recording(r)
  /\ Recording(r) = Recording(s) /\ s.blocked => r.blocked
  /\ r.clearTarget = s.clearTarget
  /\ r.clear \in {s.clear, NoTimes}
  /\ r.mips \in {s.mips, NoTimes}
  /\ r.prelude \in {s.prelude, NoTimes}

LEMMA RecordingIsNat ==
  ASSUME NEW s, NEW c \in CallState, Ok(s, c)
  PROVE  Recording(s) \in Nat /\ Recording(s) # 0 /\ c.k \in Nat /\ c.k <= Recording(s)
<1>1. s.serial \in Nat /\ s.next \in Nat /\ s.serial < s.next /\ c.k \in Nat /\ c.k <= Recording(s)
  BY DEF Ok, StreamState, CallState, Good, Serials
<1> QED BY <1>1 DEF Recording

LEMMA FrameGoesOn ==
  ASSUME NEW s, NEW r, NEW q, NEW c \in CallState, Ok(s, c), Ok(r, c), Ok(q, c), Frame(s, r), Frame(r, q)
  PROVE  Frame(s, q)
<1>1. Recording(s) \in Nat /\ Recording(r) \in Nat /\ Recording(q) \in Nat
  BY RecordingIsNat
<1> QED BY <1>1 DEF Frame

(* A command buffer and its prelude are committed.                         *)
LEMMA CommitOk ==
  ASSUME StreamAssumption, NEW s, NEW c \in CallState, Ok(s, c),
         s.render = NoTarget, ~s.blit, ~s.compute, s.mips = NoTimes
  PROVE  LET r == Commit(s) IN
         /\ Ok(r, c) /\ Frame(s, r)
         /\ r.serial = 0 /\ r.clear = s.clear /\ r.mips = NoTimes /\ r.flushDeferred = s.flushDeferred
         /\ r.blocked => s.serial = 0 /\ s.blocked
<1> DEFINE r == Commit(s)
           empty == [t \in Textures |-> <<>>]
<1>1. /\ s \in StreamState /\ s.serial \in Nat /\ s.next \in Nat /\ s.last \in Nat /\ c.f.serial \in Nat
      /\ NoTimes \in Times /\ empty \in [Textures -> Seq(Command)] /\ c.k \in Nat
  BY NoTimesAreTimes DEF Ok, StreamState, CallState
<1>2. s.serial < s.next /\ s.last < s.next /\ c.f.serial < s.next /\ c.k <= Recording(s)
  BY DEF Ok, Good, Serials
<1>3. /\ r \in StreamState
      /\ r.serial = 0 /\ r.next = s.next /\ r.last \in {s.last, s.serial}
      /\ r.render = s.render /\ r.blit = s.blit /\ r.compute = s.compute
      /\ r.clearTarget = s.clearTarget /\ r.clear = s.clear /\ r.store = s.store
      /\ r.discardTarget = s.discardTarget /\ r.load = s.load
      /\ r.flushDeferred = s.flushDeferred /\ r.mips = s.mips /\ r.prelude = NoTimes
      /\ IF s.serial = 0 THEN r.blocked = s.blocked /\ r.body = s.body
         ELSE r.blocked = FALSE /\ r.body = empty
  <2>1. CASE s.serial = 0
    <3>1. r = [s EXCEPT !.prelude = NoTimes]
      BY <2>1 DEF Commit
    <3> HIDE DEF empty, r
    <3> QED BY <1>1, <2>1, <3>1 DEF StreamState
  <2>2. CASE s.serial # 0
    <3>1. r = [s EXCEPT !.prelude = NoTimes, !.last = s.serial, !.serial = 0,
                        !.recorded = FALSE, !.blocked = FALSE, !.body = empty]
      BY <2>2 DEF Commit
    <3> HIDE DEF r, empty
    <3> QED BY <1>1, <2>2, <3>1 DEF StreamState
  <2> QED BY <2>1, <2>2
<1>4. s.serial = 0 => s.prelude = NoTimes /\ \A t \in Textures : s.body[t] = <<>>
  BY DEF Ok, Good, Encoders
<1>5. \A t \in Textures : r.body[t] = <<>> /\ r.prelude[t] = 0 /\ r.mips[t] = 0
  <2>1. \A t \in Textures : empty[t] = <<>>
    OBVIOUS
  <2> HIDE DEF r, empty
  <2> QED BY <1>3, <1>4, <2>1, NoTimesAreTimes
<1> HIDE DEF r, empty
<1>6. /\ Recording(r) = s.next /\ Recording(s) <= Recording(r)
      /\ Recording(r) = Recording(s) => s.serial = 0
  BY <1>1, <1>2, <1>3 DEF Recording
<1>7. Frame(s, r)
  BY <1>3, <1>6 DEF Frame
<1>8. DOMAIN <<>> = {}
  OBVIOUS
<1>9. Serials(r, c.f)
  BY <1>1, <1>2, <1>3 DEF Serials
<1>10. Past(r, c.n)
  <2>1. c.n \in Nat
    BY DEF CallState, Calls
  <2> QED BY <1>3, <1>5, <1>8, <2>1 DEF Past, Ok, Good
<1>11. Encoders(r)
  BY <1>3, <1>5 DEF Encoders
<1>12. PendingLast(r)
  BY <1>3, <1>5, <1>8 DEF PendingLast, Ok, Good
<1>13. SamplesKept(r) /\ SamplesMarked(r, c.marks) /\ CallsInOrder(r)
  BY <1>5, <1>8 DEF SamplesKept, SamplesMarked, CallsInOrder
<1>14. WaitsLater(r, c.marks)
  <2>1. \A t \in Textures : s.clear[t] \in Nat /\ s.load[t] \in Nat /\ s.store[t] = 0
    <3>1. \A t \in Textures : s.clear[t] \in Nat /\ s.load[t] \in Nat
      BY <1>1 DEF StreamState, Times, Calls
    <3>2. \A t \in Textures : s.store[t] = 0
      BY DEF WaitsLater, Ok, Good
    <3> QED BY <3>1, <3>2
  <2> QED BY <1>3, <1>5, <2>1 DEF WaitsLater, Ok, Good
<1>15. Recording(r) = c.k => OwnWork(r, c.marks)
  <2>1. ASSUME Recording(r) = c.k
        PROVE  s.serial = 0 /\ Recording(s) = c.k
    BY <1>1, <1>2, <1>6, <2>1 DEF Recording
  <2>2. Recording(r) = c.k => (AnyOf(s.clear) => \A t \in Attachments[s.clearTarget] : c.marks[t] = Recording(s))
    BY <2>1 DEF Ok, OwnWork
  <2> QED BY <1>3, <1>5, <1>8, <2>1, <2>2 DEF OwnWork
<1>16. NoneLate(r, c.f, Recording(r) = c.k)
  <2>1. ASSUME Recording(r) = c.k, NEW t \in Textures
        PROVE  ~(0 < r.clear[t] /\ r.clear[t] < c.f.at)
    <3>1. Recording(s) = c.k /\ c.f.serial < Recording(s)
      BY <1>1, <1>2, <1>6, <2>1 DEF Recording
    <3> QED BY <1>3, <3>1 DEF Ok, NoneLate
  <2> QED BY <1>5, <1>8, <2>1 DEF NoneLate
<1>17. c.k <= Recording(r)
  BY <1>1, <1>2, <1>6 DEF Recording
<1>18. Ok(r, c)
  BY <1>3, <1>9, <1>10, <1>11, <1>12, <1>13, <1>14, <1>15, <1>16, <1>17 DEF Ok, Good
<1> QED BY <1>3, <1>7, <1>18 DEF r

-----------------------------------------------------------------------------
(***************************************************************************)
(* Passes, and the clears and the mipmaps that wait for one.               *)
(***************************************************************************)

(* Uploads do not run ahead of a pass on g.                                *)
Marked(s, c, g) ==
  Recording(s) = c.k => s.blocked \/ \A t \in Attachments[g] : c.marks[t] = c.k

LEMMA MarkedGoesOn ==
  ASSUME NEW s, NEW r, NEW c \in CallState, NEW g, Ok(s, c), Ok(r, c), Frame(s, r), Marked(s, c, g)
  PROVE  Marked(r, c, g)
<1>1. Recording(s) \in Nat /\ Recording(r) \in Nat /\ c.k \in Nat /\ c.k <= Recording(s)
  BY RecordingIsNat
<1>2. Recording(r) = c.k => Recording(s) = c.k
  BY <1>1 DEF Frame
<1> QED BY <1>2 DEF Marked, Frame

LEMMA PendingMarked ==
  ASSUME NEW s, NEW c \in CallState, Ok(s, c), AnyOf(s.clear)
  PROVE  s.clearTarget \in Targets /\ Marked(s, c, s.clearTarget)
<1>1. s.clearTarget \in Targets
  BY DEF Ok, Good, PendingLast, StreamState
<1>2. Marked(s, c, s.clearTarget)
  BY DEF Marked, Ok, OwnWork
<1> QED BY <1>1, <1>2

(* The pass on g starts from s.                                            *)
Started(s, r, g) ==
  /\ r \in StreamState
  /\ r.render = g /\ ~r.blit /\ ~r.compute /\ r.serial # 0 /\ Recording(r) = Recording(s)
  /\ r.clearTarget = s.clearTarget
  /\ r.clear = (IF s.clearTarget = g THEN NoTimes ELSE s.clear)
  /\ r.flushDeferred = s.flushDeferred /\ r.blocked = s.blocked
  /\ r.mips = s.mips /\ r.prelude = s.prelude

LEMMA StartPassOk ==
  ASSUME StreamAssumption, NEW s, NEW c \in CallState, NEW g \in Targets, Ok(s, c), Marked(s, c, g)
  PROVE  Ok(StartPass(s, g), c) /\ Started(s, StartPass(s, g), g)
<1> DEFINE ended == EndEncoder(s)
           open == Open(ended)
           clears == IF s.clearTarget = g THEN s.clear ELSE NoTimes
           drops == [t \in Textures |-> IF s.discardTarget = g /\ clears[t] = 0 THEN s.load[t] ELSE 0]
           left == IF s.clearTarget = g THEN NoTimes ELSE s.clear
           pass == [open EXCEPT !.render = g, !.draws = FALSE, !.load = NoTimes, !.store = NoTimes,
                                !.clear = left]
           dropped == Encode(pass, "discard", drops)
<1>1. StartPass(s, g) = Encode(dropped, "clear", clears)
  BY DEF StartPass
<1>2. /\ s \in StreamState /\ NoTimes \in Times /\ s.load \in Times /\ s.clear \in Times
      /\ \A t \in Textures : NoTimes[t] = 0
  BY NoTimesAreTimes DEF Ok, StreamState
<1>3. clears \in Times /\ left \in Times
  BY <1>2
<1>4. \A t \in Textures : clears[t] # 0 => s.clearTarget = g /\ clears[t] = s.clear[t]
  BY <1>2
<1>5. /\ drops \in Times
      /\ \A t \in Textures : drops[t] # 0 => s.discardTarget = g /\ drops[t] = s.load[t] /\ clears[t] = 0
  <2> HIDE DEF clears
  <2>1. 0 \in Calls
    BY DEF StreamAssumption, Calls
  <2> QED BY <1>2, <2>1 DEF Times
<1>6. Ok(ended, c) /\ Ended(s, ended)
  BY EndEncoderOk
<1> HIDE DEF ended, clears, drops
<1>7. Ok(open, c) /\ open.serial # 0 /\ Recording(open) = Recording(ended)
  BY <1>6, OpenOk
<1>8. /\ open \in StreamState
      /\ open.last = ended.last /\ open.render = ended.render /\ open.blit = ended.blit
      /\ open.compute = ended.compute
      /\ open.clearTarget = ended.clearTarget /\ open.clear = ended.clear /\ open.store = ended.store
      /\ open.discardTarget = ended.discardTarget /\ open.load = ended.load
      /\ open.flushDeferred = ended.flushDeferred /\ open.blocked = ended.blocked
      /\ open.mips = ended.mips /\ open.prelude = ended.prelude /\ open.body = ended.body
  BY <1>6, OpenFields DEF Ended
<1> HIDE DEF open
<1>9. /\ pass \in StreamState
      /\ pass.serial = open.serial /\ pass.next = open.next /\ pass.last = open.last
      /\ pass.render = g /\ pass.blit = open.blit /\ pass.compute = open.compute
      /\ pass.clearTarget = open.clearTarget /\ pass.clear = left /\ pass.store = NoTimes
      /\ pass.discardTarget = open.discardTarget /\ pass.load = NoTimes
      /\ pass.flushDeferred = open.flushDeferred /\ pass.blocked = open.blocked
      /\ pass.mips = open.mips /\ pass.prelude = open.prelude /\ pass.body = open.body
  <2> HIDE DEF left
  <2> QED BY <1>2, <1>3, <1>8 DEF StreamState
<1> HIDE DEF pass
<1>10. Recording(pass) = Recording(s) /\ pass.serial # 0 /\ Recording(ended) = Recording(s)
  BY <1>6, <1>7, <1>9 DEF Recording, Ended
<1>11. Edited(open, pass)
  <2>1. AnyOf(left) => g # s.clearTarget
    BY <1>2 DEF AnyOf
  <2>2. left \in {open.clear, NoTimes}
    BY <1>6, <1>8 DEF Ended
  <2> HIDE DEF left
  <2> QED BY <1>6, <1>7, <1>8, <1>9, <2>1, <2>2 DEF Edited, Ended
<1>12. Ok(pass, c)
  BY <1>7, <1>9, <1>11, EditOk
<1>13. Joins(pass, c, "discard", drops)
  <2> SUFFICES ASSUME NEW t \in Textures, drops[t] # 0
               PROVE  /\ drops[t] <= c.n /\ pass.serial # 0
                      /\ pass.prelude[t] <= drops[t]
                      /\ Recording(pass) = c.k => pass.blocked \/ c.marks[t] = c.k
    BY DEF Joins
  <2>1. drops[t] = s.load[t] /\ s.discardTarget = g
    BY <1>5
  <2>2. s.load[t] <= c.n
    BY DEF Ok, Good, Past
  <2>3. s.prelude[t] <= s.load[t] /\ t \in Attachments[g]
    BY <2>1 DEF Ok, Good, WaitsLater
  <2>4. Recording(pass) = c.k => s.blocked \/ c.marks[t] = c.k
    BY <1>10, <2>3 DEF Marked
  <2>5. pass.blocked = s.blocked /\ pass.prelude = s.prelude
    BY <1>6, <1>8, <1>9 DEF Ended
  <2> QED BY <1>10, <2>1, <2>2, <2>3, <2>4, <2>5
<1>14. "discard" \in Uses /\ "clear" \in Uses
  BY DEF Uses
<1>15. Ok(dropped, c)
  BY <1>5, <1>12, <1>13, <1>14, EncodeOk
<1>16. /\ dropped \in StreamState /\ SameBut(pass, dropped)
       /\ \A t \in Textures : drops[t] = 0 => dropped.body[t] = pass.body[t]
  BY <1>5, <1>9, <1>14, EncodeFields
<1> HIDE DEF dropped
<1>17. Recording(dropped) = Recording(s) /\ dropped.serial # 0
  BY <1>10, <1>16 DEF Recording, SameBut
<1>18. Joins(dropped, c, "clear", clears)
  <2> SUFFICES ASSUME NEW t \in Textures, clears[t] # 0
               PROVE  /\ clears[t] <= c.n /\ dropped.serial # 0 /\ dropped.clear[t] = 0
                      /\ dropped.prelude[t] <= clears[t]
                      /\ \A i \in DOMAIN dropped.body[t] :
                           dropped.body[t][i].at <= clears[t] \/ dropped.body[t][i].use = "discard"
                      /\ Recording(dropped) = c.k => dropped.blocked \/ c.marks[t] = c.k
                      /\ c.f.serial < Recording(dropped) => (Recording(dropped) = c.k => c.f.at <= clears[t])
    BY DEF Joins
  <2>1. clears[t] = s.clear[t] /\ s.clearTarget = g /\ s.clear[t] # 0
    BY <1>4
  <2>2. s.clear[t] <= c.n
    BY DEF Ok, Good, Past
  <2>3. s.prelude[t] <= s.clear[t]
    BY <2>1 DEF Ok, Good, WaitsLater
  <2>4. t \in Attachments[g]
    BY <2>1 DEF Ok, Good, PendingLast
  <2>5. dropped.clear[t] = 0
    BY <1>2, <1>9, <1>16, <2>1 DEF SameBut
  <2>6. dropped.body[t] = ended.body[t] /\ ended.clear = s.clear
    BY <1>5, <1>6, <1>8, <1>9, <1>16 DEF Ended
  <2>7. \A i \in DOMAIN ended.body[t] : ended.body[t][i].at <= s.clear[t] \/ ended.body[t][i].use = "discard"
    BY <1>6, <2>1, <2>6 DEF Ok, Good, PendingLast
  <2>8. Recording(dropped) = c.k => s.blocked \/ c.marks[t] = c.k
    BY <1>17, <2>4 DEF Marked
  <2>9. dropped.blocked = s.blocked /\ dropped.prelude = s.prelude
    BY <1>6, <1>8, <1>9, <1>16 DEF Ended, SameBut
  <2>10. ASSUME c.f.serial < Recording(dropped), Recording(dropped) = c.k
         PROVE  c.f.at <= s.clear[t]
    <3>1. ~(0 < s.clear[t] /\ s.clear[t] < c.f.at)
      BY <1>17, <2>10 DEF NoneLate, Ok
    <3>2. s.clear[t] \in Nat /\ c.f.at \in Nat
      BY <1>2 DEF Times, Calls, CallState
    <3> QED BY <2>1, <3>1, <3>2
  <2> QED BY <1>17, <2>1, <2>2, <2>3, <2>5, <2>6, <2>7, <2>8, <2>9, <2>10
<1>19. Ok(StartPass(s, g), c)
  BY <1>1, <1>3, <1>14, <1>15, <1>18, EncodeOk
<1>20. StartPass(s, g) \in StreamState /\ SameBut(dropped, StartPass(s, g))
  BY <1>1, <1>3, <1>14, <1>16, EncodeFields
<1>21. Recording(StartPass(s, g)) = Recording(s)
  BY <1>17, <1>20 DEF Recording, SameBut
<1> QED
  BY <1>6, <1>8, <1>9, <1>16, <1>17, <1>19, <1>20, <1>21 DEF Started, SameBut, Ended

(* s goes on as r in the same command buffer: nothing that waits goes.     *)
GoesOn(s, r) ==
  /\ r \in StreamState /\ Recording(r) = Recording(s)
  /\ r.serial = 0 => s.serial = 0
  /\ r.clearTarget = s.clearTarget /\ r.clear = s.clear /\ r.flushDeferred = s.flushDeferred
  /\ r.blocked = s.blocked /\ r.mips = s.mips /\ r.prelude = s.prelude

LEMMA EndedGoesOn ==
  ASSUME NEW s, NEW r, Ended(s, r)
  PROVE  GoesOn(s, r)
BY DEF Ended, GoesOn, Recording

LEMMA BlitEncoderOk ==
  ASSUME StreamAssumption, NEW s, NEW c \in CallState, Ok(s, c)
  PROVE  LET r == BlitEncoder(s) IN Ok(r, c) /\ GoesOn(s, r) /\ r.serial # 0
<1>1. CASE s.blit
  BY <1>1 DEF BlitEncoder, GoesOn, Ok, Good, Encoders
<1>2. CASE ~s.blit
  <2> DEFINE ended == EndEncoder(s)
             open == Open(ended)
             r == [open EXCEPT !.blit = TRUE]
  <2>1. BlitEncoder(s) = r
    BY <1>2 DEF BlitEncoder
  <2>2. Ok(ended, c) /\ Ended(s, ended)
    BY EndEncoderOk
  <2> HIDE DEF ended
  <2>3. Ok(open, c) /\ open.serial # 0 /\ Recording(open) = Recording(ended)
    BY <2>2, OpenOk
  <2>4. /\ open \in StreamState /\ open.render = ended.render /\ open.compute = ended.compute
        /\ open.clearTarget = ended.clearTarget /\ open.clear = ended.clear /\ open.store = ended.store
        /\ open.flushDeferred = ended.flushDeferred /\ open.blocked = ended.blocked
        /\ open.mips = ended.mips /\ open.prelude = ended.prelude
    BY <2>2, OpenFields DEF Ended
  <2> HIDE DEF open
  <2>5. /\ r \in StreamState /\ r.serial = open.serial /\ r.next = open.next /\ r.last = open.last
        /\ r.render = open.render /\ r.blit = TRUE /\ r.compute = open.compute
        /\ r.clearTarget = open.clearTarget /\ r.clear = open.clear /\ r.store = open.store
        /\ r.discardTarget = open.discardTarget /\ r.load = open.load
        /\ r.flushDeferred = open.flushDeferred /\ r.blocked = open.blocked
        /\ r.mips = open.mips /\ r.prelude = open.prelude /\ r.body = open.body
    BY <2>4 DEF StreamState
  <2> HIDE DEF r
  <2>6. Edited(open, r)
    BY <2>2, <2>3, <2>4, <2>5 DEF Edited, Ended, Ok, Good, PendingLast
  <2>7. Ok(r, c)
    BY <2>3, <2>5, <2>6, EditOk
  <2>8. Recording(r) = Recording(s)
    BY <2>2, <2>3, <2>5 DEF Ended, Recording
  <2> QED BY <2>1, <2>2, <2>3, <2>4, <2>5, <2>7, <2>8 DEF GoesOn, Ended
<1> QED BY <1>1, <1>2

(* resolvePendingClear() while no glFlush is deferred.                     *)
LEMMA ResolveInFlushOk ==
  ASSUME StreamAssumption, NEW s, NEW c \in CallState, Ok(s, c)
  PROVE  LET r == ResolveInFlush(s) IN
         /\ Ok(r, c) /\ r \in StreamState /\ Recording(r) = Recording(s) /\ r.clear = NoTimes
         /\ r.serial = 0 => s.serial = 0
         /\ r.clearTarget = s.clearTarget /\ r.flushDeferred = s.flushDeferred
         /\ r.blocked = s.blocked /\ r.mips = s.mips /\ r.prelude = s.prelude
<1>1. CASE ~AnyOf(s.clear)
  <2>1. s.clear = NoTimes /\ s \in StreamState
    BY <1>1, NoTimesAreTimes DEF Ok, StreamState
  <2> QED BY <1>1, <2>1 DEF ResolveInFlush
<1>2. CASE AnyOf(s.clear)
  <2>1. s.clearTarget \in Targets /\ Marked(s, c, s.clearTarget)
    BY <1>2, PendingMarked
  <2>2. Ok(StartPass(s, s.clearTarget), c) /\ Started(s, StartPass(s, s.clearTarget), s.clearTarget)
    BY <2>1, StartPassOk
  <2>3. ResolveInFlush(s) = EndEncoder(StartPass(s, s.clearTarget))
    BY <1>2 DEF ResolveInFlush
  <2>4. Ok(ResolveInFlush(s), c) /\ GoesOn(StartPass(s, s.clearTarget), ResolveInFlush(s))
    BY <2>2, <2>3, EndEncoderOk, EndedGoesOn
  <2> QED BY <2>2, <2>4 DEF Started, GoesOn
<1> QED BY <1>1, <1>2

(* The mipmaps that s waits to generate are generated in r.                *)
LEMMA MipmapsJoin ==
  ASSUME NEW s, NEW r, NEW c \in CallState, Ok(s, c), Ok(r, c),
         r.serial # 0, r.clear = NoTimes, r.prelude \in {s.prelude, NoTimes},
         Recording(s) <= Recording(r), Recording(r) = Recording(s) => r.blocked, StreamAssumption
  PROVE  s.mips \in Times /\ "mipmaps" \in Uses /\ Joins(r, c, "mipmaps", s.mips)
<1>1. s.mips \in Times /\ \A t \in Textures : NoTimes[t] = 0
  BY NoTimesAreTimes DEF Ok, StreamState
<1>2. Recording(s) \in Nat /\ Recording(r) \in Nat /\ c.k \in Nat /\ c.k <= Recording(s)
  BY RecordingIsNat
<1>3. ASSUME NEW t \in Textures, s.mips[t] # 0
      PROVE  /\ s.mips[t] <= c.n /\ r.clear[t] = 0 /\ r.prelude[t] <= s.mips[t]
             /\ Recording(r) = c.k => r.blocked
             /\ c.f.serial < Recording(r) => (Recording(r) = c.k => c.f.at <= s.mips[t])
  <2>1. s.mips[t] <= c.n
    BY DEF Ok, Good, Past
  <2>2. s.prelude[t] <= s.mips[t]
    BY <1>3 DEF Ok, Good, WaitsLater
  <2>3. s.mips[t] \in Nat /\ c.f.at \in Nat
    BY <1>1 DEF Times, Calls, CallState
  <2>4. r.prelude[t] <= s.mips[t]
    BY <1>1, <2>2, <2>3
  <2>5. Recording(r) = c.k => Recording(s) = c.k
    BY <1>2
  <2>6. c.f.serial < Recording(s) => ~(0 < s.mips[t] /\ s.mips[t] < c.f.at)
    BY DEF Ok, NoneLate
  <2>7. c.f.serial < Recording(r) => (Recording(r) = c.k => c.f.at <= s.mips[t])
    BY <1>3, <2>3, <2>5, <2>6
  <2> QED BY <1>1, <2>1, <2>4, <2>5, <2>7
<1> QED BY <1>1, <1>3 DEF Joins, Uses

(* runDeferred() while no glFlush is deferred.                             *)
LEMMA RunDeferredInFlushOk ==
  ASSUME StreamAssumption, NEW s, NEW c \in CallState, Ok(s, c)
  PROVE  LET r == RunDeferredInFlush(s) IN
         /\ Ok(r, c) /\ Frame(s, r) /\ r \in StreamState
         /\ r.mips = NoTimes /\ r.flushDeferred = s.flushDeferred
         /\ r.serial = 0 => s.serial = 0 /\ r.blocked = s.blocked
<1>1. s \in StreamState /\ Recording(s) \in Nat
  BY RecordingIsNat DEF Ok
<1>2. CASE ~AnyOf(s.mips)
  <2>1. s.mips = NoTimes
    BY <1>1, <1>2, NoTimesAreTimes DEF StreamState
  <2>2. Frame(s, s)
    BY <1>1 DEF Frame
  <2> QED BY <1>1, <1>2, <2>1, <2>2 DEF RunDeferredInFlush
<1>3. CASE AnyOf(s.mips)
  <2> DEFINE x == [s EXCEPT !.mips = NoTimes, !.blocked = TRUE, !.load = NoTimes]
             q == ResolveInFlush(x)
             b == BlitEncoder(q)
             r == Encode(b, "mipmaps", s.mips)
  <2>1. RunDeferredInFlush(s) = r
    BY <1>3 DEF RunDeferredInFlush
  <2>2. /\ x \in StreamState /\ x.serial = s.serial /\ x.next = s.next /\ x.last = s.last
        /\ x.render = s.render /\ x.blit = s.blit /\ x.compute = s.compute
        /\ x.clearTarget = s.clearTarget /\ x.clear = s.clear /\ x.store = s.store
        /\ x.discardTarget = s.discardTarget /\ x.load = NoTimes
        /\ x.flushDeferred = s.flushDeferred /\ x.blocked = TRUE
        /\ x.mips = NoTimes /\ x.prelude = s.prelude /\ x.body = s.body
    BY <1>1, NoTimesAreTimes DEF StreamState
  <2> HIDE DEF x
  <2>3. Edited(s, x)
    BY <2>2 DEF Edited, Ok, Good, Encoders, PendingLast
  <2>4. Ok(x, c) /\ Recording(x) = Recording(s)
    BY <2>2, <2>3, EditOk DEF Recording
  <2>5. /\ Ok(q, c) /\ Recording(q) = Recording(x) /\ q.clear = NoTimes
        /\ q.clearTarget = x.clearTarget /\ q.flushDeferred = x.flushDeferred
        /\ q.blocked = x.blocked /\ q.mips = x.mips /\ q.prelude = x.prelude
    BY <2>4, ResolveInFlushOk
  <2> HIDE DEF q
  <2>6. Ok(b, c) /\ GoesOn(q, b) /\ b.serial # 0
    BY <2>5, BlitEncoderOk
  <2> HIDE DEF b
  <2>7. s.mips \in Times /\ "mipmaps" \in Uses /\ Joins(b, c, "mipmaps", s.mips)
    BY <1>1, <2>2, <2>4, <2>5, <2>6, MipmapsJoin DEF GoesOn
  <2>8. Ok(r, c) /\ r \in StreamState /\ SameBut(b, r)
    BY <2>6, <2>7, EncodeOk, EncodeFields DEF GoesOn
  <2> HIDE DEF r
  <2>9. Recording(r) = Recording(s)
    BY <2>4, <2>5, <2>6, <2>8 DEF GoesOn, SameBut, Recording
  <2>10. Frame(s, r)
    BY <1>1, <2>2, <2>5, <2>6, <2>8, <2>9 DEF Frame, GoesOn, SameBut
  <2> QED BY <2>1, <2>2, <2>5, <2>6, <2>8, <2>10 DEF GoesOn, SameBut
<1> QED BY <1>2, <1>3

(* flush().                                                                *)
LEMMA FlushOk ==
  ASSUME StreamAssumption, NEW s, NEW c \in CallState, NEW keep \in BOOLEAN, Ok(s, c)
  PROVE  LET r == Flush(s, keep) IN
         /\ Ok(r, c) /\ Frame(s, r) /\ r.serial = 0
         /\ r.mips = NoTimes /\ (keep \/ r.clear = NoTimes)
         /\ r.blocked => s.serial = 0 /\ s.blocked
<1> DEFINE x == [s EXCEPT !.flushDeferred = FALSE]
           run == RunDeferredInFlush(x)
           y == IF keep THEN run ELSE ResolveInFlush(run)
           z == EndEncoder(y)
           r == Commit(z)
<1>1. Flush(s, keep) = r
  BY DEF Flush
<1>2. s \in StreamState /\ Recording(s) \in Nat
  BY RecordingIsNat DEF Ok
<1>3. /\ x \in StreamState /\ x.serial = s.serial /\ x.next = s.next /\ x.last = s.last
      /\ x.render = s.render /\ x.blit = s.blit /\ x.compute = s.compute
      /\ x.clearTarget = s.clearTarget /\ x.clear = s.clear /\ x.store = s.store
      /\ x.discardTarget = s.discardTarget /\ x.load = s.load
      /\ x.blocked = s.blocked /\ x.mips = s.mips /\ x.prelude = s.prelude /\ x.body = s.body
  BY <1>2 DEF StreamState
<1> HIDE DEF x
<1>4. Edited(s, x)
  BY <1>3 DEF Edited, Ok, Good, Encoders, PendingLast
<1>5. Ok(x, c) /\ Frame(s, x)
  BY <1>2, <1>3, <1>4, EditOk DEF Frame, Recording
<1>6. /\ Ok(run, c) /\ Frame(x, run) /\ run \in StreamState
      /\ run.mips = NoTimes /\ (run.serial = 0 => x.serial = 0 /\ run.blocked = x.blocked)
  BY <1>5, RunDeferredInFlushOk
<1> HIDE DEF run
<1>7. /\ Ok(y, c) /\ Recording(y) = Recording(run) /\ y.clear \in {run.clear, NoTimes}
      /\ y.clearTarget = run.clearTarget /\ y.blocked = run.blocked /\ y.mips = run.mips
      /\ y.prelude = run.prelude /\ (y.serial = 0 => run.serial = 0) /\ (keep \/ y.clear = NoTimes)
  <2>1. CASE keep
    BY <1>6, <2>1
  <2>2. CASE ~keep
    BY <1>6, <2>2, ResolveInFlushOk
  <2> QED BY <2>1, <2>2
<1> HIDE DEF y
<1>8. Recording(run) \in Nat
  BY <1>6, RecordingIsNat
<1>9. Frame(run, y)
  BY <1>7, <1>8 DEF Frame
<1>10. Ok(z, c) /\ Ended(y, z) /\ GoesOn(y, z)
  BY <1>7, EndEncoderOk, EndedGoesOn
<1> HIDE DEF z
<1>11. Recording(y) \in Nat
  BY <1>7, RecordingIsNat
<1>12. Frame(y, z)
  BY <1>10, <1>11 DEF Frame, GoesOn
<1>13. z.mips = NoTimes /\ z.render = NoTarget /\ ~z.blit /\ ~z.compute
  BY <1>6, <1>7, <1>10 DEF Ended
<1>14. /\ Ok(r, c) /\ Frame(z, r) /\ r.serial = 0 /\ r.clear = z.clear /\ r.mips = NoTimes
       /\ r.blocked => z.serial = 0 /\ z.blocked
  BY <1>10, <1>13, CommitOk
<1> HIDE DEF r
<1>15. Frame(x, y)
  BY <1>5, <1>6, <1>7, <1>9, FrameGoesOn
<1>16. Frame(x, z)
  BY <1>5, <1>7, <1>10, <1>12, <1>15, FrameGoesOn
<1>17. Frame(x, r)
  BY <1>5, <1>10, <1>14, <1>16, FrameGoesOn
<1>18. Frame(s, r)
  BY <1>5, <1>14, <1>17, FrameGoesOn
<1> QED BY <1>1, <1>3, <1>6, <1>7, <1>10, <1>14, <1>18 DEF Ended

(* startRender(): a deferred glFlush, and a pass.                          *)
LEMMA StartRenderOk ==
  ASSUME StreamAssumption, NEW s, NEW c \in CallState, NEW g \in Targets, Ok(s, c), Marked(s, c, g)
  PROVE  LET r == StartRender(s, g) IN
         /\ Ok(r, c) /\ Frame(s, r) /\ r.render = g /\ r.serial # 0
         /\ s.clearTarget = g => r.clear = NoTimes
<1> DEFINE x == IF s.flushDeferred THEN Flush(s, TRUE) ELSE s
           r == StartPass(x, g)
<1>1. StartRender(s, g) = r
  BY DEF StartRender
<1>2. Recording(s) \in Nat
  BY RecordingIsNat
<1>3. Ok(x, c) /\ Frame(s, x)
  <2>1. CASE s.flushDeferred
    BY <2>1, FlushOk
  <2>2. CASE ~s.flushDeferred
    BY <1>2, <2>2 DEF Frame
  <2> QED BY <2>1, <2>2
<1> HIDE DEF x
<1>4. Marked(x, c, g)
  BY <1>3, MarkedGoesOn
<1>5. Ok(r, c) /\ Started(x, r, g)
  BY <1>3, <1>4, StartPassOk
<1> HIDE DEF r
<1>6. Recording(x) \in Nat
  BY <1>3, RecordingIsNat
<1>7. Frame(x, r)
  BY <1>5, <1>6 DEF Frame, Started
<1>8. Frame(s, r)
  BY <1>3, <1>5, <1>7, FrameGoesOn
<1> QED BY <1>1, <1>3, <1>5, <1>8 DEF Started, Frame

(* resolvePendingClear(): nothing waits to be cleared.                     *)
LEMMA ResolvePendingClearOk ==
  ASSUME StreamAssumption, NEW s, NEW c \in CallState, Ok(s, c)
  PROVE  LET r == ResolvePendingClear(s) IN
         Ok(r, c) /\ Frame(s, r) /\ r.clear = NoTimes /\ (s.serial # 0 => r.serial # 0)
<1>1. Recording(s) \in Nat /\ s \in StreamState
  BY RecordingIsNat DEF Ok
<1>2. CASE ~AnyOf(s.clear)
  <2>1. s.clear = NoTimes
    BY <1>1, <1>2, NoTimesAreTimes DEF StreamState
  <2> QED BY <1>1, <1>2, <2>1 DEF ResolvePendingClear, Frame
<1>3. CASE AnyOf(s.clear)
  <2> DEFINE x == StartRender(s, s.clearTarget)
             r == EndEncoder(x)
  <2>1. s.clearTarget \in Targets /\ Marked(s, c, s.clearTarget)
    BY <1>3, PendingMarked
  <2>2. Ok(x, c) /\ Frame(s, x) /\ x.serial # 0 /\ x.clear = NoTimes
    BY <2>1, StartRenderOk
  <2>3. ResolvePendingClear(s) = r
    BY <1>3 DEF ResolvePendingClear
  <2> HIDE DEF x
  <2>4. Ok(r, c) /\ GoesOn(x, r)
    BY <2>2, EndEncoderOk, EndedGoesOn
  <2> HIDE DEF r
  <2>5. Recording(x) \in Nat
    BY <2>2, RecordingIsNat
  <2>6. Frame(x, r)
    BY <2>4, <2>5 DEF Frame, GoesOn
  <2>7. Frame(s, r)
    BY <2>2, <2>4, <2>6, FrameGoesOn
  <2> QED BY <2>2, <2>3, <2>4, <2>7 DEF GoesOn
<1> QED BY <1>2, <1>3

(* uploadBlit().                                                           *)
LEMMA UploadBlitOk ==
  ASSUME StreamAssumption, NEW s, NEW c \in CallState, NEW keep \in BOOLEAN, Ok(s, c)
  PROVE  LET r == UploadBlit(s, keep) IN
         Ok(r, c) /\ Frame(s, r) /\ r.serial # 0 /\ (keep \/ r.clear = NoTimes)
<1> DEFINE x == [s EXCEPT !.load = NoTimes]
           y == IF keep THEN x ELSE ResolvePendingClear(x)
           z == EndEncoder(y)
           r == BlitEncoder(z)
<1>1. UploadBlit(s, keep) = IF s.blit /\ (keep \/ ~AnyOf(s.clear)) THEN x ELSE r
  BY DEF UploadBlit
<1>2. Recording(s) \in Nat /\ s \in StreamState
  BY RecordingIsNat DEF Ok
<1>3. /\ x \in StreamState /\ x.serial = s.serial /\ x.next = s.next /\ x.last = s.last
      /\ x.render = s.render /\ x.blit = s.blit /\ x.compute = s.compute
      /\ x.clearTarget = s.clearTarget /\ x.clear = s.clear /\ x.store = s.store
      /\ x.discardTarget = s.discardTarget /\ x.load = NoTimes
      /\ x.blocked = s.blocked /\ x.mips = s.mips /\ x.prelude = s.prelude /\ x.body = s.body
  BY <1>2, NoTimesAreTimes DEF StreamState
<1> HIDE DEF x
<1>4. Edited(s, x)
  BY <1>3 DEF Edited, Ok, Good, Encoders, PendingLast
<1>5. Ok(x, c) /\ Frame(s, x)
  BY <1>2, <1>3, <1>4, EditOk DEF Frame, Recording
<1>6. CASE s.blit /\ (keep \/ ~AnyOf(s.clear))
  <2>1. s.serial # 0
    BY <1>6 DEF Ok, Good, Encoders
  <2>2. keep \/ s.clear = NoTimes
    BY <1>2, <1>6, NoTimesAreTimes DEF StreamState
  <2> QED BY <1>1, <1>3, <1>5, <1>6, <2>1, <2>2
<1>7. CASE ~(s.blit /\ (keep \/ ~AnyOf(s.clear)))
  <2>1. Recording(x) \in Nat
    BY <1>5, RecordingIsNat
  <2>2. Ok(y, c) /\ Frame(x, y) /\ (keep \/ y.clear = NoTimes)
    BY <1>5, <2>1, ResolvePendingClearOk DEF Frame
  <2> HIDE DEF y
  <2>3. Ok(z, c) /\ GoesOn(y, z)
    BY <2>2, EndEncoderOk, EndedGoesOn
  <2> HIDE DEF z
  <2>4. Ok(r, c) /\ GoesOn(z, r) /\ r.serial # 0
    BY <2>3, BlitEncoderOk
  <2> HIDE DEF r
  <2>5. Recording(y) \in Nat
    BY <2>2, RecordingIsNat
  <2>6. Frame(y, r)
    BY <2>3, <2>4, <2>5 DEF Frame, GoesOn
  <2>7. Frame(x, r)
    BY <1>5, <2>2, <2>4, <2>6, FrameGoesOn
  <2>8. Frame(s, r)
    BY <1>5, <2>4, <2>7, FrameGoesOn
  <2> QED BY <1>1, <1>7, <2>2, <2>3, <2>4, <2>8 DEF GoesOn
<1> QED BY <1>6, <1>7

(* runDeferred(): no mipmaps wait.                                         *)
LEMMA RunDeferredOk ==
  ASSUME StreamAssumption, NEW s, NEW c \in CallState, Ok(s, c)
  PROVE  LET r == RunDeferred(s) IN Ok(r, c) /\ Frame(s, r) /\ r.mips = NoTimes
<1>1. s \in StreamState /\ Recording(s) \in Nat
  BY RecordingIsNat DEF Ok
<1>2. CASE ~AnyOf(s.mips)
  <2>1. s.mips = NoTimes
    BY <1>1, <1>2, NoTimesAreTimes DEF StreamState
  <2> QED BY <1>1, <1>2, <2>1 DEF RunDeferred, Frame
<1>3. CASE AnyOf(s.mips)
  <2> DEFINE x == [s EXCEPT !.mips = NoTimes, !.blocked = TRUE]
             b == UploadBlit(x, FALSE)
             r == Encode(b, "mipmaps", s.mips)
  <2>1. RunDeferred(s) = r
    BY <1>3 DEF RunDeferred
  <2>2. /\ x \in StreamState /\ x.serial = s.serial /\ x.next = s.next /\ x.last = s.last
        /\ x.render = s.render /\ x.blit = s.blit /\ x.compute = s.compute
        /\ x.clearTarget = s.clearTarget /\ x.clear = s.clear /\ x.store = s.store
        /\ x.discardTarget = s.discardTarget /\ x.load = s.load
        /\ x.blocked = TRUE /\ x.mips = NoTimes /\ x.prelude = s.prelude /\ x.body = s.body
    BY <1>1, NoTimesAreTimes DEF StreamState
  <2> HIDE DEF x
  <2>3. Edited(s, x)
    BY <2>2 DEF Edited, Ok, Good, Encoders, PendingLast
  <2>4. Ok(x, c) /\ Recording(x) = Recording(s) /\ Frame(s, x)
    BY <1>1, <2>2, <2>3, EditOk DEF Recording, Frame
  <2>5. Ok(b, c) /\ Frame(x, b) /\ b.serial # 0 /\ b.clear = NoTimes
    BY <2>4, UploadBlitOk
  <2> HIDE DEF b
  <2>6. s.mips \in Times /\ "mipmaps" \in Uses /\ Joins(b, c, "mipmaps", s.mips)
    BY <2>2, <2>4, <2>5, MipmapsJoin DEF Frame
  <2>7. b \in StreamState
    BY <2>5 DEF Ok
  <2>8. Ok(r, c) /\ SameBut(b, r)
    BY <2>5, <2>6, <2>7, EncodeOk, EncodeFields
  <2> HIDE DEF r
  <2>9. Recording(b) \in Nat
    BY <2>5, RecordingIsNat
  <2>10. Frame(b, r)
    BY <2>8, <2>9 DEF Frame, SameBut, Recording
  <2>11. Frame(x, r)
    BY <2>4, <2>5, <2>8, <2>10, FrameGoesOn
  <2>12. Frame(s, r)
    BY <2>4, <2>8, <2>11, FrameGoesOn
  <2> QED BY <2>1, <2>2, <2>5, <2>8, <2>12 DEF Frame, SameBut
<1> QED BY <1>2, <1>3

(* A command buffer with a blit or dispatch of its own is blocked.         *)
LEMMA BlockOk ==
  ASSUME StreamAssumption, NEW s, NEW c \in CallState, Ok(s, c), NEW load \in {s.load, NoTimes}
  PROVE  LET r == [s EXCEPT !.blocked = TRUE, !.load = load] IN
         Ok(r, c) /\ Frame(s, r) /\ r.blocked
<1> DEFINE r == [s EXCEPT !.blocked = TRUE, !.load = load]
<1>1. s \in StreamState /\ Recording(s) \in Nat /\ load \in Times
  BY RecordingIsNat, NoTimesAreTimes DEF Ok, StreamState
<1>2. /\ r \in StreamState /\ r.serial = s.serial /\ r.next = s.next /\ r.last = s.last
      /\ r.render = s.render /\ r.blit = s.blit /\ r.compute = s.compute
      /\ r.clearTarget = s.clearTarget /\ r.clear = s.clear /\ r.store = s.store
      /\ r.discardTarget = s.discardTarget /\ r.load = load
      /\ r.blocked = TRUE /\ r.mips = s.mips /\ r.prelude = s.prelude /\ r.body = s.body
  BY <1>1 DEF StreamState
<1> HIDE DEF r
<1>3. Edited(s, r)
  BY <1>2 DEF Edited, Ok, Good, Encoders, PendingLast
<1>4. Ok(r, c)
  BY <1>2, <1>3, EditOk
<1>5. Frame(s, r)
  BY <1>1, <1>2 DEF Frame, Recording
<1> QED BY <1>2, <1>4, <1>5 DEF r

(* What a blit or dispatch joins: no upload runs ahead of it.              *)
LEMMA BlockedHere ==
  ASSUME NEW s, NEW r, NEW c \in CallState, Ok(s, c), Ok(r, c), Frame(s, r), s.blocked
  PROVE  Recording(r) = c.k => r.blocked
<1>1. Recording(s) \in Nat /\ Recording(r) \in Nat /\ c.k \in Nat /\ c.k <= Recording(s)
  BY RecordingIsNat
<1> QED BY <1>1 DEF Frame

(* blit().                                                                 *)
LEMMA BlitOk ==
  ASSUME StreamAssumption, NEW s, NEW c \in CallState, NEW keep \in BOOLEAN, Ok(s, c)
  PROVE  LET r == Blit(s, keep) IN
         /\ Ok(r, c) /\ r.serial # 0 /\ (keep \/ r.clear = NoTimes)
         /\ Recording(r) = c.k => r.blocked
<1> DEFINE run == RunDeferred(s)
           x == [run EXCEPT !.blocked = TRUE, !.load = run.load]
           r == UploadBlit(x, keep)
<1>1. Ok(run, c)
  BY RunDeferredOk
<1> HIDE DEF run
<1>2. Blit(s, keep) = r
  <2>1. run \in StreamState
    BY <1>1 DEF Ok
  <2>2. [run EXCEPT !.blocked = TRUE] = x
    BY <2>1 DEF StreamState
  <2> QED BY <2>2 DEF Blit, run
<1>3. Ok(x, c) /\ x.blocked
  BY <1>1, BlockOk
<1> HIDE DEF x
<1>4. Ok(r, c) /\ Frame(x, r) /\ r.serial # 0 /\ (keep \/ r.clear = NoTimes)
  BY <1>3, UploadBlitOk
<1> HIDE DEF r
<1> QED BY <1>2, <1>3, <1>4, BlockedHere

(* The compute encoder.                                                    *)
LEMMA ComputeEncoderOk ==
  ASSUME StreamAssumption, NEW s, NEW c \in CallState, NEW keep \in BOOLEAN, Ok(s, c)
  PROVE  LET r == ComputeEncoder(s, keep) IN
         Ok(r, c) /\ Frame(s, r) /\ r.serial # 0 /\ (keep \/ r.clear = NoTimes)
<1> DEFINE y == IF keep THEN s ELSE ResolvePendingClear(s)
           ended == EndEncoder(y)
           open == Open(ended)
           r == [open EXCEPT !.compute = TRUE]
<1>1. ComputeEncoder(s, keep) = IF s.compute /\ (keep \/ ~AnyOf(s.clear)) THEN s ELSE r
  BY DEF ComputeEncoder
<1>2. Recording(s) \in Nat /\ s \in StreamState
  BY RecordingIsNat DEF Ok
<1>3. CASE s.compute /\ (keep \/ ~AnyOf(s.clear))
  <2>1. s.serial # 0
    BY <1>3 DEF Ok, Good, Encoders
  <2>2. keep \/ s.clear = NoTimes
    BY <1>2, <1>3, NoTimesAreTimes DEF StreamState
  <2> QED BY <1>1, <1>2, <1>3, <2>1, <2>2 DEF Frame
<1>4. CASE ~(s.compute /\ (keep \/ ~AnyOf(s.clear)))
  <2>1. Ok(y, c) /\ Frame(s, y) /\ (keep \/ y.clear = NoTimes)
    BY <1>2, ResolvePendingClearOk DEF Frame
  <2> HIDE DEF y
  <2>2. Ok(ended, c) /\ Ended(y, ended)
    BY <2>1, EndEncoderOk
  <2> HIDE DEF ended
  <2>3. Ok(open, c) /\ open.serial # 0 /\ Recording(open) = Recording(ended)
    BY <2>2, OpenOk
  <2>4. /\ open \in StreamState /\ open.render = ended.render /\ open.blit = ended.blit
        /\ open.clearTarget = ended.clearTarget /\ open.clear = ended.clear /\ open.store = ended.store
        /\ open.blocked = ended.blocked /\ open.mips = ended.mips /\ open.prelude = ended.prelude
    BY <2>2, OpenFields DEF Ended
  <2> HIDE DEF open
  <2>5. /\ r \in StreamState /\ r.serial = open.serial /\ r.next = open.next /\ r.last = open.last
        /\ r.render = open.render /\ r.blit = open.blit /\ r.compute = TRUE
        /\ r.clearTarget = open.clearTarget /\ r.clear = open.clear /\ r.store = open.store
        /\ r.discardTarget = open.discardTarget /\ r.load = open.load
        /\ r.blocked = open.blocked
        /\ r.mips = open.mips /\ r.prelude = open.prelude /\ r.body = open.body
    BY <2>4 DEF StreamState
  <2> HIDE DEF r
  <2>6. Edited(open, r)
    BY <2>2, <2>3, <2>4, <2>5 DEF Edited, Ended, Ok, Good, PendingLast
  <2>7. Ok(r, c)
    BY <2>3, <2>5, <2>6, EditOk
  <2>8. Recording(r) = Recording(y) /\ Recording(y) \in Nat
    BY <2>1, <2>2, <2>3, <2>5, RecordingIsNat DEF Ended, Recording
  <2>9. Frame(y, r)
    BY <2>2, <2>4, <2>5, <2>8 DEF Frame, Ended
  <2>10. Frame(s, r)
    BY <2>1, <2>7, <2>9, FrameGoesOn
  <2> QED BY <1>1, <1>4, <2>1, <2>2, <2>3, <2>4, <2>5, <2>7, <2>10 DEF Ended
<1> QED BY <1>3, <1>4

(* compute().                                                              *)
LEMMA ComputeOk ==
  ASSUME StreamAssumption, NEW s, NEW c \in CallState, NEW keep \in BOOLEAN, Ok(s, c)
  PROVE  LET r == Compute(s, keep) IN
         /\ Ok(r, c) /\ r.serial # 0 /\ (keep \/ r.clear = NoTimes)
         /\ Recording(r) = c.k => r.blocked
<1> DEFINE run == RunDeferred(s)
           x == [run EXCEPT !.blocked = TRUE, !.load = NoTimes]
           r == ComputeEncoder(x, keep)
<1>1. Compute(s, keep) = r
  BY DEF Compute
<1>2. Ok(run, c)
  BY RunDeferredOk
<1> HIDE DEF run
<1>3. Ok(x, c) /\ x.blocked
  BY <1>2, BlockOk
<1> HIDE DEF x
<1>4. Ok(r, c) /\ Frame(x, r) /\ r.serial # 0 /\ (keep \/ r.clear = NoTimes)
  BY <1>3, ComputeEncoderOk
<1> HIDE DEF r
<1> QED BY <1>1, <1>3, <1>4, BlockedHere

(* The pass on g goes on, or one starts.                                   *)
LEMMA PassOnOk ==
  ASSUME StreamAssumption, NEW s, NEW c \in CallState, NEW g \in Targets, Ok(s, c), Marked(s, c, g)
  PROVE  LET r == PassOn(s, g) IN
         /\ Ok(r, c) /\ Frame(s, r) /\ r.render = g /\ r.serial # 0
         /\ s.clearTarget = g => r.clear = NoTimes
<1>1. Recording(s) \in Nat /\ s \in StreamState
  BY RecordingIsNat DEF Ok
<1>2. CASE s.render = g
  <2> DEFINE r == [s EXCEPT !.store = NoTimes]
  <2>1. PassOn(s, g) = r
    BY <1>2 DEF PassOn
  <2>2. /\ r \in StreamState /\ r.serial = s.serial /\ r.next = s.next /\ r.last = s.last
        /\ r.render = s.render /\ r.blit = s.blit /\ r.compute = s.compute
        /\ r.clearTarget = s.clearTarget /\ r.clear = s.clear /\ r.store = NoTimes
        /\ r.discardTarget = s.discardTarget /\ r.load = s.load
        /\ r.blocked = s.blocked /\ r.mips = s.mips /\ r.prelude = s.prelude /\ r.body = s.body
    BY <1>1, NoTimesAreTimes DEF StreamState
  <2> HIDE DEF r
  <2>3. Edited(s, r)
    BY <2>2 DEF Edited, Ok, Good, Encoders, PendingLast
  <2>4. Ok(r, c)
    BY <2>2, <2>3, EditOk
  <2>5. s.serial # 0
    BY <1>2 DEF StreamAssumption, Ok, Good, Encoders
  <2>6. s.clearTarget = g => s.clear = NoTimes
    BY <1>1, <1>2, NoTimesAreTimes DEF Ok, Good, PendingLast, StreamState
  <2> QED BY <1>1, <1>2, <2>1, <2>2, <2>4, <2>5, <2>6 DEF Frame, Recording
<1>3. CASE s.render # g
  BY <1>3, StartRenderOk DEF PassOn
<1> QED BY <1>2, <1>3

(* renderDraw(): the encoder of the pass on g, and nothing waits.          *)
LEMMA RenderDrawOk ==
  ASSUME StreamAssumption, NEW s, NEW c \in CallState, NEW g \in Targets, Ok(s, c), Marked(s, c, g)
  PROVE  LET r == RenderDraw(s, g) IN
         /\ Ok(r, c) /\ Frame(s, r) /\ r.render = g /\ r.serial # 0
         /\ r.clear = NoTimes /\ Marked(r, c, g)
<1> DEFINE run == RunDeferred(s)
           x == ResolveOther(run, g)
           r == PassOn(x, g)
<1>1. RenderDraw(s, g) = r
  BY DEF RenderDraw
<1>2. Ok(run, c) /\ Frame(s, run)
  BY RunDeferredOk
<1> HIDE DEF run
<1>3. Recording(run) \in Nat
  BY <1>2, RecordingIsNat
<1>4. Ok(x, c) /\ Frame(run, x) /\ (run.clearTarget = g \/ x.clear = NoTimes)
  BY <1>2, <1>3, ResolvePendingClearOk DEF ResolveOther, Frame
<1> HIDE DEF x
<1>5. Frame(s, x)
  BY <1>2, <1>4, FrameGoesOn
<1>6. Marked(x, c, g)
  BY <1>4, <1>5, MarkedGoesOn
<1>7. Ok(r, c) /\ Frame(x, r) /\ r.render = g /\ r.serial # 0 /\ (x.clearTarget = g => r.clear = NoTimes)
  BY <1>4, <1>6, PassOnOk
<1> HIDE DEF r
<1>8. Frame(s, r)
  BY <1>4, <1>5, <1>7, FrameGoesOn
<1>9. r.clear = NoTimes
  BY <1>4, <1>7 DEF Frame
<1>10. Marked(r, c, g)
  BY <1>7, <1>8, MarkedGoesOn
<1> QED BY <1>1, <1>7, <1>8, <1>9, <1>10

-----------------------------------------------------------------------------
(***************************************************************************)
(* What a call does itself.                                                *)
(***************************************************************************)

LEMMA MarkAt ==
  ASSUME NEW times, NEW ts, NEW n, NEW t \in Textures
  PROVE  Mark(times, ts, n)[t] = IF t \in ts THEN n ELSE times[t]
BY DEF Mark

LEMMA MarkIsTimes ==
  ASSUME NEW times \in Times, NEW ts, NEW n \in Calls
  PROVE  Mark(times, ts, n) \in Times
BY DEF Mark, Times

LEMMA MarkIsMarks ==
  ASSUME NEW marks \in [Textures -> Nat], NEW ts, NEW n \in Nat
  PROVE  Mark(marks, ts, n) \in [Textures -> Nat]
BY DEF Mark

(* The work of the call itself joins the command buffer.                   *)
LEMMA CallJoins ==
  ASSUME StreamAssumption, NEW s, NEW c \in CallState, NEW use \in Uses, NEW ts \in SUBSET Textures,
         Ok(s, c), s.serial # 0, \A t \in ts : s.clear[t] = 0,
         Recording(s) = c.k => s.blocked \/ \A t \in ts : c.marks[t] = c.k,
         use = "sample" => \A t \in ts : c.marks[t] = s.serial
  PROVE  /\ Ok(Encode(s, use, Mark(NoTimes, ts, c.n)), c)
         /\ SameBut(s, Encode(s, use, Mark(NoTimes, ts, c.n)))
<1> DEFINE times == Mark(NoTimes, ts, c.n)
<1>1. c.n \in Calls /\ c.n \in Nat /\ c.f.at <= c.n /\ s \in StreamState
  BY DEF CallState, Calls, Ok
<1>2. times \in Times /\ \A t \in Textures : times[t] # 0 => t \in ts /\ times[t] = c.n
  <2>1. NoTimes \in Times /\ \A t \in Textures : NoTimes[t] = 0
    BY NoTimesAreTimes
  <2>2. \A t \in Textures : times[t] = IF t \in ts THEN c.n ELSE NoTimes[t]
    BY MarkAt
  <2>3. times \in Times
    BY <1>1, <2>1, MarkIsTimes
  <2> QED BY <2>1, <2>2, <2>3
<1> HIDE DEF times
<1>3. \A t \in Textures : s.prelude[t] <= c.n /\ \A i \in DOMAIN s.body[t] : s.body[t][i].at <= c.n
  BY DEF Ok, Good, Past
<1>4. Joins(s, c, use, times)
  BY <1>1, <1>2, <1>3 DEF Joins
<1> QED BY <1>1, <1>2, <1>4, EncodeOk, EncodeFields DEF times

(* ... as a draw in the pass.                                              *)
LEMMA DrawnOk ==
  ASSUME StreamAssumption, NEW s, NEW c \in CallState, Ok(s, c)
  PROVE  LET r == [s EXCEPT !.draws = TRUE, !.recorded = TRUE] IN
         Ok(r, c) /\ r.serial = s.serial
<1> DEFINE r == [s EXCEPT !.draws = TRUE, !.recorded = TRUE]
<1>1. s \in StreamState
  BY DEF Ok
<1>2. /\ r \in StreamState /\ r.serial = s.serial /\ r.next = s.next /\ r.last = s.last
      /\ r.render = s.render /\ r.blit = s.blit /\ r.compute = s.compute
      /\ r.clearTarget = s.clearTarget /\ r.clear = s.clear /\ r.store = s.store
      /\ r.discardTarget = s.discardTarget /\ r.load = s.load
      /\ r.blocked = s.blocked /\ r.mips = s.mips /\ r.prelude = s.prelude /\ r.body = s.body
  BY <1>1 DEF StreamState
<1> HIDE DEF r
<1>3. Edited(s, r)
  BY <1>2 DEF Edited, Ok, Good, Encoders, PendingLast
<1> QED BY <1>2, <1>3, EditOk DEF r

(* Draws to g that read ts.                                                *)
LEMMA EncodeDrawOk ==
  ASSUME StreamAssumption, NEW s, NEW c \in CallState, NEW g \in Targets,
         NEW use \in {"sample", "copy"}, NEW ts \in SUBSET Textures,
         Ok(s, c), s.serial # 0, s.clear = NoTimes, Marked(s, c, g),
         Recording(s) = c.k => s.blocked \/ \A t \in ts : c.marks[t] = c.k,
         use = "sample" => \A t \in ts : c.marks[t] = s.serial
  PROVE  LET r == EncodeDraw(s, g, use, ts, c.n) IN Ok(r, c) /\ r.serial # 0
<1> DEFINE x == Encode(s, use, Mark(NoTimes, ts, c.n))
           y == Encode(x, "draw", Mark(NoTimes, Attachments[g], c.n))
<1>1. EncodeDraw(s, g, use, ts, c.n) = [y EXCEPT !.draws = TRUE, !.recorded = TRUE]
  BY DEF EncodeDraw
<1>2. use \in Uses /\ "draw" \in Uses /\ Attachments[g] \in SUBSET Textures
  BY DEF Uses, StreamAssumption
<1>3. \A t \in Textures : s.clear[t] = 0
  BY NoTimesAreTimes
<1>4. Ok(x, c) /\ SameBut(s, x)
  BY <1>2, <1>3, CallJoins
<1> HIDE DEF x
<1>5. x.serial # 0 /\ \A t \in Textures : x.clear[t] = 0
  BY <1>3, <1>4 DEF SameBut
<1>6. Recording(x) = c.k => x.blocked \/ \A t \in Attachments[g] : c.marks[t] = c.k
  BY <1>4 DEF Marked, SameBut, Recording
<1>7. Ok(y, c) /\ SameBut(x, y)
  BY <1>2, <1>4, <1>5, <1>6, CallJoins
<1> HIDE DEF y
<1>8. y.serial # 0
  BY <1>5, <1>7 DEF SameBut
<1> QED BY <1>1, <1>7, <1>8, DrawnOk

(* Textures get the serial of the command buffer that uses them.           *)
LEMMA RemarkOk ==
  ASSUME StreamAssumption, NEW s, NEW c \in CallState, NEW d \in CallState, NEW ts \in SUBSET Textures,
         Ok(s, c), s.serial # 0, d.n = c.n, d.k = c.k, d.f = c.f,
         d.marks = Mark(c.marks, ts, s.serial)
  PROVE  Ok(s, d) /\ \A g \in Targets : Marked(s, c, g) => Marked(s, d, g)
<1>1. /\ \A t \in Textures : d.marks[t] = c.marks[t] \/ d.marks[t] = s.serial
      /\ Recording(s) = s.serial
  BY MarkAt DEF Recording
<1>2. SamplesMarked(s, d.marks)
  BY <1>1 DEF SamplesMarked, Ok, Good
<1>3. WaitsLater(s, d.marks)
  BY <1>1 DEF WaitsLater, Ok, Good
<1>4. Recording(s) = d.k => OwnWork(s, d.marks)
  <2> SUFFICES ASSUME Recording(s) = d.k PROVE OwnWork(s, d.marks)
    OBVIOUS
  <2>1. OwnWork(s, c.marks)
    BY DEF Ok
  <2>2. AnyOf(s.clear) => \A t \in Attachments[s.clearTarget] : d.marks[t] = Recording(s)
    <3>1. ASSUME AnyOf(s.clear), NEW t \in Attachments[s.clearTarget]
          PROVE  d.marks[t] = Recording(s)
      <4>1. c.marks[t] = Recording(s)
        BY <2>1, <3>1 DEF OwnWork
      <4>2. t \in Textures
        BY <3>1 DEF Ok, Good, PendingLast, StreamState, StreamAssumption
      <4> QED BY <1>1, <4>1, <4>2
    <3> QED BY <3>1
  <2> QED BY <1>1, <2>1, <2>2 DEF OwnWork
<1>5. ASSUME NEW g \in Targets, Marked(s, c, g) PROVE Marked(s, d, g)
  <2>1. Attachments[g] \subseteq Textures
    BY DEF StreamAssumption
  <2> QED BY <1>1, <1>5, <2>1 DEF Marked
<1> QED BY <1>2, <1>3, <1>4, <1>5 DEF Ok, Good

(* More waits in r than in s, of the call itself or not.                   *)
Waits(s, r) ==
  /\ r.serial = s.serial /\ r.next = s.next /\ r.last = s.last
  /\ r.render = s.render /\ r.blit = s.blit /\ r.compute = s.compute
  /\ r.blocked = s.blocked /\ r.prelude = s.prelude /\ r.body = s.body
  /\ s.serial # 0

LEMMA WaitOk ==
  ASSUME NEW s, NEW r, NEW c \in CallState, Ok(s, c), r \in StreamState, Waits(s, r),
         \A t \in Textures : /\ r.clear[t] <= c.n /\ r.store[t] <= c.n /\ r.load[t] <= c.n
                             /\ r.mips[t] \in {s.mips[t], c.n} /\ r.clear[t] \in {s.clear[t], c.n},
         PendingLast(r), WaitsLater(r, c.marks),
         Recording(r) = c.k /\ AnyOf(r.clear) => \A t \in Attachments[r.clearTarget] : c.marks[t] = c.k
  PROVE  Ok(r, c)
<1>1. Recording(r) = Recording(s) /\ r.body = s.body /\ r.prelude = s.prelude
  BY DEF Recording, Waits
<1>2. c.n \in Nat /\ c.f.at \in Nat /\ c.f.at <= c.n
  BY DEF CallState, Calls
<1>3. Serials(r, c.f)
  BY DEF Serials, Waits, Ok, Good
<1>4. Past(r, c.n)
  <2>1. \A t \in Textures : /\ s.mips[t] <= c.n /\ s.prelude[t] <= c.n
                            /\ \A i \in DOMAIN s.body[t] : s.body[t][i].at <= c.n
    BY DEF Ok, Good, Past
  <2>2. \A t \in Textures : r.mips[t] <= c.n
    BY <1>2, <2>1
  <2> QED BY <1>1, <2>1, <2>2 DEF Past
<1>5. Encoders(r)
  BY DEF Encoders, Waits, Ok, Good
<1>6. SamplesKept(r)
  BY <1>1 DEF SamplesKept, Ok, Good
<1>7. SamplesMarked(r, c.marks)
  BY DEF SamplesMarked, Waits, Ok, Good
<1>8. CallsInOrder(r)
  BY <1>1 DEF CallsInOrder, Swapped, Ok, Good
<1>9. Recording(r) = c.k => OwnWork(r, c.marks)
  BY <1>1 DEF OwnWork, Waits, Ok
<1>10. NoneLate(r, c.f, Recording(r) = c.k)
  <2> SUFFICES ASSUME c.f.serial < Recording(r), NEW t \in Textures
               PROVE  /\ ~(0 < r.mips[t] /\ r.mips[t] < c.f.at) /\ ~(0 < r.prelude[t] /\ r.prelude[t] < c.f.at)
                      /\ Recording(r) = c.k => ~(0 < r.clear[t] /\ r.clear[t] < c.f.at)
                      /\ \A i \in DOMAIN r.body[t] :
                           r.body[t][i].use \notin (IF Recording(r) = c.k THEN {"discard"} ELSE {"discard", "clear", "mipmaps"})
                             => ~(0 < r.body[t][i].at /\ r.body[t][i].at < c.f.at)
    BY DEF NoneLate
  <2>1. /\ ~(0 < s.mips[t] /\ s.mips[t] < c.f.at) /\ ~(0 < s.prelude[t] /\ s.prelude[t] < c.f.at)
        /\ Recording(s) = c.k => ~(0 < s.clear[t] /\ s.clear[t] < c.f.at)
        /\ \A i \in DOMAIN s.body[t] :
             s.body[t][i].use \notin (IF Recording(s) = c.k THEN {"discard"} ELSE {"discard", "clear", "mipmaps"})
               => ~(0 < s.body[t][i].at /\ s.body[t][i].at < c.f.at)
    BY <1>1 DEF NoneLate, Ok
  <2>2. r.mips[t] \in {s.mips[t], c.n} /\ r.clear[t] \in {s.clear[t], c.n}
    OBVIOUS
  <2>3. ~(0 < r.mips[t] /\ r.mips[t] < c.f.at)
    BY <1>2, <2>1, <2>2
  <2>4. Recording(r) = c.k => ~(0 < r.clear[t] /\ r.clear[t] < c.f.at)
    BY <1>1, <1>2, <2>1, <2>2
  <2> QED BY <1>1, <2>1, <2>3, <2>4
<1> QED BY <1>1, <1>3, <1>4, <1>5, <1>6, <1>7, <1>8, <1>9, <1>10 DEF Ok, Good

(* clearWithLoadAction(): the call waits as the clear of textures ts of g, *)
(* which has the marks of the call.                                        *)
LEMMA ClearWithLoadActionOk ==
  ASSUME StreamAssumption, NEW s, NEW c \in CallState, NEW g \in Targets,
         NEW ts \in SUBSET Attachments[g], Ok(s, c), s.serial # 0,
         c.k # 0 => \A t \in Attachments[g] : c.marks[t] = c.k
  PROVE  LET r == ClearWithLoadAction(s, g, ts, c.n) IN Ok(r, c) /\ r.serial # 0
<1> DEFINE resolved == ResolveOther(s, g)
           ended == IF resolved.render = g THEN EndEncoder(resolved) ELSE resolved
           r == [ended EXCEPT !.clearTarget = g, !.clear = Mark(ended.clear, ts, c.n)]
<1>1. ClearWithLoadAction(s, g, ts, c.n) = r
  BY DEF ClearWithLoadAction
<1>2. Ok(resolved, c) /\ resolved.serial # 0 /\ (resolved.clearTarget = g \/ resolved.clear = NoTimes)
  BY ResolvePendingClearOk DEF ResolveOther
<1> HIDE DEF resolved
<1>3. Ok(ended, c) /\ ended.serial # 0 /\ ended.render # g /\ (ended.clearTarget = g \/ ended.clear = NoTimes)
  <2>1. CASE resolved.render = g
    <3>1. Ok(EndEncoder(resolved), c) /\ Ended(resolved, EndEncoder(resolved))
      BY <1>2, EndEncoderOk
    <3> QED BY <1>2, <2>1, <3>1 DEF Ended, StreamAssumption
  <2>2. CASE resolved.render # g
    BY <1>2, <2>2
  <2> QED BY <2>1, <2>2
<1> HIDE DEF ended
<1>4. /\ ended \in StreamState /\ c.n \in Calls /\ c.n \in Nat /\ c.k \in Nat
      /\ ts \in SUBSET Textures /\ g \in Targets \cup {NoTarget} /\ g # NoTarget
  BY <1>3 DEF Ok, CallState, Calls, StreamAssumption
<1>5. Mark(ended.clear, ts, c.n) \in Times
  BY <1>4, MarkIsTimes DEF StreamState
<1>6. /\ r \in StreamState /\ r.serial = ended.serial /\ r.next = ended.next /\ r.last = ended.last
      /\ r.render = ended.render /\ r.blit = ended.blit /\ r.compute = ended.compute
      /\ r.clearTarget = g /\ r.clear = Mark(ended.clear, ts, c.n) /\ r.store = ended.store
      /\ r.discardTarget = ended.discardTarget /\ r.load = ended.load
      /\ r.blocked = ended.blocked /\ r.mips = ended.mips /\ r.prelude = ended.prelude /\ r.body = ended.body
  BY <1>4, <1>5 DEF StreamState
<1> HIDE DEF r
<1>7. \A t \in Textures : r.clear[t] = IF t \in ts THEN c.n ELSE ended.clear[t]
  BY <1>6, MarkAt
<1>8. \A t \in Textures : /\ ended.clear[t] <= c.n /\ ended.store[t] <= c.n /\ ended.load[t] <= c.n
                          /\ ended.prelude[t] <= c.n
                          /\ \A i \in DOMAIN ended.body[t] : ended.body[t][i].at <= c.n
  BY <1>3 DEF Ok, Good, Past
<1>9. \A t \in Textures : ended.clear[t] # 0 => ended.clearTarget = g
  BY <1>3, NoTimesAreTimes
<1>10. PendingLast(r)
  <2>1. ASSUME NEW t \in Textures, r.clear[t] # 0
        PROVE  /\ t \in Attachments[g]
               /\ \A i \in DOMAIN ended.body[t] :
                    ended.body[t][i].use # "discard" => ended.body[t][i].at <= r.clear[t]
    <3>1. CASE t \in ts
      BY <1>7, <1>8, <3>1
    <3>2. CASE t \notin ts
      BY <1>3, <1>7, <1>9, <2>1, <3>2 DEF Ok, Good, PendingLast
    <3> QED BY <3>1, <3>2
  <2> QED BY <1>3, <1>4, <1>6, <2>1 DEF PendingLast
<1>11. WaitsLater(r, c.marks)
  BY <1>3, <1>6, <1>7, <1>8 DEF WaitsLater, Ok, Good
<1>12. Recording(r) = c.k => c.k # 0
  BY <1>3, <1>6 DEF Recording
<1>13. Waits(ended, r)
  BY <1>3, <1>6 DEF Waits
<1>14. \A t \in Textures : /\ r.clear[t] <= c.n /\ r.store[t] <= c.n /\ r.load[t] <= c.n
                           /\ r.mips[t] \in {ended.mips[t], c.n} /\ r.clear[t] \in {ended.clear[t], c.n}
  BY <1>4, <1>6, <1>7, <1>8
<1>15. Ok(r, c)
  BY <1>3, <1>6, <1>10, <1>11, <1>12, <1>13, <1>14, WaitOk
<1> QED BY <1>1, <1>3, <1>6, <1>15

(* generateMipmapsAfterChange(): the mipmaps of t wait.                    *)
LEMMA DeferMipmapsOk ==
  ASSUME StreamAssumption, NEW s, NEW c \in CallState, NEW t \in Textures, Ok(s, c), s.serial # 0
  PROVE  LET r == DeferMipmaps(s, t, c.n) IN
         /\ Ok(r, c) /\ r.serial = s.serial
         /\ r.mips[t] # 0 => r.mips[t] = c.n
<1> DEFINE r == DeferMipmaps(s, t, c.n)
           mips == Mark(s.mips, {t} \cap Mipmapped, c.n)
<1>1. s \in StreamState /\ c.n \in Calls /\ c.n \in Nat
  BY DEF Ok, CallState, Calls
<1>2. mips \in Times /\ \A u \in Textures : mips[u] = IF u = t /\ t \in Mipmapped THEN c.n ELSE s.mips[u]
  <2>1. mips \in Times
    BY <1>1, MarkIsTimes DEF StreamState
  <2>2. \A u \in Textures : mips[u] = IF u \in {t} \cap Mipmapped THEN c.n ELSE s.mips[u]
    BY MarkAt
  <2> QED BY <2>1, <2>2
<1>3. r = [s EXCEPT !.mips = mips]
  BY DEF DeferMipmaps
<1> HIDE DEF mips, r
<1>4. /\ r \in StreamState /\ r.serial = s.serial /\ r.next = s.next /\ r.last = s.last
      /\ r.render = s.render /\ r.blit = s.blit /\ r.compute = s.compute
      /\ r.clearTarget = s.clearTarget /\ r.clear = s.clear /\ r.store = s.store
      /\ r.discardTarget = s.discardTarget /\ r.load = s.load
      /\ r.blocked = s.blocked /\ r.mips = mips /\ r.prelude = s.prelude /\ r.body = s.body
  BY <1>1, <1>2, <1>3 DEF StreamState
<1>5. \A u \in Textures : /\ s.clear[u] <= c.n /\ s.store[u] <= c.n /\ s.load[u] <= c.n /\ s.prelude[u] <= c.n
  BY DEF Ok, Good, Past
<1>6. WaitsLater(r, c.marks)
  BY <1>2, <1>4, <1>5 DEF WaitsLater, Ok, Good
<1>7. PendingLast(r)
  BY <1>4 DEF PendingLast, Ok, Good
<1>8. Recording(r) = c.k /\ AnyOf(r.clear) => \A u \in Attachments[r.clearTarget] : c.marks[u] = c.k
  BY <1>4 DEF Recording, Ok, OwnWork
<1>9. Waits(s, r)
  BY <1>4 DEF Waits
<1>10. Ok(r, c)
  BY <1>1, <1>2, <1>4, <1>5, <1>6, <1>7, <1>8, <1>9, WaitOk
<1>11. r.mips[t] # 0 => r.mips[t] = c.n
  <2>1. s.mips[t] # 0 => t \in Mipmapped
    BY DEF Ok, Good, WaitsLater
  <2> QED BY <1>2, <1>4, <2>1
<1> QED BY <1>4, <1>10, <1>11 DEF r

(* An upload to t runs ahead of the command buffer.                        *)
Ahead(s, t, n) == [s EXCEPT !.load = NoTimes, !.prelude[t] = n]

LEMMA AheadOk ==
  ASSUME StreamAssumption, NEW s, NEW c \in CallState, NEW t \in Textures, Ok(s, c), s.serial # 0,
         c.marks[t] # s.serial, ~PendingClearUses(s, t), ~s.blocked, s.mips[t] # 0 => s.mips[t] = c.n
  PROVE  Ok(Ahead(s, t, c.n), c) /\ Ahead(s, t, c.n).serial = s.serial
<1> DEFINE ahead == [s.prelude EXCEPT ![t] = c.n]
           r == [s EXCEPT !.load = NoTimes, !.prelude = ahead]
<1>1. s \in StreamState /\ c.n \in Calls /\ c.n \in Nat /\ c.f.at \in Nat /\ c.f.at <= c.n
  BY DEF Ok, CallState, Calls
<1>2. NoTimes \in Times /\ \A u \in Textures : NoTimes[u] = 0
  BY NoTimesAreTimes
<1>3. ahead \in Times /\ \A u \in Textures : ahead[u] = IF u = t THEN c.n ELSE s.prelude[u]
  BY <1>1 DEF StreamState, Times
<1>4. Ahead(s, t, c.n) = r
  BY <1>1 DEF StreamState, Ahead
<1> HIDE DEF ahead
<1>5. /\ r \in StreamState /\ r.serial = s.serial /\ r.next = s.next /\ r.last = s.last
      /\ r.render = s.render /\ r.blit = s.blit /\ r.compute = s.compute
      /\ r.clearTarget = s.clearTarget /\ r.clear = s.clear /\ r.store = s.store
      /\ r.discardTarget = s.discardTarget /\ r.load = NoTimes
      /\ r.blocked = s.blocked /\ r.mips = s.mips /\ r.prelude = ahead /\ r.body = s.body
  BY <1>1, <1>2, <1>3 DEF StreamState
<1> HIDE DEF r
<1>6. Recording(r) = Recording(s) /\ Recording(s) = s.serial
  BY <1>5 DEF Recording
<1>7. \A u \in Textures : r.prelude[u] = IF u = t THEN c.n ELSE s.prelude[u]
  BY <1>3, <1>5
<1>8. \A u \in Textures : /\ s.clear[u] <= c.n /\ s.store[u] <= c.n /\ s.mips[u] <= c.n /\ s.prelude[u] <= c.n
                          /\ \A i \in DOMAIN s.body[u] : s.body[u][i].at <= c.n
  BY DEF Ok, Good, Past
(* Nothing waits for t, and no draw samples it.                            *)
<1>9. s.clear[t] = 0
  BY DEF PendingClearUses, AnyOf, Ok, Good, PendingLast
<1>10. s.store[t] = 0
  BY DEF Ok, Good, WaitsLater
<1>11. \A i \in DOMAIN s.body[t] : s.body[t][i].use # "sample"
  BY DEF Ok, Good, SamplesMarked
<1>12. Serials(r, c.f)
  BY <1>5 DEF Serials, Ok, Good
<1>13. Past(r, c.n)
  BY <1>1, <1>2, <1>5, <1>7, <1>8 DEF Past
<1>14. Encoders(r)
  BY <1>5 DEF Encoders, Ok, Good
<1>15. PendingLast(r)
  BY <1>5 DEF PendingLast, Ok, Good
<1>16. SamplesKept(r)
  BY <1>5, <1>7, <1>11 DEF SamplesKept, Ok, Good
<1>17. SamplesMarked(r, c.marks)
  BY <1>5 DEF SamplesMarked, Ok, Good
<1>18. CallsInOrder(r)
  BY <1>5 DEF CallsInOrder, Swapped, Ok, Good
<1>19. WaitsLater(r, c.marks)
  <2> SUFFICES ASSUME NEW u \in Textures
               PROVE  /\ r.clear[u] # 0 => r.prelude[u] <= r.clear[u]
                      /\ r.store[u] # 0 => r.prelude[u] <= r.store[u] /\ r.render # NoTarget /\ c.marks[u] = r.serial
                      /\ r.load[u] # 0 => /\ r.prelude[u] <= r.load[u]
                                          /\ r.discardTarget # NoTarget /\ u \in Attachments[r.discardTarget]
                      /\ r.mips[u] # 0 => r.prelude[u] <= r.mips[u] /\ u \in Mipmapped
    BY DEF WaitsLater
  <2>1. /\ s.clear[u] # 0 => s.prelude[u] <= s.clear[u]
        /\ s.store[u] # 0 => s.prelude[u] <= s.store[u] /\ s.render # NoTarget /\ c.marks[u] = s.serial
        /\ s.mips[u] # 0 => s.prelude[u] <= s.mips[u] /\ u \in Mipmapped
    BY DEF Ok, Good, WaitsLater
  <2> QED BY <1>1, <1>2, <1>5, <1>7, <1>9, <1>10, <2>1
<1>20. Recording(r) = c.k => OwnWork(r, c.marks)
  <2> SUFFICES ASSUME Recording(r) = c.k PROVE OwnWork(r, c.marks)
    OBVIOUS
  <2>1. OwnWork(s, c.marks)
    BY <1>6 DEF Ok
  <2>2. s.body[t] = <<>>
    BY <1>6, <2>1 DEF OwnWork
  <2>3. \A i \in DOMAIN s.body[t] : FALSE
    BY <2>2
  <2> QED BY <1>5, <1>6, <1>7, <2>1, <2>3 DEF OwnWork
<1>21. NoneLate(r, c.f, Recording(r) = c.k)
  <2>1. \A u \in Textures : r.prelude[u] = s.prelude[u] \/ ~(r.prelude[u] < c.f.at)
    BY <1>1, <1>7
  <2> QED BY <1>5, <1>6, <2>1 DEF NoneLate, Ok
<1>22. Ok(r, c)
  BY <1>5, <1>6, <1>12, <1>13, <1>14, <1>15, <1>16, <1>17, <1>18, <1>19, <1>20, <1>21 DEF Ok, Good
<1> QED BY <1>4, <1>5, <1>22

(* glInvalidateFramebuffer of the attachments ts of g: dropped at the end  *)
(* of the pass in progress ...                                             *)
LEMMA DropLaterOk ==
  ASSUME StreamAssumption, NEW s, NEW c \in CallState, NEW g \in Targets,
         NEW ts \in SUBSET Attachments[g], Ok(s, c), s.serial # 0,
         s.render = g, \A t \in Attachments[g] : c.marks[t] = s.serial
  PROVE  LET r == [s EXCEPT !.store = Mark(s.store, ts, c.n)] IN
         Ok(r, c) /\ r.serial = s.serial
<1> DEFINE store == Mark(s.store, ts, c.n)
           r == [s EXCEPT !.store = store]
<1>1. s \in StreamState /\ c.n \in Calls /\ c.n \in Nat
  BY DEF Ok, CallState, Calls
<1>2. store \in Times /\ \A t \in Textures : store[t] = IF t \in ts THEN c.n ELSE s.store[t]
  BY <1>1, MarkIsTimes, MarkAt DEF StreamState
<1> HIDE DEF store
<1>3. /\ r \in StreamState /\ r.serial = s.serial /\ r.next = s.next /\ r.last = s.last
      /\ r.render = s.render /\ r.blit = s.blit /\ r.compute = s.compute
      /\ r.clearTarget = s.clearTarget /\ r.clear = s.clear /\ r.store = store
      /\ r.discardTarget = s.discardTarget /\ r.load = s.load
      /\ r.blocked = s.blocked /\ r.mips = s.mips /\ r.prelude = s.prelude /\ r.body = s.body
  BY <1>1, <1>2 DEF StreamState
<1> HIDE DEF r
<1>4. \A t \in Textures : /\ s.clear[t] <= c.n /\ s.store[t] <= c.n /\ s.load[t] <= c.n /\ s.prelude[t] <= c.n
  BY DEF Ok, Good, Past
<1>5. WaitsLater(r, c.marks)
  BY <1>2, <1>3, <1>4 DEF WaitsLater, Ok, Good, StreamAssumption
<1>6. PendingLast(r)
  BY <1>3 DEF PendingLast, Ok, Good
<1>7. Recording(r) = c.k /\ AnyOf(r.clear) => \A t \in Attachments[r.clearTarget] : c.marks[t] = c.k
  BY <1>3 DEF Recording, Ok, OwnWork
<1>8. Waits(s, r)
  BY <1>3 DEF Waits
<1>9. Ok(r, c)
  BY <1>1, <1>2, <1>3, <1>4, <1>5, <1>6, <1>7, <1>8, WaitOk
<1> QED BY <1>3, <1>9 DEF r, store

(* ... or at the start of the next pass on g.                              *)
DropNext(s, g, ts, n) ==
  LET kept == IF s.discardTarget = g THEN s.load ELSE NoTimes IN
  [s EXCEPT !.load = Mark(kept, ts, n), !.discardTarget = g]

LEMMA DropNextOk ==
  ASSUME StreamAssumption, NEW s, NEW c \in CallState, NEW g \in Targets,
         NEW ts \in SUBSET Attachments[g], Ok(s, c), s.serial # 0
  PROVE  Ok(DropNext(s, g, ts, c.n), c) /\ DropNext(s, g, ts, c.n).serial = s.serial
<1> DEFINE kept == IF s.discardTarget = g THEN s.load ELSE NoTimes
           load == Mark(kept, ts, c.n)
           r == [s EXCEPT !.load = load, !.discardTarget = g]
<1>0. DropNext(s, g, ts, c.n) = r
  BY DEF DropNext
<1>1. s \in StreamState /\ c.n \in Calls /\ c.n \in Nat /\ g # NoTarget /\ kept \in Times
  BY NoTimesAreTimes DEF Ok, CallState, Calls, StreamAssumption, StreamState
<1>2. load \in Times /\ \A t \in Textures : load[t] = IF t \in ts THEN c.n ELSE kept[t]
  BY <1>1, MarkIsTimes, MarkAt
<1>3. \A t \in Textures : kept[t] # 0 => s.discardTarget = g /\ kept[t] = s.load[t]
  BY NoTimesAreTimes
<1> HIDE DEF load
<1>4. /\ r \in StreamState /\ r.serial = s.serial /\ r.next = s.next /\ r.last = s.last
      /\ r.render = s.render /\ r.blit = s.blit /\ r.compute = s.compute
      /\ r.clearTarget = s.clearTarget /\ r.clear = s.clear /\ r.store = s.store
      /\ r.discardTarget = g /\ r.load = load
      /\ r.blocked = s.blocked /\ r.mips = s.mips /\ r.prelude = s.prelude /\ r.body = s.body
  BY <1>1, <1>2 DEF StreamState
<1> HIDE DEF r
<1>5. \A t \in Textures : /\ s.clear[t] <= c.n /\ s.store[t] <= c.n /\ s.load[t] <= c.n /\ s.prelude[t] <= c.n
  BY DEF Ok, Good, Past
<1>6. \A t \in Textures : load[t] <= c.n
  <2>1. \A t \in Textures : kept[t] \in Nat
    BY <1>1 DEF Times, Calls
  <2> QED BY <1>1, <1>2, <1>3, <1>5, <2>1
<1>7. WaitsLater(r, c.marks)
  BY <1>1, <1>2, <1>3, <1>4, <1>5 DEF WaitsLater, Ok, Good
<1>8. PendingLast(r)
  BY <1>4 DEF PendingLast, Ok, Good
<1>9. Recording(r) = c.k /\ AnyOf(r.clear) => \A t \in Attachments[r.clearTarget] : c.marks[t] = c.k
  BY <1>4 DEF Recording, Ok, OwnWork
<1>10. Waits(s, r)
  BY <1>4 DEF Waits
<1>11. Ok(r, c)
  BY <1>1, <1>4, <1>5, <1>6, <1>7, <1>8, <1>9, <1>10, WaitOk
<1> QED BY <1>0, <1>4, <1>11

-----------------------------------------------------------------------------
(***************************************************************************)
(* From IInv to the call, and back.                                        *)
(***************************************************************************)

(* glFenceSync: nothing recorded is late for a fence of this command       *)
(* buffer, nor for one of an earlier buffer when nothing is.               *)
LEMMA RefenceOk ==
  ASSUME StreamAssumption, NEW s, NEW c \in CallState, NEW d \in CallState, Ok(s, c),
         d.n = c.n, d.k = c.k, d.marks = c.marks, d.f.serial < s.next,
         d.f.serial < Recording(s) => s.serial = 0 /\ ~AnyOf(s.clear)
  PROVE  Ok(s, d)
<1>1. Serials(s, d.f)
  BY DEF Serials, Ok, Good
<1>2. NoneLate(s, d.f, Recording(s) = d.k)
  <2> SUFFICES ASSUME d.f.serial < Recording(s), NEW t \in Textures
               PROVE  /\ s.mips[t] = 0 /\ s.prelude[t] = 0 /\ s.clear[t] = 0
                      /\ s.body[t] = <<>>
    BY DEF NoneLate
  <2>1. s.serial = 0 /\ s.clear[t] = 0
    BY DEF AnyOf
  <2>2. s.mips = NoTimes /\ s.prelude = NoTimes /\ s.body[t] = <<>>
    BY <2>1 DEF Ok, Good, Encoders
  <2> QED BY <2>1, <2>2, NoTimesAreTimes
<1> QED BY <1>1, <1>2 DEF Ok, Good

(* The serial of a command buffer whose calls began in it: the one being   *)
(* recorded, or the next one, unless it takes over work.                   *)
Took == carries \/ (stream.serial = 0 /\ AnyOf(stream.clear))

(* A call with the given marks, and the fence it leaves.                   *)
Began(marks, f) ==
  [n |-> now + 1, marks |-> marks, k |-> IF Took THEN 0 ELSE Recording(stream), f |-> f]

LEMMA CallBegins ==
  ASSUME StreamAssumption, IInv, now < MaxCalls, NEW marks \in [Textures -> Nat],
         \A t \in Textures : marks[t] = touch[t] \/ marks[t] = Recording(stream)
  PROVE  Began(marks, fence) \in CallState /\ Ok(stream, Began(marks, fence))
<1> DEFINE c == Began(marks, fence)
<1>1. /\ stream \in StreamState /\ now \in Nat /\ now + 1 \in Calls /\ fence \in [serial : Nat, at : Calls]
      /\ fence.at \in Nat /\ fence.at <= now /\ stream.serial \in Nat /\ stream.next \in Nat
  BY DEF IInv, TypeOK, StreamState, Calls, StreamAssumption
<1>2. stream.serial < stream.next
  BY DEF IInv, Good, Serials
<1>3. Recording(stream) \in Nat /\ Recording(stream) # 0
  BY <1>1, <1>2 DEF Recording
<1>4. /\ c \in [n : Calls, marks : [Textures -> Nat], k : Nat, f : [serial : Nat, at : Calls]]
      /\ c.n = now + 1 /\ c.marks = marks /\ c.f = fence /\ (Took => c.k = 0) /\ (~Took => c.k = Recording(stream))
  BY <1>1, <1>3 DEF Began
<1> HIDE DEF c
<1>5. c \in CallState
  BY <1>1, <1>4 DEF CallState
<1>6. c.k <= Recording(stream) /\ (Recording(stream) = c.k => ~Took)
  BY <1>3, <1>4
<1>7. Past(stream, c.n)
  <2> SUFFICES ASSUME NEW t \in Textures
               PROVE  /\ stream.clear[t] <= c.n /\ stream.store[t] <= c.n /\ stream.load[t] <= c.n
                      /\ stream.mips[t] <= c.n /\ stream.prelude[t] <= c.n
                      /\ \A i \in DOMAIN stream.body[t] : stream.body[t][i].at <= c.n
    BY DEF Past
  <2>1. /\ stream.clear[t] <= now /\ stream.store[t] <= now /\ stream.load[t] <= now
        /\ stream.mips[t] <= now /\ stream.prelude[t] <= now
        /\ \A i \in DOMAIN stream.body[t] : stream.body[t][i].at <= now
    BY DEF IInv, Good, Past
  <2>2. /\ stream.clear[t] \in Nat /\ stream.store[t] \in Nat /\ stream.load[t] \in Nat
        /\ stream.mips[t] \in Nat /\ stream.prelude[t] \in Nat
        /\ \A i \in DOMAIN stream.body[t] : stream.body[t][i].at \in Nat
    <3>1. /\ stream.clear[t] \in Calls /\ stream.store[t] \in Calls /\ stream.load[t] \in Calls
          /\ stream.mips[t] \in Calls /\ stream.prelude[t] \in Calls
          /\ stream.body[t] \in Seq(Command)
      BY <1>1 DEF StreamState, Times
    <3>2. \A i \in DOMAIN stream.body[t] : stream.body[t][i] \in Command
      BY <3>1
    <3> QED BY <3>1, <3>2 DEF Calls, Command
  <2>3. \A m \in Nat : m <= now => m <= c.n
    BY <1>1, <1>4
  <2> QED BY <2>1, <2>2, <2>3
<1>8. stream.serial = 0 => /\ stream.render = NoTarget /\ stream.prelude = NoTimes /\ stream.mips = NoTimes
                           /\ \A t \in Textures : stream.body[t] = <<>>
  BY DEF IInv, Good, Encoders
<1>9. stream.serial # 0 => Recording(stream) = stream.serial
  BY DEF Recording
<1>10. SamplesMarked(stream, marks)
  <2> SUFFICES ASSUME NEW t \in Textures, NEW i \in DOMAIN stream.body[t], stream.body[t][i].use = "sample"
               PROVE  marks[t] = stream.serial
    BY DEF SamplesMarked
  <2>1. touch[t] = stream.serial
    BY DEF IInv, Good, SamplesMarked
  <2> QED BY <1>8, <1>9, <2>1
<1>11. WaitsLater(stream, marks)
  <2>1. WaitsLater(stream, touch)
    BY DEF IInv, Good
  <2> QED BY <1>8, <1>9, <2>1 DEF WaitsLater
<1>12. Recording(stream) = c.k => OwnWork(stream, marks)
  <2> SUFFICES ASSUME ~Took PROVE OwnWork(stream, marks)
    BY <1>6
  <2>1. CASE stream.serial = 0
    <3>1. ~AnyOf(stream.clear)
      BY <2>1 DEF Took
    <3> QED BY <1>8, <2>1, <3>1 DEF OwnWork
  <2>2. CASE stream.serial # 0
    <3>1. OwnWork(stream, touch)
      BY <2>2 DEF IInv, Own, Took
    <3>2. AnyOf(stream.clear) => Attachments[stream.clearTarget] \subseteq Textures
      BY <1>1 DEF IInv, Good, PendingLast, StreamState, StreamAssumption
    <3> QED BY <3>1, <3>2 DEF OwnWork
  <2> QED BY <2>1, <2>2
<1>13. NoneLate(stream, fence, Recording(stream) = c.k)
  <2>1. CASE stream.serial = 0
    <3>1. \A t \in Textures : stream.mips[t] = 0 /\ stream.prelude[t] = 0
      BY <1>8, <2>1, NoTimesAreTimes
    <3>2. Recording(stream) = c.k => \A t \in Textures : stream.clear[t] = 0
      BY <1>6, <2>1 DEF Took, AnyOf
    <3> QED BY <1>8, <2>1, <3>1, <3>2 DEF NoneLate
  <2>2. CASE stream.serial # 0
    <3>1. NoneLate(stream, fence, Own)
      BY DEF IInv
    <3>2. Recording(stream) = c.k => Own
      BY <1>6, <2>2 DEF Took, Own
    <3> QED BY <3>1, <3>2 DEF NoneLate
  <2> QED BY <2>1, <2>2
<1>14. Ok(stream, c)
  BY <1>1, <1>4, <1>6, <1>7, <1>10, <1>11, <1>12, <1>13 DEF Ok, Good, IInv
<1> QED BY <1>5, <1>14 DEF c

(* A call is done: no command buffer is left whose uploads may not run     *)
(* ahead but the one being recorded.                                       *)
LEMMA CallEnds ==
  ASSUME StreamAssumption, IInv, now < MaxCalls, now' = now + 1, TakeOver,
         Began(touch', fence') \in CallState, Ok(stream', Began(touch', fence')),
         stream'.serial = 0 => ~stream'.blocked
  PROVE  IInv'
<1> DEFINE c == Began(touch', fence')
<1>1. c.n = now' /\ c.marks = touch' /\ c.f = fence' /\ (Took => c.k = 0) /\ (~Took => c.k = Recording(stream))
  BY DEF Began
<1> HIDE DEF c
<1>2. /\ stream' \in StreamState /\ stream'.serial \in Nat /\ stream'.next \in Nat /\ c.k \in Nat
      /\ now' \in Calls /\ touch' \in [Textures -> Nat] /\ fence' \in [serial : Nat, at : Calls]
      /\ fence'.at <= now' /\ c \in CallState /\ Ok(stream', c)
  BY <1>1 DEF Ok, CallState, StreamState, c
<1>3. /\ stream \in StreamState /\ stream.serial \in Nat /\ stream.next \in Nat /\ stream.serial < stream.next
      /\ (stream.serial = 0 => ~carries)
  BY DEF IInv, TypeOK, Good, Serials, StreamState
<1>4. TypeOK'
  BY <1>2 DEF TypeOK, TakeOver
<1>5. Good(stream', now', touch', fence')
  BY <1>1, <1>2 DEF Ok
<1>6. stream'.serial = 0 => ~stream'.blocked /\ ~carries'
  BY DEF TakeOver
<1>7. Own' => Recording(stream') = c.k
  <2> SUFFICES ASSUME Own' PROVE Recording(stream') = c.k
    OBVIOUS
  <2>1. Recording(stream') = stream'.serial /\ stream'.serial # 0 /\ ~carries'
    BY DEF Own, Recording
  <2>2. CASE stream.serial = stream'.serial
    <3>1. ~Took /\ Recording(stream) = stream.serial
      BY <2>1, <2>2 DEF Took, TakeOver, Recording
    <3> QED BY <1>1, <2>1, <2>2, <3>1
  <2>3. CASE stream.serial # stream'.serial
    <3>1. stream.serial = 0 /\ stream'.next <= stream.next + 1 /\ ~AnyOf(stream.clear)
      BY <1>2, <1>3, <2>1, <2>3 DEF TakeOver
    <3>2. c.k = stream.next
      BY <1>1, <1>3, <3>1 DEF Took, Recording
    <3>3. c.k <= stream'.serial /\ stream'.serial < stream'.next
      BY <1>2, <2>1 DEF Ok, Good, Serials
    <3> QED BY <1>2, <1>3, <2>1, <3>1, <3>2, <3>3
  <2> QED BY <2>2, <2>3
<1>8. Own' => OwnWork(stream', touch')
  BY <1>1, <1>2, <1>7 DEF Ok
<1>9. NoneLate(stream', fence', Own')
  BY <1>1, <1>2, <1>7 DEF Ok, NoneLate
<1> QED BY <1>2, <1>4, <1>5, <1>6, <1>8, <1>9 DEF IInv, Own

-----------------------------------------------------------------------------
(***************************************************************************)
(* The calls.                                                              *)
(***************************************************************************)

(* A call that begins with a command buffer and marks the textures ts      *)
(* with its serial ...                                                     *)
LEMMA TexturesMarked ==
  ASSUME StreamAssumption, IInv, now < MaxCalls, NEW ts \in SUBSET Textures
  PROVE  LET valid  == Open(stream)
             marked == Mark(touch, ts, valid.serial)
             c      == Began(marked, fence) IN
         /\ marked \in [Textures -> Nat] /\ c \in CallState
         /\ Ok(valid, c) /\ valid.serial # 0 /\ valid.serial \in Nat
         /\ \A t \in ts : c.marks[t] = valid.serial
         /\ c.k \in {0, valid.serial}
<1> DEFINE valid == Open(stream)
           marked == Mark(touch, ts, valid.serial)
           c == Began(marked, fence)
<1>1. stream \in StreamState /\ touch \in [Textures -> Nat]
  BY DEF IInv, TypeOK
<1>2. valid \in StreamState /\ valid.serial = Recording(stream)
  BY <1>1, OpenFields
<1>3. valid.serial \in Nat
  BY <1>2 DEF StreamState
<1> HIDE DEF valid
<1>4. marked \in [Textures -> Nat]
  BY <1>1, <1>3, MarkIsMarks
<1>5. \A t \in Textures : marked[t] = IF t \in ts THEN valid.serial ELSE touch[t]
  BY MarkAt
<1> HIDE DEF marked
<1>6. \A t \in Textures : marked[t] = touch[t] \/ marked[t] = Recording(stream)
  BY <1>2, <1>5
<1>7. c \in CallState /\ Ok(stream, c)
  BY <1>4, <1>6, CallBegins
<1>8. c.marks = marked /\ c.k \in {0, valid.serial}
  BY <1>2 DEF Began
<1> HIDE DEF c
<1>9. Ok(valid, c) /\ valid.serial # 0
  BY <1>7, OpenOk DEF valid
<1>10. \A t \in ts : c.marks[t] = valid.serial
  BY <1>5, <1>8
<1> QED BY <1>3, <1>4, <1>7, <1>8, <1>9, <1>10 DEF c, marked, valid

(* ... or the attachments of a target.                                     *)
LEMMA TargetMarked ==
  ASSUME StreamAssumption, IInv, now < MaxCalls, NEW g \in Targets
  PROVE  LET valid  == Open(stream)
             marked == Mark(touch, Attachments[g], valid.serial)
             c      == Began(marked, fence) IN
         /\ marked \in [Textures -> Nat] /\ c \in CallState
         /\ Ok(valid, c) /\ valid.serial # 0
         /\ \A t \in Attachments[g] : c.marks[t] = valid.serial
         /\ c.k # 0 => \A t \in Attachments[g] : c.marks[t] = c.k
         /\ Marked(valid, c, g)
<1> DEFINE valid == Open(stream)
           marked == Mark(touch, Attachments[g], valid.serial)
           c == Began(marked, fence)
<1>1. Attachments[g] \in SUBSET Textures
  BY DEF StreamAssumption
<1>2. /\ marked \in [Textures -> Nat] /\ c \in CallState
      /\ Ok(valid, c) /\ valid.serial # 0
      /\ \A t \in Attachments[g] : c.marks[t] = valid.serial
      /\ c.k \in {0, valid.serial}
  BY <1>1, TexturesMarked
<1> HIDE DEF valid, marked, c
<1>3. Marked(valid, c, g)
  BY <1>2 DEF Marked, Recording
<1> QED BY <1>2, <1>3 DEF valid, marked, c

(* A call that marks nothing before it records.                            *)
LEMMA NothingMarked ==
  ASSUME StreamAssumption, IInv, now < MaxCalls
  PROVE  LET c == Began(touch, fence) IN c \in CallState /\ Ok(stream, c) /\ c.n = now + 1 /\ c.marks = touch
<1>1. touch \in [Textures -> Nat]
  BY DEF IInv, TypeOK
<1>2. Began(touch, fence) \in CallState /\ Ok(stream, Began(touch, fence))
  BY <1>1, CallBegins
<1> QED BY <1>2 DEF Began

LEMMA StepDraw ==
  ASSUME StreamAssumption, IInv, TakeOver, NEW g \in Targets, NEW ts \in SUBSET Textures, Draw(g, ts)
  PROVE  IInv'
<1> DEFINE valid == Open(stream)
           marked == Mark(touch, Attachments[g], valid.serial)
           c == Began(marked, fence)
<1>1. now < MaxCalls /\ now' = now + 1 /\ fence' = fence
  BY DEF Draw, Call
<1>2. PICK s \in LargeWork(valid) :
        /\ touch' = Mark(marked, ts, RenderDraw(s, g).serial)
        /\ stream' = EncodeDraw(RenderDraw(s, g), g, "sample", ts, now + 1)
  BY DEF Draw
<1>3. /\ marked \in [Textures -> Nat] /\ c \in CallState /\ Ok(valid, c) /\ Marked(valid, c, g)
  BY <1>1, TargetMarked
<1> HIDE DEF valid, marked
<1>4. Ok(s, c) /\ Marked(s, c, g)
  <2> DEFINE flushed == Flush(valid, TRUE)
  <2>1. Ok(flushed, c) /\ Frame(valid, flushed)
    BY <1>3, FlushOk
  <2>2. s = valid \/ s = flushed
    BY <1>2 DEF LargeWork
  <2> HIDE DEF flushed
  <2> QED BY <1>3, <2>1, <2>2, MarkedGoesOn
<1> DEFINE p == RenderDraw(s, g)
           d == Began(touch', fence)
<1>5. /\ Ok(p, c) /\ p.serial # 0 /\ p.clear = NoTimes /\ Marked(p, c, g)
      /\ touch' = Mark(marked, ts, p.serial)
      /\ stream' = EncodeDraw(p, g, "sample", ts, now + 1)
  BY <1>2, <1>3, <1>4, RenderDrawOk
<1> HIDE DEF p
<1>6. p \in StreamState /\ p.serial \in Nat
  BY <1>5 DEF Ok, StreamState
<1>7. touch' = Mark(marked, ts, p.serial) /\ touch' \in [Textures -> Nat]
  BY <1>3, <1>5, <1>6, MarkIsMarks
<1>8. /\ c.n = now + 1 /\ c.marks = marked /\ c.f = fence
      /\ d.n = c.n /\ d.k = c.k /\ d.f = c.f /\ d.marks = touch'
      /\ d = [n |-> c.n, marks |-> touch', k |-> c.k, f |-> c.f]
  BY DEF Began
<1> HIDE DEF c, d
<1>9. d \in CallState
  BY <1>3, <1>7, <1>8 DEF CallState
<1>10. Ok(p, d) /\ Marked(p, d, g)
  <2>1. d.marks = Mark(c.marks, ts, p.serial) /\ ts \in SUBSET Textures
    BY <1>7, <1>8
  <2>2. Ok(p, d) /\ \A e \in Targets : Marked(p, c, e) => Marked(p, d, e)
    BY <1>3, <1>5, <1>8, <1>9, <2>1, RemarkOk
  <2> QED BY <1>5, <2>2
<1>11. \A t \in ts : d.marks[t] = p.serial
  BY <1>7, <1>8, MarkAt
<1>12. Recording(p) = p.serial /\ p.serial # 0 /\ p.clear = NoTimes
  BY <1>5 DEF Recording
<1>13. LET r == EncodeDraw(p, g, "sample", ts, d.n) IN Ok(r, d) /\ r.serial # 0
  BY <1>9, <1>10, <1>11, <1>12, EncodeDrawOk
<1>14. stream' = EncodeDraw(p, g, "sample", ts, d.n)
  BY <1>5, <1>8
<1>15. Ok(stream', Began(touch', fence')) /\ Began(touch', fence') \in CallState /\ stream'.serial # 0
  BY <1>1, <1>9, <1>13, <1>14 DEF d
<1> QED BY <1>1, <1>15, CallEnds

LEMMA StepOtherPass ==
  ASSUME StreamAssumption, IInv, TakeOver, NEW g \in Targets, NEW ts \in SUBSET Textures, OtherPass(g, ts)
  PROVE  IInv'
<1> DEFINE c == Began(touch, fence)
           x == [stream EXCEPT !.blocked = TRUE]
           p == RenderDraw(x, g)
<1>1. now < MaxCalls /\ now' = now + 1 /\ fence' = fence /\ touch' = touch
      /\ stream' = EncodeDraw(p, g, "copy", ts, now + 1)
  BY DEF OtherPass, Call
<1>2. c \in CallState /\ Ok(stream, c) /\ c.n = now + 1
  BY <1>1, NothingMarked
<1> HIDE DEF c
<1>3. Ok(x, c) /\ x.blocked
  <2>1. PICK s : s = stream
    OBVIOUS
  <2> DEFINE y == [s EXCEPT !.blocked = TRUE, !.load = s.load]
  <2>2. x = y
    BY <1>2, <2>1 DEF Ok, StreamState
  <2>3. Ok(s, c)
    BY <1>2, <2>1
  <2>4. Ok(y, c) /\ y.blocked
    BY <1>2, <2>3, BlockOk
  <2> QED BY <2>2, <2>4
<1> HIDE DEF x
<1>4. Marked(x, c, g)
  BY <1>3 DEF Marked
<1>5. Ok(p, c) /\ Frame(x, p) /\ p.serial # 0 /\ p.clear = NoTimes /\ Marked(p, c, g)
  BY <1>2, <1>3, <1>4, RenderDrawOk
<1> HIDE DEF p
<1>6. Recording(p) = c.k => p.blocked
  BY <1>2, <1>3, <1>5, BlockedHere
<1>7. Ok(stream', c) /\ stream'.serial # 0
  BY <1>1, <1>2, <1>5, <1>6, EncodeDrawOk
<1> QED BY <1>1, <1>2, <1>7, CallEnds DEF c

LEMMA StepClear ==
  ASSUME StreamAssumption, IInv, TakeOver, NEW g \in Targets, NEW ts \in SUBSET Attachments[g],
         NEW full \in BOOLEAN, Clear(g, ts, full)
  PROVE  IInv'
<1> DEFINE valid == Open(stream)
           marked == Mark(touch, Attachments[g], valid.serial)
           c == Began(marked, fence)
           p == RenderDraw(valid, g)
           r == Encode(p, "draw", Mark(NoTimes, ts, now + 1))
<1>1. /\ now < MaxCalls /\ now' = now + 1 /\ fence' = fence /\ touch' = marked
      /\ \/ stream' = ClearWithLoadAction(valid, g, ts, now + 1)
         \/ stream' = [r EXCEPT !.draws = TRUE, !.recorded = TRUE]
  BY DEF Clear, Call
<1>2. /\ c \in CallState /\ Ok(valid, c) /\ valid.serial # 0 /\ Marked(valid, c, g)
      /\ \A t \in Attachments[g] : c.marks[t] = valid.serial
      /\ c.k # 0 => \A t \in Attachments[g] : c.marks[t] = c.k
  BY <1>1, TargetMarked
<1>3. c.n = now + 1
  BY DEF Began
<1> HIDE DEF valid, c
<1>4. CASE stream' = ClearWithLoadAction(valid, g, ts, now + 1)
  <2>1. Ok(stream', c) /\ stream'.serial # 0
    BY <1>2, <1>3, <1>4, ClearWithLoadActionOk
  <2> QED BY <1>1, <1>2, <2>1, CallEnds DEF c
<1>5. CASE stream' = [r EXCEPT !.draws = TRUE, !.recorded = TRUE]
  <2>1. Ok(p, c) /\ p.serial # 0 /\ p.clear = NoTimes /\ Marked(p, c, g)
    BY <1>2, RenderDrawOk
  <2> HIDE DEF p
  <2>2. "draw" \in Uses /\ ts \in SUBSET Textures /\ \A t \in ts : p.clear[t] = 0
    BY <2>1, NoTimesAreTimes DEF Uses, StreamAssumption
  <2>3. Recording(p) = c.k => p.blocked \/ \A t \in ts : c.marks[t] = c.k
    BY <2>1 DEF Marked
  <2>4. Ok(r, c) /\ SameBut(p, r)
    BY <1>2, <1>3, <2>1, <2>2, <2>3, CallJoins
  <2>5. r.serial # 0
    BY <2>1, <2>4 DEF SameBut
  <2> HIDE DEF r
  <2> DEFINE z == [r EXCEPT !.draws = TRUE, !.recorded = TRUE]
  <2>6. Ok(z, c) /\ z.serial = r.serial
    <3> SUFFICES ASSUME NEW s, s = r PROVE LET q == [s EXCEPT !.draws = TRUE, !.recorded = TRUE] IN
                                           Ok(q, c) /\ q.serial = s.serial
      OBVIOUS
    <3>1. Ok(s, c)
      BY <2>4
    <3> QED BY <1>2, <3>1, DrawnOk
  <2>7. Ok(stream', c) /\ stream'.serial # 0
    BY <1>5, <2>5, <2>6
  <2> QED BY <1>1, <1>2, <2>7, CallEnds DEF c
<1> QED BY <1>1, <1>4, <1>5

LEMMA StepInvalidate ==
  ASSUME StreamAssumption, IInv, TakeOver, NEW g \in Targets, NEW ts \in SUBSET Attachments[g], Invalidate(g, ts)
  PROVE  IInv'
<1> DEFINE valid == Open(stream)
           marked == Mark(touch, Attachments[g], valid.serial)
           c == Began(marked, fence)
           kept == IF valid.discardTarget = g THEN valid.load ELSE NoTimes
<1>1. /\ now < MaxCalls /\ now' = now + 1 /\ fence' = fence /\ touch' = marked
      /\ stream' = IF valid.render = g
                     THEN [valid EXCEPT !.store = Mark(valid.store, ts, now + 1)]
                     ELSE [valid EXCEPT !.load = Mark(kept, ts, now + 1), !.discardTarget = g]
  BY DEF Invalidate, Call
<1>2. /\ c \in CallState /\ Ok(valid, c) /\ valid.serial # 0
      /\ \A t \in Attachments[g] : c.marks[t] = valid.serial
  BY <1>1, TargetMarked
<1>3. c.n = now + 1
  BY DEF Began
<1> HIDE DEF valid, c
<1>4. CASE valid.render = g
  <2>1. Ok(stream', c) /\ stream'.serial # 0
    BY <1>1, <1>2, <1>3, <1>4, DropLaterOk
  <2> QED BY <1>1, <1>2, <2>1, CallEnds DEF c
<1>5. CASE valid.render # g
  <2>1. stream' = DropNext(valid, g, ts, c.n)
    BY <1>1, <1>3, <1>5 DEF DropNext
  <2>2. Ok(stream', c) /\ stream'.serial # 0
    BY <1>2, <2>1, DropNextOk
  <2> QED BY <1>1, <1>2, <2>2, CallEnds DEF c
<1> QED BY <1>4, <1>5

LEMMA StepUpload ==
  ASSUME StreamAssumption, IInv, TakeOver, NEW t \in Textures, Upload(t)
  PROVE  IInv'
<1> DEFINE valid == Open(stream)
           marked == Mark(touch, {t}, valid.serial)
           keep == ~PendingClearUses(valid, t)
           u == UploadBlit(valid, keep)
           r == Encode(u, "upload", Mark(NoTimes, {t}, now + 1))
<1>1. /\ now < MaxCalls /\ now' = now + 1 /\ fence' = fence
      /\ \/ /\ Hoistable(valid, t) /\ touch' = touch
            /\ stream' = DeferMipmaps(Ahead(valid, t, now + 1), t, now + 1)
         \/ /\ touch' = marked
            /\ stream' = DeferMipmaps(r, t, now + 1)
  BY DEF Upload, Call, Ahead
<1>2. CASE Hoistable(valid, t) /\ touch' = touch /\ stream' = DeferMipmaps(Ahead(valid, t, now + 1), t, now + 1)
  <2> DEFINE c == Began(touch, fence)
             x == DeferMipmaps(valid, t, c.n)
  <2>1. c \in CallState /\ Ok(stream, c) /\ c.n = now + 1 /\ c.marks = touch
    BY <1>1, NothingMarked
  <2> HIDE DEF c
  <2>2. Ok(valid, c) /\ valid.serial # 0
    BY <2>1, OpenOk
  <2> HIDE DEF valid
  <2>3. Ok(x, c) /\ x.serial = valid.serial /\ (x.mips[t] # 0 => x.mips[t] = c.n)
    BY <2>1, <2>2, DeferMipmapsOk
  <2>4. x.clear = valid.clear /\ x.clearTarget = valid.clearTarget /\ x.blocked = valid.blocked
    BY <2>2 DEF DeferMipmaps, Ok, StreamState
  <2>5. DeferMipmaps(Ahead(valid, t, now + 1), t, now + 1) = Ahead(x, t, c.n)
    BY <2>1, <2>2 DEF DeferMipmaps, Ahead, Ok, StreamState
  <2> HIDE DEF x
  <2>6. ~PendingClearUses(x, t) /\ ~x.blocked /\ c.marks[t] # x.serial /\ x.serial # 0
    BY <1>2, <2>1, <2>2, <2>3, <2>4 DEF Hoistable, PendingClearUses
  <2>7. Ok(stream', c) /\ stream'.serial # 0
    BY <1>2, <2>1, <2>3, <2>5, <2>6, AheadOk
  <2> QED BY <1>1, <1>2, <2>1, <2>7, CallEnds DEF c
<1>3. CASE touch' = marked /\ stream' = DeferMipmaps(r, t, now + 1)
  <2> DEFINE c == Began(marked, fence)
  <2>1. /\ c \in CallState /\ Ok(valid, c) /\ valid.serial # 0
        /\ c.marks[t] = valid.serial /\ c.k \in {0, valid.serial}
    BY <1>1, TexturesMarked
  <2>2. c.n = now + 1
    BY DEF Began
  <2> HIDE DEF valid, c
  <2>3. Ok(u, c) /\ Frame(valid, u) /\ u.serial # 0 /\ (keep \/ u.clear = NoTimes)
    BY <2>1, UploadBlitOk
  <2>4. u.clear[t] = 0
    <3>1. CASE keep
      <4>1. valid.clear[t] = 0
        BY <2>1, <3>1 DEF PendingClearUses, AnyOf, Ok, Good, PendingLast
      <4> QED BY <2>3, <4>1, NoTimesAreTimes DEF Frame
    <3>2. CASE u.clear = NoTimes
      BY <3>2, NoTimesAreTimes
    <3> QED BY <2>3, <3>1, <3>2
  <2> HIDE DEF keep, u
  <2>5. "upload" \in Uses /\ {t} \in SUBSET Textures
    BY DEF Uses
  <2>6. Recording(u) = c.k => \A v \in {t} : c.marks[v] = c.k
    BY <2>1, <2>3 DEF Recording
  <2>7. Ok(r, c) /\ SameBut(u, r)
    BY <2>1, <2>2, <2>3, <2>4, <2>5, <2>6, CallJoins
  <2> HIDE DEF r
  <2>8. r.serial # 0
    BY <2>3, <2>7 DEF SameBut
  <2>9. Ok(stream', c) /\ stream'.serial # 0
    BY <1>3, <2>1, <2>2, <2>7, <2>8, DeferMipmapsOk
  <2> QED BY <1>1, <1>3, <2>1, <2>9, CallEnds DEF c
<1> QED BY <1>1, <1>2, <1>3

LEMMA StepCopy ==
  ASSUME StreamAssumption, IInv, TakeOver, NEW ts \in SUBSET Textures, Copy(ts) \/ Dispatch(ts)
  PROVE  IInv'
<1> DEFINE c == Began(touch, fence)
           keep == ts = {}
           x == IF Copy(ts) THEN Blit(stream, keep) ELSE Compute(stream, keep)
           use == IF Copy(ts) THEN "copy" ELSE "dispatch"
<1>1. /\ now < MaxCalls /\ now' = now + 1 /\ fence' = fence /\ touch' = touch
      /\ stream' = Encode(x, use, Mark(NoTimes, ts, now + 1))
  BY DEF Copy, Dispatch, Call
<1>2. c \in CallState /\ Ok(stream, c) /\ c.n = now + 1
  BY <1>1, NothingMarked
<1>3. keep \in BOOLEAN
  OBVIOUS
<1> HIDE DEF c
<1>4. Ok(x, c) /\ x.serial # 0 /\ (keep \/ x.clear = NoTimes) /\ (Recording(x) = c.k => x.blocked)
  <2>1. CASE Copy(ts)
    <3>1. x = Blit(stream, keep)
      BY <2>1
    <3> HIDE DEF x, keep
    <3> QED BY <1>2, <1>3, <3>1, BlitOk
  <2>2. CASE ~Copy(ts)
    <3>1. x = Compute(stream, keep)
      BY <2>2
    <3> HIDE DEF x, keep
    <3> QED BY <1>2, <1>3, <3>1, ComputeOk
  <2> QED BY <2>1, <2>2
<1>5. use \in Uses /\ use # "sample"
  BY DEF Uses
<1>6. \A t \in ts : x.clear[t] = 0
  <2>1. CASE keep
    BY <2>1
  <2>2. CASE x.clear = NoTimes
    BY <2>2, NoTimesAreTimes
  <2> QED BY <1>4, <2>1, <2>2
<1> HIDE DEF x, use
<1>7. Ok(stream', c) /\ stream'.serial # 0
  <2> DEFINE r == Encode(x, use, Mark(NoTimes, ts, c.n))
  <2>1. Ok(r, c) /\ SameBut(x, r)
    BY <1>2, <1>4, <1>5, <1>6, CallJoins
  <2>2. stream' = r
    BY <1>1, <1>2
  <2> HIDE DEF r
  <2> QED BY <1>4, <2>1, <2>2 DEF SameBut
<1> QED BY <1>1, <1>2, <1>7, CallEnds DEF c

LEMMA StepFlush ==
  ASSUME StreamAssumption, IInv, TakeOver, GLFlush \/ Finish \/ OwnCommit
  PROVE  IInv'
<1> DEFINE c == Began(touch, fence)
<1>1. /\ now < MaxCalls /\ now' = now + 1 /\ fence' = fence /\ touch' = touch
      /\ \/ stream' = [stream EXCEPT !.flushDeferred = TRUE]
         \/ \E keep \in BOOLEAN : stream' = Flush(stream, keep)
  BY DEF GLFlush, Finish, OwnCommit, Call
<1>2. c \in CallState /\ Ok(stream, c)
  BY <1>1, NothingMarked
<1> HIDE DEF c
<1>3. stream.serial = 0 => ~stream.blocked
  BY DEF IInv
<1>4. CASE stream' = [stream EXCEPT !.flushDeferred = TRUE]
  <2>1. /\ stream' \in StreamState
        /\ stream'.serial = stream.serial /\ stream'.next = stream.next /\ stream'.last = stream.last
        /\ stream'.render = stream.render /\ stream'.blit = stream.blit /\ stream'.compute = stream.compute
        /\ stream'.clearTarget = stream.clearTarget /\ stream'.clear = stream.clear
        /\ stream'.store = stream.store /\ stream'.discardTarget = stream.discardTarget
        /\ stream'.load = stream.load /\ stream'.blocked = stream.blocked /\ stream'.mips = stream.mips
        /\ stream'.prelude = stream.prelude /\ stream'.body = stream.body
    BY <1>2, <1>4 DEF Ok, StreamState
  <2>2. Edited(stream, stream')
    BY <1>2, <2>1 DEF Edited, Ok, Good, Encoders, PendingLast
  <2>3. Ok(stream', c)
    BY <1>2, <2>1, <2>2, EditOk
  <2> QED BY <1>1, <1>2, <1>3, <2>1, <2>3, CallEnds DEF c
<1>5. ASSUME NEW keep \in BOOLEAN, stream' = Flush(stream, keep)
      PROVE  IInv'
  <2>1. Ok(stream', c) /\ ~stream'.blocked
    BY <1>2, <1>3, <1>5, FlushOk
  <2> QED BY <1>1, <1>2, <2>1, CallEnds DEF c
<1> QED BY <1>1, <1>4, <1>5

LEMMA StepEndPass ==
  ASSUME StreamAssumption, IInv, TakeOver, EndPass
  PROVE  IInv'
<1> DEFINE c == Began(touch, fence)
<1>1. /\ now < MaxCalls /\ now' = now + 1 /\ fence' = fence /\ touch' = touch
      /\ stream' = EndEncoder(stream)
  BY DEF EndPass, Call
<1>2. c \in CallState /\ Ok(stream, c)
  BY <1>1, NothingMarked
<1> HIDE DEF c
<1>3. Ok(stream', c) /\ Ended(stream, stream')
  BY <1>1, <1>2, EndEncoderOk
<1>4. stream'.serial = 0 => ~stream'.blocked
  BY <1>3 DEF Ended, IInv
<1> QED BY <1>1, <1>2, <1>3, <1>4, CallEnds DEF c

LEMMA StepFence ==
  ASSUME StreamAssumption, IInv, TakeOver, Fence
  PROVE  IInv'
<1> DEFINE c == Began(touch, fence)
           d == Began(touch, fence')
           s == IF stream.serial # 0 \/ AnyOf(stream.clear) THEN Open(stream) ELSE stream
           serial == IF stream.serial # 0 \/ AnyOf(stream.clear) THEN s.serial ELSE stream.last
<1>1. /\ now < MaxCalls /\ now' = now + 1 /\ touch' = touch
      /\ stream' = s /\ fence' = [serial |-> serial, at |-> now + 1]
  BY DEF Fence, Call
<1>2. c \in CallState /\ Ok(stream, c) /\ c.n = now + 1 /\ c.marks = touch
  BY <1>1, NothingMarked
<1>3. d.n = c.n /\ d.k = c.k /\ d.marks = c.marks /\ d.f = fence' /\ d = [n |-> c.n, marks |-> c.marks, k |-> c.k, f |-> fence']
  BY DEF Began
<1> HIDE DEF c, d
<1>4. /\ Ok(s, c) /\ serial < s.next
      /\ serial < Recording(s) => s.serial = 0 /\ ~AnyOf(s.clear)
      /\ s.serial = 0 => ~s.blocked
  <2>1. CASE stream.serial # 0 \/ AnyOf(stream.clear)
    <3>1. Ok(Open(stream), c) /\ Open(stream).serial # 0
      BY <1>2, OpenOk
    <3>2. s = Open(stream) /\ serial = s.serial
      BY <2>1
    <3> HIDE DEF s, serial
    <3>3. Ok(s, c) /\ s.serial # 0
      BY <3>1, <3>2
    <3>4. s.serial < s.next /\ s.serial \in Nat /\ s.next \in Nat
      BY <3>3 DEF Ok, Good, Serials, StreamState
    <3>5. Recording(s) = s.serial
      BY <3>3 DEF Recording
    <3> QED BY <3>2, <3>3, <3>4, <3>5
  <2>2. CASE ~(stream.serial # 0 \/ AnyOf(stream.clear))
    <3>1. s = stream /\ serial = stream.last
      BY <2>2
    <3> HIDE DEF s, serial
    <3>2. stream.last < stream.next /\ (stream.serial = 0 => ~stream.blocked)
      BY DEF IInv, Good, Serials
    <3> QED BY <1>2, <2>2, <3>1, <3>2
  <2> QED BY <2>1, <2>2
<1>5. serial \in Nat
  BY <1>2, <1>4 DEF Ok, StreamState
<1> HIDE DEF s, serial
<1>6. d \in CallState /\ d.f.serial = serial
  BY <1>1, <1>2, <1>3, <1>5 DEF CallState
<1>7. Ok(s, d)
  BY <1>2, <1>3, <1>4, <1>6, RefenceOk
<1> QED BY <1>1, <1>4, <1>6, <1>7, CallEnds DEF d

-----------------------------------------------------------------------------
(***************************************************************************)
(* The invariants.                                                         *)
(***************************************************************************)

LEMMA Starts ==
  ASSUME StreamAssumption, Init
  PROVE  IInv
<1>1. NoTimes \in Times /\ (\A t \in Textures : NoTimes[t] = 0) /\ ~AnyOf(NoTimes)
  BY NoTimesAreTimes
<1> DEFINE empty == [t \in Textures |-> <<>>]
<1>2. empty \in [Textures -> Seq(Command)] /\ \A t \in Textures : empty[t] = <<>>
  OBVIOUS
<1>3. /\ touch \in [Textures -> Nat] /\ now = 0 /\ now \in Calls /\ fence = [serial |-> 0, at |-> 0] /\ carries = FALSE
  BY DEF Init, Calls, StreamAssumption
<1>4. /\ stream = [serial |-> 0, next |-> 1, last |-> 0, render |-> NoTarget,
                   blit |-> FALSE, compute |-> FALSE, draws |-> FALSE,
                   recorded |-> FALSE, clearTarget |-> NoTarget, clear |-> NoTimes,
                   store |-> NoTimes, discardTarget |-> NoTarget, load |-> NoTimes,
                   flushDeferred |-> FALSE, blocked |-> FALSE, mips |-> NoTimes,
                   prelude |-> NoTimes, body |-> empty]
  BY DEF Init
<1> HIDE DEF empty
<1>5. /\ stream \in StreamState
      /\ stream.serial = 0 /\ stream.next = 1 /\ stream.last = 0 /\ stream.render = NoTarget
      /\ ~stream.blit /\ ~stream.compute /\ ~stream.blocked
      /\ stream.clear = NoTimes /\ stream.store = NoTimes /\ stream.load = NoTimes
      /\ stream.mips = NoTimes /\ stream.prelude = NoTimes /\ stream.body = empty
  BY <1>1, <1>2, <1>4 DEF StreamState
<1>6. TypeOK
  BY <1>3, <1>5 DEF TypeOK
<1>7. \A t \in Textures : \A i \in DOMAIN stream.body[t] : FALSE
  BY <1>2, <1>5
<1>8. Serials(stream, fence) /\ Past(stream, now) /\ Encoders(stream) /\ PendingLast(stream)
  BY <1>1, <1>2, <1>3, <1>5, <1>7 DEF Serials, Past, Encoders, PendingLast
<1>9. SamplesKept(stream) /\ SamplesMarked(stream, touch) /\ CallsInOrder(stream) /\ WaitsLater(stream, touch)
  BY <1>1, <1>5, <1>7 DEF SamplesKept, SamplesMarked, CallsInOrder, WaitsLater
<1>10. NoneLate(stream, fence, Own)
  BY <1>1, <1>5, <1>7 DEF NoneLate
<1> QED BY <1>3, <1>5, <1>6, <1>8, <1>9, <1>10 DEF IInv, Good, Own

LEMMA Keeps ==
  ASSUME StreamAssumption, IInv, [Next]_vars
  PROVE  IInv'
<1>1. CASE UNCHANGED vars
  <2>1. stream' = stream /\ touch' = touch /\ now' = now /\ fence' = fence /\ carries' = carries
    BY <1>1 DEF vars
  <2> QED BY <2>1 DEF IInv, TypeOK, Own
<1>2. CASE APICall /\ TakeOver
  <2>1. ASSUME NEW g \in Targets, NEW ts \in SUBSET Textures,
               Draw(g, ts \ Attachments[g]) \/ OtherPass(g, ts \ Attachments[g])
        PROVE  IInv'
    <3>1. ts \ Attachments[g] \in SUBSET Textures
      OBVIOUS
    <3> QED BY <1>2, <2>1, <3>1, StepDraw, StepOtherPass
  <2>2. ASSUME NEW g \in Targets, NEW ts \in SUBSET Attachments[g], NEW full \in BOOLEAN,
               Clear(g, ts, full) \/ Invalidate(g, ts)
        PROVE  IInv'
    BY <1>2, <2>2, StepClear, StepInvalidate
  <2>3. ASSUME NEW t \in Textures, Upload(t)
        PROVE  IInv'
    BY <1>2, <2>3, StepUpload
  <2>4. ASSUME NEW ts \in SUBSET Textures, Copy(ts) \/ Dispatch(ts)
        PROVE  IInv'
    BY <1>2, <2>4, StepCopy
  <2>5. CASE GLFlush \/ Finish \/ OwnCommit
    BY <1>2, <2>5, StepFlush
  <2>6. CASE EndPass \/ Fence
    BY <1>2, <2>6, StepEndPass, StepFence
  <2>7. \/ \E g \in Targets, ts \in SUBSET Textures :
             Draw(g, ts \ Attachments[g]) \/ OtherPass(g, ts \ Attachments[g])
        \/ \E g \in Targets : \E ts \in SUBSET Attachments[g], full \in BOOLEAN :
             Clear(g, ts, full) \/ Invalidate(g, ts)
        \/ \E t \in Textures : Upload(t)
        \/ \E ts \in SUBSET Textures : Copy(ts) \/ Dispatch(ts)
        \/ GLFlush \/ Finish \/ OwnCommit \/ EndPass \/ Fence
    BY <1>2 DEF APICall
  <2> QED BY <2>1, <2>2, <2>3, <2>4, <2>5, <2>6, <2>7
<1> QED BY <1>1, <1>2 DEF Next, Done

LEMMA InvariantMeansRunsInOrder ==
  ASSUME StreamAssumption, IInv
  PROVE  RunsInOrder
<1>1. SamplesBeforeUploads
  BY DEF IInv, Good, SamplesKept, SamplesBeforeUploads
<1>2. UploadsInOrder
  <2>1. CASE stream.serial = 0
    <3>1. \A t \in Textures : stream.body[t] = <<>>
      BY <2>1 DEF IInv, Good, Encoders
    <3> QED BY <3>1 DEF UploadsInOrder
  <2>2. CASE stream.serial # 0
    BY <2>2 DEF IInv, Own, OwnWork, UploadsInOrder
  <2> QED BY <2>1, <2>2
<1> QED BY <1>1, <1>2 DEF RunsInOrder

LEMMA InvariantMeansFenceCovers ==
  ASSUME StreamAssumption, IInv
  PROVE  FenceCovers
<1> DEFINE late(n) == 0 < n /\ n < fence.at
           kept == IF carries THEN {"discard", "clear", "mipmaps"} ELSE {"discard"}
           work(t) == {stream.body[t][i] : i \in DOMAIN stream.body[t]}
<1> SUFFICES ASSUME ~(stream.serial # 0 /\ stream.serial <= fence.serial),
                    NEW t \in Textures
             PROVE  /\ ~late(stream.mips[t]) /\ ~late(stream.prelude[t])
                    /\ \A k \in work(t) : k.use \notin kept => ~late(k.at)
  BY DEF FenceCovers
<1>1. stream \in StreamState /\ fence.serial \in Nat /\ stream.serial \in Nat /\ stream.next \in Nat
  BY DEF IInv, TypeOK, StreamState
<1>2. CASE stream.serial = 0
  <2>1. stream.mips = NoTimes /\ stream.prelude = NoTimes /\ stream.body[t] = <<>>
    BY <1>2 DEF IInv, Good, Encoders
  <2>2. stream.mips[t] = 0 /\ stream.prelude[t] = 0 /\ work(t) = {}
    BY <2>1, NoTimesAreTimes
  <2>3. ~late(0)
    OBVIOUS
  <2> HIDE DEF late, work, kept
  <2> QED BY <2>2, <2>3
<1>3. CASE stream.serial # 0
  <2>1. fence.serial < Recording(stream)
    BY <1>1, <1>3 DEF Recording
  <2>2. /\ ~late(stream.mips[t]) /\ ~late(stream.prelude[t])
        /\ \A i \in DOMAIN stream.body[t] :
             stream.body[t][i].use \notin (IF Own THEN {"discard"} ELSE {"discard", "clear", "mipmaps"})
               => ~late(stream.body[t][i].at)
    BY <2>1 DEF IInv, NoneLate
  <2>3. Own <=> ~carries
    BY <1>3 DEF Own
  <2> QED BY <2>2, <2>3
<1> QED BY <1>2, <1>3

LEMMA Always ==
  ASSUME StreamAssumption
  PROVE  Spec => []IInv
<1>1. Init => IInv
  BY Starts
<1>2. IInv /\ [Next]_vars => IInv'
  BY Keeps
<1> QED BY <1>1, <1>2, PTL DEF Spec

(* Whatever a context's calls are, what becomes of the pending clear, the  *)
(* deferred mipmaps, invalidated attachments and commits made in between:  *)
(* the GPU runs what the calls ask for in an order that gives their        *)
(* results, uploads that run ahead of the command buffer overtake nothing  *)
(* a draw samples, nor anything in a buffer that took over no work, and    *)
(* one encoder at most is open, of a command buffer being recorded.        *)
THEOREM CommandsRunInOrder == Spec => []RunsInOrder
<1>1. IInv => RunsInOrder
  BY StreamAssumption, InvariantMeansRunsInOrder
<1>2. Spec => []IInv
  BY StreamAssumption, Always
<1> QED BY <1>1, <1>2, PTL

(* glFenceSync gives a serial whose commit has everything before the fence *)
(* in it: a wait for that serial waits for all of it, but what a command   *)
(* buffer that takes over work does later.                                 *)
THEOREM FencesCoverWork == Spec => []FenceCovers
<1>1. IInv => FenceCovers
  BY StreamAssumption, InvariantMeansFenceCovers
<1>2. Spec => []IInv
  BY StreamAssumption, Always
<1> QED BY <1>1, <1>2, PTL

-----------------------------------------------------------------------------
(***************************************************************************)
(* UpscaleGL.                                                              *)
(***************************************************************************)

LEMMA Quotient ==
  ASSUME NEW a \in Int, NEW c \in Nat \ {0}
  PROVE  /\ a \div c \in Int
         /\ a >= 0 => a \div c \in Nat
         /\ \E e \in 0 .. c - 1 : a = c * (a \div c) + e
<1>1. a \div c \in Int /\ (a >= 0 => a \div c \in Nat)
  OBVIOUS
<1>2. a % c \in 0 .. c - 1
  OBVIOUS
<1>3. c \in Nat /\ c > 0
  OBVIOUS
<1>4. a = c * (a \div c) + (a % c)
  BY <1>3
<1> QED
  BY <1>1, <1>2, <1>4

LEMMA MulDivInt ==
  ASSUME NEW a \in Int, NEW b \in Nat, NEW c \in Nat \ {0}
  PROVE  /\ MulDiv(a, b, c) \in Int
         /\ a >= 0 => MulDiv(a, b, c) \in Nat
<1>1. a * b \in Int /\ c \div 2 \in Nat /\ (a >= 0 => a * b >= 0)
  OBVIOUS
<1> DEFINE z == a * b + c \div 2
<1>2. z \in Int /\ (a >= 0 => z >= 0)
  BY <1>1
<1> HIDE DEF z
<1>3. z \div c \in Int
  BY <1>2, Quotient
<1>4. z >= 0 => z \div c \in Nat
  BY <1>2, Quotient
<1> QED
  BY <1>2, <1>3, <1>4 DEF MulDiv, z

(* What is at least d and less than d + r is d, divided by r.              *)
LEMMA DividesTo ==
  ASSUME NEW r \in Nat \ {0}, NEW w \in Nat, NEW d \in 0 .. r - 1
  PROVE  (w * r + d) \div r = w
<1> DEFINE z == w * r + d
<1>1. w * r \in Nat /\ r * w = w * r
  OBVIOUS
<1>2. z \in Int
  BY <1>1
<1> HIDE DEF z
<1> DEFINE q == z \div r
<1>3. PICK e \in 0 .. r - 1 : z = r * q + e
  BY <1>2, Quotient
<1>4. q \in Int
  BY <1>2, Quotient
<1> HIDE DEF q
<1>5. r * (w - q) = r * w - r * q
  BY <1>4
<1>6. r * w \in Int /\ r * q \in Int
  BY <1>4
<1>7. r * (w - q) = e - d
  BY <1>1, <1>3, <1>5, <1>6 DEF z
<1> DEFINE k == w - q
<1>8. k \in Int /\ r * k = e - d
  BY <1>4, <1>7
<1> HIDE DEF k
<1>9. r * k < r /\ r * k > - r
  BY <1>8
<1>10. ~ k >= 1
  <2> SUFFICES ASSUME k >= 1
               PROVE  FALSE
    OBVIOUS
  <2>1. r * k = r * (k - 1) + r /\ r * (k - 1) >= 0
    BY <1>8
  <2> QED
    BY <1>8, <1>9, <2>1
<1>11. ~ k <= -1
  <2> SUFFICES ASSUME k <= -1
               PROVE  FALSE
    OBVIOUS
  <2>1. r * (- k - 1) >= 0 /\ r * (- k - 1) = - (r * k) - r
    BY <1>8
  <2>2. r * k \in Int
    BY <1>8
  <2> QED
    BY <1>9, <2>1, <2>2
<1>12. k = 0
  BY <1>8, <1>10, <1>11
<1> QED
  BY <1>4, <1>12 DEF k, q, z

(* A width is seen again as it was asked for, over the whole screen.       *)
LEMMA ThereAndBack ==
  ASSUME NEW r \in Nat \ {0}, NEW m \in 1 .. r, NEW w \in Nat
  PROVE  MulDiv(MulDiv(w, r, m), m, r) = w
<1> DEFINE z == w * r + m \div 2
           q == z \div m
<1>1. w * r \in Nat /\ m \div 2 \in Nat
  OBVIOUS
<1>2. z \in Int /\ m \in Nat \ {0}
  BY <1>1
<1>3. PICK e \in 0 .. m - 1 : z = m * q + e
  BY <1>2, Quotient
<1>4. q \in Int /\ q * m = m * q /\ q * m \in Int
  BY <1>2, Quotient
<1> HIDE DEF q
<1> DEFINE d == m \div 2 - e + r \div 2
<1>5. q * m + r \div 2 = w * r + d
  BY <1>1, <1>3, <1>4
<1>6. d \in 0 .. r - 1
  <2>1. d >= 0 /\ d \in Int
    OBVIOUS
  <2>2. CASE m < r
    BY <2>1, <2>2
  <2>3. CASE m = r
    <3>1. r \div 2 \in 0 .. r - 1
      OBVIOUS
    <3>2. (w * r + r \div 2) \div r = w
      BY <3>1, DividesTo
    <3>3. q = w
      BY <2>3, <3>2 DEF q
    <3>4. e = r \div 2
      BY <1>1, <1>3, <1>4, <2>3, <3>3
    <3> QED
      BY <2>3, <3>1, <3>4
  <2> QED
    BY <2>2, <2>3
<1> HIDE DEF d
<1>7. (w * r + d) \div r = w
  BY <1>6, DividesTo
<1> QED
  BY <1>5, <1>7 DEF MulDiv, q, z

USE DEF WindowState, EntryState, CheckState

(***************************************************************************)
(* What a step that is about window h leaves as it was.                    *)
(***************************************************************************)
AboutOnly(h) ==
  /\ \A g \in TopWindows \ {h} :
       /\ sys'[g] = sys[g] /\ asked'[g] = asked[g] /\ mine'[g] = mine[g]
       /\ g \in Entries' <=> g \in Entries
       /\ g \in Entries => table'[g] = table[g]
  /\ \A t \in Lookers :
       \/ check'[t] = check[t]
       \/ (check[t] = NotLooking \/ check[t].h = h) /\ (check'[t] = NotLooking \/ check'[t].h = h)

LEMMA OthersHold ==
  ASSUME NEW h \in TopWindows, AboutOnly(h), NEW g \in TopWindows \ {h}, WindowHolds(g)
  PROVE  WindowHolds(g)'
<1>1. /\ sys'[g] = sys[g] /\ asked'[g] = asked[g] /\ mine'[g] = mine[g]
      /\ g \in Entries' <=> g \in Entries
      /\ g \in Entries => table'[g] = table[g]
  BY DEF AboutOnly
<1>2. \A t \in Lookers :
        \/ check'[t] = check[t]
        \/ (check[t] = NotLooking \/ check[t].h # g) /\ (check'[t] = NotLooking \/ check'[t].h # g)
  BY DEF AboutOnly
<1>3. \A t \in Lookers : check[t] # NotLooking /\ check[t].h = g <=> check'[t] # NotLooking /\ check'[t].h = g
  BY <1>2
<1>4. \A t \in Lookers : check'[t] # NotLooking /\ check'[t].h = g => check'[t] = check[t]
  BY <1>2
<1>5. Checked(g)' <=> Checked(g)
  BY <1>3 DEF Checked
<1>6. g \in Covering' <=> g \in Covering
  BY <1>1 DEF Covering
<1>7. EntryInUse(g)'
  <2>1. \A t \in Lookers : check[t].at = "install" => check[t] # NotLooking
    BY DEF NotLooking
  <2>2. \A t \in Lookers : check[t].at = "install" /\ check[t].h = g => check'[t] = check[t]
    BY <1>2, <2>1
  <2>3. EntryInUse(g)
    BY DEF WindowHolds
  <2> QED
    BY <1>1, <2>2, <2>3 DEF EntryInUse
<1>8. CheckHolds(g)'
  <2>1. CheckHolds(g)
    BY DEF WindowHolds
  <2> SUFFICES ASSUME NEW t \in Lookers, check'[t] # NotLooking /\ check'[t].h = g
               PROVE  /\ sys'[g].up /\ (Askable(g)' => sys'[g].w >= RealWidth)
                      /\ check'[t].at = "add" /\ g \notin Entries' /\ mine'[g] # Torn =>
                            check'[t].proc = sys'[g].proc
                      /\ check'[t].at = "install" =>
                            g \in Entries' /\ (mine'[g] # Torn => sys'[g].proc \in {Subclass, table'[g].proc})
    BY DEF CheckHolds
  <2>2. check'[t] = check[t] /\ check[t] # NotLooking /\ check[t].h = g
    BY <1>4
  <2>3. /\ sys[g].up /\ (Askable(g) => sys[g].w >= RealWidth)
        /\ check[t].at = "add" /\ g \notin Entries /\ mine[g] # Torn => check[t].proc = sys[g].proc
        /\ check[t].at = "install" =>
              g \in Entries /\ (mine[g] # Torn => sys[g].proc \in {Subclass, table[g].proc})
    BY <2>1, <2>2 DEF CheckHolds
  <2>4. Askable(g)' <=> Askable(g)
    BY <1>1 DEF Askable
  <2> QED
    BY <1>1, <2>2, <2>3, <2>4
<1>9. WidthKnown(g)'
  <2>1. WidthKnown(g)
    BY DEF WindowHolds
  <2>2. (AsAsked(g)' <=> AsAsked(g)) /\ (OverScreen(g)' <=> OverScreen(g)) /\ (Askable(g)' <=> Askable(g))
    BY <1>1 DEF AsAsked, OverScreen, MulDiv, Askable
  <2> QED
    BY <1>1, <1>5, <1>6, <2>1, <2>2 DEF WidthKnown
<1>10. Reached(g)'
  <2>1. Reached(g)
    BY DEF WindowHolds
  <2>2. Receiver(g)' = Receiver(g)
    BY <1>1 DEF Receiver
  <2> QED
    BY <1>1, <2>1, <2>2 DEF Reached
<1> QED
  BY <1>7, <1>8, <1>9, <1>10 DEF WindowHolds

LEMMA WindowsTogether ==
  ASSUME UpscaleIInv, UpscaleTypeOK', NEW h \in TopWindows, AboutOnly(h),
         (covering = Cardinality(Covering))',
         WindowHolds(h)'
  PROVE  UpscaleIInv'
<1>1. \A g \in TopWindows \ {h} : WindowHolds(g)'
  BY OthersHold DEF UpscaleIInv
<1> QED
  BY <1>1 DEF UpscaleIInv

(* The count, when a window begins or ceases to cover the screen.          *)
LEMMA CountOf ==
  ASSUME UpscaleAssumption, UpscaleIInv, NEW h
  PROVE  /\ IsFiniteSet(Covering) /\ covering \in Nat
         /\ Cardinality(Covering \cup {h}) = covering + (IF h \in Covering THEN 0 ELSE 1)
         /\ Cardinality(Covering \ {h}) = covering - (IF h \in Covering THEN 1 ELSE 0)
<1>1. IsFiniteSet(TopWindows) /\ Covering \subseteq TopWindows /\ covering = Cardinality(Covering)
  BY DEF UpscaleAssumption, UpscaleIInv, UpscaleTypeOK, Covering
<1>2. IsFiniteSet(Covering)
  BY <1>1, FS_Subset
<1>3. covering \in Nat
  BY <1>1, <1>2, FS_CardinalityType
<1>4. Cardinality(Covering \cup {h}) = IF h \in Covering THEN covering ELSE covering + 1
  BY <1>1, <1>2, FS_AddElement
<1>5. Cardinality(Covering \ {h}) = IF h \in Covering THEN covering - 1 ELSE covering
  BY <1>1, <1>2, FS_RemoveElement
<1> QED
  BY <1>2, <1>3, <1>4, <1>5

(* A thread that looks at no window is Idle; one that does has one.        *)
LEMMA ChecksTyped ==
  ASSUME UpscaleTypeOK, NEW t \in Lookers
  PROVE  /\ check[t] = NotLooking <=> check[t].at = "idle"
         /\ check[t].at # "idle" =>
              /\ check[t] \in CheckState
              /\ check[t].h \in TopWindows /\ Checked(check[t].h)
BY DEF UpscaleTypeOK, NotLooking, Checked

(* What is known of a window that no thread looks at.                      *)
LEMMA UncheckedWindow ==
  ASSUME UpscaleIInv, NEW h \in TopWindows, ~Checked(h)
  PROVE  /\ h \in Entries => sys[h].up /\ sys[h].proc = Subclass
         /\ \A t \in Lookers : check[t] # NotLooking => check[t].h # h
<1>1. \A t \in Lookers : check[t] # NotLooking => check[t].h # h
  BY DEF Checked
<1>2. \A t \in Lookers : check[t].at = "install" => check[t] # NotLooking
  BY DEF NotLooking
<1>3. EntryInUse(h)
  BY DEF UpscaleIInv, WindowHolds
<1> QED
  BY <1>1, <1>2, <1>3 DEF EntryInUse

(* A window that is not there is not looked at and has no entry.           *)
LEMMA NoWindowIsFree ==
  ASSUME UpscaleIInv, NEW h \in TopWindows, ~sys[h].up
  PROVE  ~Checked(h) /\ h \notin Entries
<1>1. EntryInUse(h) /\ CheckHolds(h)
  BY DEF UpscaleIInv, WindowHolds
<1> QED
  BY <1>1 DEF EntryInUse, CheckHolds, Checked

-----------------------------------------------------------------------------
LEMMA ChangeModeKeeps ==
  ASSUME UpscaleAssumption, UpscaleIInv, NEW w \in Widths \cup {DesktopWidth}, ChangeMode(w)
  PROVE  UpscaleIInv'
<1>1. mode' = w /\ w \in 1 .. RealWidth /\ UNCHANGED <<sys, table, covering, check, mine, asked>>
  BY DEF ChangeMode, UpscaleAssumption
<1>2. UpscaleTypeOK'
  BY <1>1 DEF UpscaleIInv, UpscaleTypeOK, Entries
<1>3. \A h \in TopWindows : WindowHolds(h)'
  BY <1>1 DEF UpscaleIInv, WindowHolds, EntryInUse, CheckHolds, WidthKnown, Reached, AsAsked,
              Askable, OverScreen, Receiver, Covering, Entries, Checked
<1> QED
  BY <1>1, <1>2, <1>3 DEF UpscaleIInv, Covering, Entries

LEMMA RealWidths ==
  ASSUME UpscaleAssumption, UpscaleTypeOK, NEW x \in Int
  PROVE  /\ RealOf(x) \in Int /\ Seen(x) \in Int
         /\ x >= 0 => RealOf(x) \in Nat /\ Seen(x) \in Nat /\ Seen(RealOf(x)) = x
<1>1. mode \in 1 .. RealWidth /\ mode \in Nat \ {0} /\ RealWidth \in Nat \ {0}
  BY DEF UpscaleAssumption, UpscaleTypeOK
<1>2. RealOf(x) \in Int /\ Seen(x) \in Int /\ (x >= 0 => RealOf(x) \in Nat /\ Seen(x) \in Nat)
  BY <1>1, MulDivInt DEF RealOf, Seen
<1>3. x >= 0 => Seen(RealOf(x)) = x
  BY <1>1, ThereAndBack DEF RealOf, Seen
<1> QED
  BY <1>2, <1>3

(* The places the program asks for.                                       *)
LEMMA AskedPlaces ==
  ASSUME UpscaleAssumption, NEW x \in Lefts, NEW w \in Widths
  PROVE  x \in Int /\ w \in 1 .. RealWidth /\ w \in Nat
<1>1. Widths \subseteq 1 .. RealWidth /\ Lefts \subseteq Int
  BY DEF UpscaleAssumption
<1> QED
  BY <1>1

LEMMA CreateWindowKeeps ==
  ASSUME UpscaleAssumption, UpscaleIInv, NEW h \in TopWindows, NEW x \in Lefts, NEW w \in Widths,
         NEW p \in Procs, CreateWindow(h, x, w, p)
  PROVE  UpscaleIInv'
<1> DEFINE added == h \notin Entries /\ HasRoom
           over == Covers(x, w, mode)
           realX == IF over THEN RealOf(x) ELSE x
           realW == IF over THEN RealOf(w) ELSE w
<1>1. /\ ~sys[h].up
      /\ table' = IF added THEN With(h, [proc |-> p, covers |-> over]) ELSE table
      /\ covering' = IF added /\ over THEN covering + 1 ELSE covering
      /\ sys' = [sys EXCEPT ![h] = [up |-> TRUE, hooked |-> TRUE, visible |-> FALSE,
                                    x |-> realX, w |-> realW,
                                    proc |-> IF added THEN Subclass ELSE p]]
      /\ mine' = [mine EXCEPT ![h] = p]
      /\ asked' = [asked EXCEPT ![h] = [w |-> w, mode |-> mode]]
      /\ UNCHANGED <<mode, check>>
  BY DEF CreateWindow
<1>2. ~Checked(h) /\ h \notin Entries
  BY <1>1, NoWindowIsFree
<1>3. UpscaleTypeOK /\ w \in 1 .. RealWidth /\ w \in Nat /\ x \in Int /\ mode \in 1 .. RealWidth
  BY AskedPlaces DEF UpscaleIInv, UpscaleTypeOK
<1>4. realW \in Nat /\ realX \in Int /\ Seen(RealOf(w)) = w /\ over \in BOOLEAN
  BY <1>3, RealWidths DEF Covers
<1> HIDE DEF over, realX, realW
<1>5. /\ Entries' = IF added THEN Entries \cup {h} ELSE Entries
      /\ table' \in [Entries' -> EntryState]
      /\ added => table'[h] = [proc |-> p, covers |-> over]
      /\ \A g \in Entries : table'[g] = table[g]
  BY <1>1, <1>2, <1>3, <1>4 DEF With, Entries, UpscaleTypeOK
<1> HIDE DEF added
<1>6. /\ sys'[h] = [up |-> TRUE, hooked |-> TRUE, visible |-> FALSE, x |-> realX, w |-> realW,
                    proc |-> IF added THEN Subclass ELSE p]
      /\ mine'[h] = p /\ asked'[h] = [w |-> w, mode |-> mode]
      /\ \A g \in TopWindows \ {h} : sys'[g] = sys[g] /\ mine'[g] = mine[g] /\ asked'[g] = asked[g]
  BY <1>1, <1>3 DEF UpscaleTypeOK
<1>7. UpscaleTypeOK'
  <2>1. covering' \in Int /\ Entries' \subseteq TopWindows
    BY <1>1, <1>3, <1>5 DEF UpscaleTypeOK
  <2>2. sys' \in [TopWindows -> WindowState]
    BY <1>1, <1>3, <1>4 DEF UpscaleTypeOK
  <2>3. /\ mine' \in [TopWindows -> Procs \cup {Subclass, Torn}]
        /\ asked' \in [TopWindows -> [w : Nat, mode : 0 .. RealWidth]]
    BY <1>1, <1>3 DEF UpscaleTypeOK
  <2> QED
    BY <1>1, <1>3, <1>5, <2>1, <2>2, <2>3 DEF UpscaleTypeOK
<1>8. AboutOnly(h)
  BY <1>1, <1>5, <1>6 DEF AboutOnly
<1>9. Covering' = IF added /\ over THEN Covering \cup {h} ELSE Covering
  BY <1>2, <1>5 DEF Covering
<1>10. (covering = Cardinality(Covering))'
  <2>1. h \notin Covering
    BY <1>2 DEF Covering
  <2> QED
    BY <1>1, <1>9, <2>1, CountOf DEF UpscaleIInv, added
<1>11. WindowHolds(h)'
  <2>1. EntryInUse(h)'
    BY <1>2, <1>5, <1>6 DEF EntryInUse
  <2>2. CheckHolds(h)'
    BY <1>1, <1>2 DEF CheckHolds, Checked
  <2>3. WidthKnown(h)'
    <3>1. over => OverScreen(h)'
      BY <1>4, <1>6 DEF OverScreen, realW, Seen
    <3>2. ~over => AsAsked(h)'
      <4>1. ~over => sys'[h].w = w
        BY <1>6 DEF realW
      <4>2. asked'[h].w = w
        BY <1>6
      <4> QED
        BY <4>1, <4>2 DEF AsAsked
    <3>3. h \in Covering' => over
      BY <1>2, <1>9 DEF Covering
    <3>4. h \in Entries' \ Covering' => ~over
      BY <1>2, <1>5, <1>9
    <3> QED
      BY <3>1, <3>2, <3>3, <3>4 DEF WidthKnown
  <2>4. Reached(h)'
    BY <1>2, <1>5, <1>6 DEF Reached, Receiver
  <2> QED
    BY <2>1, <2>2, <2>3, <2>4 DEF WindowHolds
<1> QED
  BY <1>7, <1>8, <1>10, <1>11, WindowsTogether

LEMMA CreateUnhookedKeeps ==
  ASSUME UpscaleAssumption, UpscaleIInv, NEW h \in TopWindows, NEW x \in Lefts, NEW w \in Widths,
         NEW p \in Procs, CreateUnhooked(h, x, w, p)
  PROVE  UpscaleIInv'
<1>1. /\ ~sys[h].up
      /\ sys' = [sys EXCEPT ![h] = [up |-> TRUE, hooked |-> FALSE, visible |-> TRUE,
                                    x |-> x, w |-> w, proc |-> p]]
      /\ mine' = [mine EXCEPT ![h] = p]
      /\ asked' = [asked EXCEPT ![h] = Unasked]
      /\ UNCHANGED <<mode, table, covering, check>>
  BY DEF CreateUnhooked
<1>2. ~Checked(h) /\ h \notin Entries
  BY <1>1, NoWindowIsFree
<1>3. UpscaleTypeOK /\ w \in Nat /\ x \in Int /\ RealWidth \in Nat
  BY AskedPlaces DEF UpscaleIInv, UpscaleAssumption
<1>4. UpscaleTypeOK'
  BY <1>1, <1>3 DEF UpscaleTypeOK, Entries, Unasked
<1>5. /\ sys'[h] = [up |-> TRUE, hooked |-> FALSE, visible |-> TRUE, x |-> x, w |-> w, proc |-> p]
      /\ asked'[h] = Unasked
      /\ \A g \in TopWindows \ {h} : sys'[g] = sys[g] /\ mine'[g] = mine[g] /\ asked'[g] = asked[g]
  BY <1>1, <1>3 DEF UpscaleTypeOK
<1>6. AboutOnly(h)
  BY <1>1, <1>5 DEF AboutOnly, Entries
<1>7. (covering = Cardinality(Covering))'
  BY <1>1 DEF UpscaleIInv, Covering, Entries
<1>8. WindowHolds(h)'
  BY <1>1, <1>2, <1>5 DEF WindowHolds, EntryInUse, CheckHolds, Checked, WidthKnown, Reached,
                          Askable, Unasked, Entries
<1> QED
  BY <1>4, <1>6, <1>7, <1>8, WindowsTogether

LEMMA MaximizeKeeps ==
  ASSUME UpscaleAssumption, UpscaleIInv, NEW h \in TopWindows, Maximize(h)
  PROVE  UpscaleIInv'
<1>1. /\ sys[h].up
      /\ sys' = [sys EXCEPT ![h].x = 0, ![h].w = RealWidth, ![h].visible = TRUE]
      /\ asked' = [asked EXCEPT ![h] = Unasked]
      /\ UNCHANGED <<mode, table, covering, check, mine>>
  BY DEF Maximize
<1>2. UpscaleTypeOK /\ RealWidth \in Nat
  BY DEF UpscaleIInv, UpscaleAssumption
<1> DEFINE left == [sys[h] EXCEPT !.x = 0]
           wide == [left EXCEPT !.w = RealWidth]
           r == [wide EXCEPT !.visible = TRUE]
<1>8. sys' = [sys EXCEPT ![h] = r]
  BY <1>1
<1>9. /\ r \in WindowState
      /\ r.up = sys[h].up /\ r.hooked = sys[h].hooked /\ r.proc = sys[h].proc
  <2>1. sys[h] \in WindowState
    BY <1>2 DEF UpscaleTypeOK
  <2>2. /\ left \in WindowState
        /\ left.up = sys[h].up /\ left.hooked = sys[h].hooked /\ left.proc = sys[h].proc
    BY <2>1
  <2> HIDE DEF left
  <2>3. /\ wide \in WindowState
        /\ wide.up = left.up /\ wide.hooked = left.hooked /\ wide.proc = left.proc
    BY <1>2, <2>2
  <2> HIDE DEF wide
  <2> QED
    BY <2>2, <2>3
<1> HIDE DEF left, wide, r
<1>3. /\ sys'[h].up = sys[h].up /\ sys'[h].hooked = sys[h].hooked /\ sys'[h].proc = sys[h].proc
      /\ asked'[h] = Unasked
      /\ \A g \in TopWindows \ {h} : sys'[g] = sys[g] /\ asked'[g] = asked[g]
  BY <1>1, <1>2, <1>8, <1>9 DEF UpscaleTypeOK
<1>4. UpscaleTypeOK'
  <2>1. sys' \in [TopWindows -> WindowState]
    BY <1>2, <1>8, <1>9 DEF UpscaleTypeOK
  <2>2. asked' \in [TopWindows -> [w : Nat, mode : 0 .. RealWidth]]
    BY <1>1, <1>2 DEF UpscaleTypeOK, Unasked
  <2> QED
    BY <1>1, <1>2, <2>1, <2>2 DEF UpscaleTypeOK, Entries
<1>5. AboutOnly(h)
  BY <1>1, <1>3 DEF AboutOnly, Entries
<1>6. (covering = Cardinality(Covering))'
  BY <1>1 DEF UpscaleIInv, Covering, Entries
<1>7. WindowHolds(h)'
  <2>1. EntryInUse(h) /\ Reached(h) /\ CheckHolds(h) /\ ~Askable(h)'
    BY <1>3 DEF UpscaleIInv, WindowHolds, Askable, Unasked
  <2>2. EntryInUse(h)' /\ Reached(h)'
    BY <1>1, <1>3, <2>1 DEF EntryInUse, Reached, Receiver, Entries
  <2>3. CheckHolds(h)' /\ WidthKnown(h)'
    BY <1>1, <1>3, <2>1 DEF CheckHolds, WidthKnown, Entries
  <2> QED
    BY <2>2, <2>3 DEF WindowHolds
<1> QED
  BY <1>4, <1>5, <1>6, <1>7, WindowsTogether

LEMMA ShowKeeps ==
  ASSUME UpscaleAssumption, UpscaleIInv, NEW h \in TopWindows, Show(h)
  PROVE  UpscaleIInv'
<1>1. /\ sys' = [sys EXCEPT ![h].visible = TRUE]
      /\ UNCHANGED <<mode, table, covering, check, mine, asked>>
  BY DEF Show
<1>2. UpscaleTypeOK
  BY DEF UpscaleIInv
<1> DEFINE r == [sys[h] EXCEPT !.visible = TRUE]
<1>8. sys' = [sys EXCEPT ![h] = r]
  BY <1>1
<1>9. /\ r \in WindowState
      /\ r.up = sys[h].up /\ r.hooked = sys[h].hooked /\ r.proc = sys[h].proc /\ r.w = sys[h].w
  <2>1. sys[h] \in WindowState
    BY <1>2 DEF UpscaleTypeOK
  <2> QED
    BY <1>2, <2>1
<1> HIDE DEF r
<1>3. /\ sys'[h].up = sys[h].up /\ sys'[h].hooked = sys[h].hooked /\ sys'[h].proc = sys[h].proc
      /\ sys'[h].w = sys[h].w
      /\ \A g \in TopWindows \ {h} : sys'[g] = sys[g]
  BY <1>2, <1>8, <1>9 DEF UpscaleTypeOK
<1>4. UpscaleTypeOK'
  <2>1. sys' \in [TopWindows -> WindowState]
    BY <1>2, <1>8, <1>9 DEF UpscaleTypeOK
  <2> QED
    BY <1>1, <1>2, <2>1 DEF UpscaleTypeOK, Entries
<1>5. AboutOnly(h)
  BY <1>1, <1>3 DEF AboutOnly, Entries
<1>6. (covering = Cardinality(Covering))'
  BY <1>1 DEF UpscaleIInv, Covering, Entries
<1>7. WindowHolds(h)'
  <2>1. WindowHolds(h)
    BY DEF UpscaleIInv
  <2>2. EntryInUse(h)' /\ Reached(h)'
    BY <1>1, <1>3, <2>1 DEF WindowHolds, EntryInUse, Reached, Receiver, Entries
  <2>3. CheckHolds(h)'
    BY <1>1, <1>3, <2>1 DEF WindowHolds, CheckHolds, Askable, Entries
  <2>4. WidthKnown(h)'
    BY <1>1, <1>3, <2>1 DEF WindowHolds, WidthKnown, AsAsked, Askable, OverScreen, Covering,
                            Entries, Checked, MulDiv
  <2> QED
    BY <2>2, <2>3, <2>4 DEF WindowHolds
<1> QED
  BY <1>4, <1>5, <1>6, <1>7, WindowsTogether

-----------------------------------------------------------------------------
LEMMA PlaceKeeps ==
  ASSUME UpscaleAssumption, UpscaleIInv, NEW h \in TopWindows, NEW move \in BOOLEAN,
         NEW size \in BOOLEAN, NEW x \in Int, NEW w, size => w \in Widths,
         Place(h, move, size, x, w)
  PROVE  UpscaleIInv'
<1> DEFINE left == IF move THEN x ELSE SeenLeft(h)
           over == IF size THEN Covers(left, w, mode) ELSE Scaled(h)
           known == h \in Entries \/ (over /\ HasRoom)
           scaled == known /\ over
           realX == IF ~move THEN sys[h].x ELSE IF scaled THEN RealOf(x) ELSE x
           realW == IF ~size THEN sys[h].w ELSE IF scaled THEN RealOf(w) ELSE w
           sent == scaled /\ (h \in Entries => sys[h].proc = Subclass)
           shown == IF sent THEN Seen(realW) ELSE realW
           stillOver == size /\ ~scaled /\ sys[h].visible /\ Covers(sys[h].x, sys[h].w, RealWidth)
           idle == {t \in Lookers : check[t] = NotLooking}
<1>1. /\ sys[h].up
      /\ UNCHANGED <<mode, mine>>
  BY DEF Place
<1>2. PICK changed \in IF size THEN Widths \cup {shown} ELSE {shown},
           late \in SUBSET (IF stillOver THEN idle ELSE {}) :
        LET finalW == IF changed = shown THEN realW ELSE IF sent THEN RealOf(changed) ELSE changed IN
        /\ table' = IF ~known THEN table
                    ELSE With(h, [proc |-> IF h \in Entries THEN table[h].proc ELSE sys[h].proc,
                                  covers |-> over])
        /\ covering' = covering + (IF scaled THEN 1 ELSE 0) - (IF Scaled(h) THEN 1 ELSE 0)
        /\ sys' = [sys EXCEPT ![h].x = realX, ![h].w = finalW,
                              ![h].proc = IF known /\ h \notin Entries THEN Subclass ELSE @]
        /\ asked' = [asked EXCEPT ![h] =
              IF ~size THEN @
              ELSE IF Checked(h) \/ late # {} THEN Unasked
              ELSE [w |-> changed, mode |-> mode]]
        /\ check' = [t \in Lookers |-> IF t \in late THEN Looked(h) ELSE check[t]]
        /\ UNCHANGED <<mode, mine>>
  BY Zenon DEF Place
<1> DEFINE finalW == IF changed = shown THEN realW ELSE IF sent THEN RealOf(changed) ELSE changed
           proc == IF h \in Entries THEN table[h].proc ELSE sys[h].proc
           moved == [sys[h] EXCEPT !.x = realX]
           sized == [moved EXCEPT !.w = finalW]
           r == [sized EXCEPT !.proc = IF known /\ h \notin Entries THEN Subclass ELSE sys[h].proc]
           alone == ~Checked(h) /\ late = {}
<1>3. /\ table' = IF ~known THEN table ELSE With(h, [proc |-> proc, covers |-> over])
      /\ covering' = covering + (IF scaled THEN 1 ELSE 0) - (IF Scaled(h) THEN 1 ELSE 0)
      /\ sys' = [sys EXCEPT ![h] = r]
      /\ asked' = [asked EXCEPT ![h] = IF ~size THEN asked[h] ELSE IF ~alone THEN Unasked
                                       ELSE [w |-> changed, mode |-> mode]]
      /\ check' = [t \in Lookers |-> IF t \in late THEN Looked(h) ELSE check[t]]
  <2>1. sys' = [sys EXCEPT ![h] = r]
    BY <1>2
  <2> QED
    BY <1>2, <2>1
<1>4. /\ UpscaleTypeOK /\ mode \in 1 .. RealWidth /\ RealWidth \in Nat
      /\ h \in Entries => table[h] \in EntryState
      /\ sys[h] \in WindowState
      /\ asked[h] \in [w : Nat, mode : 0 .. RealWidth]
      /\ \A v \in Widths : v \in Nat
  BY DEF UpscaleIInv, UpscaleTypeOK, UpscaleAssumption
<1>5. /\ Scaled(h) <=> h \in Covering
      /\ h \in Covering => h \in Entries
  BY DEF Scaled, Covering
<1>6. over \in BOOLEAN /\ (~size => (over <=> h \in Covering)) /\ (scaled => known)
  BY <1>5 DEF Covers, Scaled
<1>7. /\ ~Checked(h) => (sent <=> scaled)
      /\ ~size => late = {}
      /\ late # {} => size /\ ~scaled
      /\ \A t \in late : t \in Lookers /\ check[t] = NotLooking
  <2>1. ~Checked(h) => (h \in Entries => sys[h].proc = Subclass)
    BY UncheckedWindow
  <2> QED
    BY <1>2, <2>1
(* The widths: what the window gets, and what it was asked for.            *)
<1>8. realX \in Int /\ realW \in Nat /\ shown \in Nat
  <2>1. RealOf(x) \in Int /\ (size => RealOf(w) \in Nat)
    BY <1>4, RealWidths
  <2>2. realX \in Int /\ realW \in Nat
    BY <1>4, <2>1
  <2> HIDE DEF realX, realW
  <2>3. Seen(realW) \in Nat
    BY <1>4, <2>2, RealWidths
  <2> QED
    BY <2>2, <2>3
<1>9. ASSUME size, ~Checked(h)
      PROVE  /\ scaled => Seen(finalW) = changed
             /\ ~scaled => finalW = changed
  <2>1. w \in Nat /\ w \in Widths /\ RealOf(w) \in Nat /\ Seen(RealOf(w)) = w
    BY <1>4, <1>9, RealWidths
  <2>2. shown = w
    BY <1>7, <1>9, <2>1
  <2>3. changed \in Widths
    BY <1>2, <1>9, <2>1, <2>2
  <2>4. RealOf(changed) \in Nat /\ Seen(RealOf(changed)) = changed /\ changed \in Nat
    BY <1>4, <2>3, RealWidths
  <2>5. scaled => finalW = RealOf(changed)
    BY <1>7, <1>9, <2>2
  <2>6. ~scaled => finalW = changed
    BY <1>7, <1>9, <2>2
  <2> QED
    BY <2>4, <2>5, <2>6
<1>10. ~size => finalW = sys[h].w
  BY <1>2
<1>11. finalW \in Nat /\ changed \in Nat
  <2>1. changed = shown \/ changed \in Widths
    BY <1>2
  <2>2. changed \in Nat
    BY <1>4, <1>8, <2>1
  <2>3. RealOf(changed) \in Nat
    BY <1>4, <2>2, RealWidths
  <2> HIDE DEF realW, shown, sent
  <2> QED
    BY <1>8, <2>2, <2>3
<1> HIDE DEF over, realX, realW, shown, finalW, sent, stillOver, idle
<1>12. /\ r \in WindowState
       /\ r.up = sys[h].up /\ r.hooked = sys[h].hooked /\ r.w = finalW
       /\ r.proc = IF known /\ h \notin Entries THEN Subclass ELSE sys[h].proc
  <2>1. /\ moved \in WindowState
        /\ moved.up = sys[h].up /\ moved.hooked = sys[h].hooked /\ moved.proc = sys[h].proc
    BY <1>4, <1>8
  <2> HIDE DEF moved
  <2>2. /\ sized \in WindowState
        /\ sized.up = moved.up /\ sized.hooked = moved.hooked /\ sized.proc = moved.proc
        /\ sized.w = finalW
    BY <1>11, <2>1
  <2> HIDE DEF sized
  <2> QED
    BY <2>1, <2>2
<1> HIDE DEF r
<1>13. proc \in Procs \cup {Subclass}
  BY <1>4
<1> HIDE DEF proc
<1>14. /\ Entries' = IF known THEN Entries \cup {h} ELSE Entries
       /\ table' \in [Entries' -> EntryState]
       /\ known => table'[h] = [proc |-> proc, covers |-> over]
       /\ \A g \in Entries \ {h} : table'[g] = table[g]
       /\ ~known => table' = table /\ h \notin Entries
  BY <1>3, <1>4, <1>6, <1>13 DEF With, Entries, UpscaleTypeOK
<1>15. scaled <=> known /\ over
  OBVIOUS
<1>16. ~known => h \notin Covering
  BY <1>5, <1>14
<1> HIDE DEF known, scaled
<1>17. /\ sys'[h] = r
       /\ size /\ alone => asked'[h] = [w |-> changed, mode |-> mode]
       /\ size /\ ~alone => asked'[h] = Unasked
       /\ ~size => asked'[h] = asked[h]
       /\ \A g \in TopWindows \ {h} : sys'[g] = sys[g] /\ asked'[g] = asked[g]
  BY <1>3, <1>4 DEF UpscaleTypeOK
<1> DEFINE c == Looked(h)
<1>23. /\ c \in CheckState
       /\ c.h = h /\ c.at \in {"add", "flag"} /\ c.proc = sys[h].proc
       /\ c # NotLooking
  BY <1>4 DEF Looked, NotLooking
<1> HIDE DEF c
<1>24. /\ \A t \in Lookers : check'[t] = IF t \in late THEN c ELSE check[t]
       /\ \A t \in late : check'[t] = c /\ check[t] = NotLooking
       /\ \A t \in Lookers \ late : check'[t] = check[t]
  BY <1>3, <1>7 DEF c
<1>18. UpscaleTypeOK'
  <2>1. sys' \in [TopWindows -> WindowState]
    BY <1>3, <1>4, <1>12 DEF UpscaleTypeOK
  <2>2. asked' \in [TopWindows -> [w : Nat, mode : 0 .. RealWidth]]
    BY <1>3, <1>4, <1>11 DEF UpscaleTypeOK, Unasked
  <2>4. check' \in [Lookers -> {NotLooking} \cup CheckState]
    BY <1>3, <1>4, <1>23 DEF UpscaleTypeOK, c
  <2>3. covering' \in Int /\ Entries' \subseteq TopWindows
    BY <1>3, <1>4, <1>14 DEF UpscaleTypeOK
  <2> QED
    BY <1>1, <1>4, <1>14, <2>1, <2>2, <2>3, <2>4 DEF UpscaleTypeOK
<1>19. AboutOnly(h)
  <2>1. /\ \A g \in TopWindows \ {h} :
              /\ sys'[g] = sys[g] /\ asked'[g] = asked[g] /\ mine'[g] = mine[g]
              /\ g \in Entries' <=> g \in Entries
              /\ g \in Entries => table'[g] = table[g]
    BY <1>1, <1>14, <1>17
  <2>2. \A t \in Lookers :
          check'[t] = check[t] \/ (check[t] = NotLooking /\ check'[t].h = h)
    <3> SUFFICES ASSUME NEW t \in Lookers
                 PROVE  check'[t] = check[t] \/ (check[t] = NotLooking /\ check'[t].h = h)
      OBVIOUS
    <3>1. CASE t \in late
      BY <1>23, <1>24, <3>1
    <3>2. CASE t \notin late
      BY <1>24, <3>2
    <3> QED
      BY <3>1, <3>2
  <2> QED
    BY <2>1, <2>2 DEF AboutOnly
<1>20. Covering' = IF scaled THEN Covering \cup {h} ELSE Covering \ {h}
  BY <1>14, <1>15, <1>16 DEF Covering
<1>21. (covering = Cardinality(Covering))'
  <2>1. /\ covering \in Nat
        /\ Cardinality(Covering \cup {h}) = covering + (IF h \in Covering THEN 0 ELSE 1)
        /\ Cardinality(Covering \ {h}) = covering - (IF h \in Covering THEN 1 ELSE 0)
    BY CountOf
  <2>2. CASE scaled
    <3>1. covering' = covering + 1 - (IF h \in Covering THEN 1 ELSE 0)
      BY <1>3, <1>5, <2>2
    <3> QED
      BY <1>20, <2>1, <2>2, <3>1
  <2>3. CASE ~scaled
    <3>1. covering' = covering - (IF h \in Covering THEN 1 ELSE 0)
      BY <1>3, <1>5, <2>1, <2>3
    <3> QED
      BY <1>20, <2>1, <2>3, <3>1
  <2> QED
    BY <2>2, <2>3
<1>22. WindowHolds(h)'
  <2>0. EntryInUse(h) /\ CheckHolds(h) /\ WidthKnown(h) /\ Reached(h)
    BY DEF UpscaleIInv, WindowHolds
  <2>1. EntryInUse(h)'
    <3>1. \A t \in Lookers : check[t].at = "install" => check'[t] = check[t]
      BY <1>24 DEF NotLooking
    <3> QED
      BY <1>1, <1>12, <1>14, <1>17, <2>0, <3>1 DEF EntryInUse
  <2>2. CheckHolds(h)'
    <3> SUFFICES ASSUME NEW t \in Lookers, check'[t] # NotLooking /\ check'[t].h = h
                 PROVE  /\ sys'[h].up /\ (Askable(h)' => sys'[h].w >= RealWidth)
                        /\ check'[t].at = "add" /\ h \notin Entries' /\ mine'[h] # Torn =>
                              check'[t].proc = sys'[h].proc
                        /\ check'[t].at = "install" =>
                              h \in Entries' /\ (mine'[h] # Torn => sys'[h].proc \in {Subclass, table'[h].proc})
      BY DEF CheckHolds
    <3>1. sys'[h].up
      BY <1>1, <1>12, <1>17
    <3>2. /\ ~size => t \notin late
          /\ t \notin late => check'[t] = check[t] /\ check[t] # NotLooking /\ check[t].h = h /\ Checked(h)
      BY <1>7, <1>24 DEF Checked
    <3>3. size => ~alone
      BY <3>2
    <3>4. Askable(h)' => sys'[h].w >= RealWidth
      <4>1. size => ~Askable(h)'
        BY <1>17, <3>3 DEF Askable, Unasked
      <4>2. ~size => (Askable(h)' <=> Askable(h)) /\ sys'[h].w = sys[h].w
        BY <1>10, <1>12, <1>17 DEF Askable
      <4> QED
        BY <2>0, <3>2, <4>1, <4>2 DEF CheckHolds
    <3>5. h \notin Entries' => sys'[h].proc = sys[h].proc /\ h \notin Entries
      BY <1>12, <1>14, <1>17
    <3>6. h \in Entries => h \in Entries' /\ sys'[h].proc = sys[h].proc /\ table'[h].proc = table[h].proc
      BY <1>12, <1>14, <1>17 DEF proc
    <3>7. CASE t \in late
      BY <1>23, <1>24, <3>1, <3>4, <3>5, <3>7
    <3>8. CASE t \notin late
      <4>1. /\ check[t].at = "add" /\ h \notin Entries /\ mine[h] # Torn => check[t].proc = sys[h].proc
            /\ check[t].at = "install" =>
                  h \in Entries /\ (mine[h] # Torn => sys[h].proc \in {Subclass, table[h].proc})
        BY <2>0, <3>2, <3>8 DEF CheckHolds
      <4> QED
        BY <1>1, <3>1, <3>2, <3>4, <3>5, <3>6, <3>8, <4>1
    <3> QED
      BY <3>7, <3>8
  <2>3. WidthKnown(h)'
    <3>1. CASE size /\ ~alone
      BY <1>17, <3>1 DEF WidthKnown, Askable, Unasked
    <3>2. CASE size /\ alone
      <4>1. scaled => OverScreen(h)'
        BY <1>9, <1>12, <1>17, <3>2 DEF OverScreen, Seen
      <4>2. ~scaled => AsAsked(h)'
        BY <1>9, <1>12, <1>17, <3>2 DEF AsAsked
      <4> QED
        BY <1>20, <4>1, <4>2 DEF WidthKnown
    <3>3. CASE ~size
      <4>1. scaled <=> h \in Covering
        BY <1>5, <1>6, <1>15, <1>16, <3>3
      <4>2. h \in Entries' <=> h \in Entries
        BY <1>5, <1>6, <1>14, <3>3 DEF known
      <4>3. sys'[h].up = sys[h].up /\ sys'[h].w = sys[h].w /\ asked'[h] = asked[h]
        BY <1>10, <1>12, <1>17, <3>3
      <4>4. h \in Covering' <=> h \in Covering
        BY <1>20, <4>1
      <4>5. Checked(h)' <=> Checked(h)
        BY <1>7, <1>24, <3>3 DEF Checked
      <4>6. (AsAsked(h)' <=> AsAsked(h)) /\ (OverScreen(h)' <=> OverScreen(h)) /\ (Askable(h)' <=> Askable(h))
        BY <4>3 DEF AsAsked, OverScreen, MulDiv, Askable
      <4> QED
        BY <2>0, <4>2, <4>3, <4>4, <4>5, <4>6 DEF WidthKnown
    <3> QED
      BY <3>1, <3>2, <3>3
  <2>4. Reached(h)'
    <3>1. CASE h \in Entries
      BY <1>1, <1>12, <1>14, <1>17, <2>0, <3>1 DEF Reached, Receiver, proc
    <3>2. CASE h \notin Entries /\ known
      BY <1>1, <1>12, <1>14, <1>17, <2>0, <3>2 DEF Reached, Receiver, proc
    <3>3. CASE ~known
      BY <1>1, <1>12, <1>14, <1>17, <2>0, <3>3 DEF Reached, Receiver
    <3> QED
      BY <3>1, <3>2, <3>3
  <2> QED
    BY <2>1, <2>2, <2>3, <2>4 DEF WindowHolds
<1> QED
  BY <1>18, <1>19, <1>21, <1>22, WindowsTogether

-----------------------------------------------------------------------------
LEMMA CheckCoveringKeeps ==
  ASSUME UpscaleAssumption, UpscaleIInv, NEW t \in Lookers, NEW h \in TopWindows,
         CheckCovering(t, h)
  PROVE  UpscaleIInv'
<1> DEFINE c == Looked(h)
<1>1. /\ check[t] = NotLooking /\ sys[h].up
      /\ Covers(sys[h].x, sys[h].w, RealWidth)
      /\ check' = [check EXCEPT ![t] = c]
      /\ UNCHANGED <<mode, sys, table, covering, mine, asked>>
  BY DEF CheckCovering
<1>2. /\ UpscaleTypeOK /\ RealWidth \in Nat /\ sys[h].x \in Int /\ sys[h].w \in Nat
      /\ sys[h].proc \in Procs \cup {Subclass}
  BY DEF UpscaleIInv, UpscaleTypeOK, UpscaleAssumption
<1>3. sys[h].w >= RealWidth
  BY <1>1, <1>2 DEF Covers
<1>5. /\ c \in CheckState
      /\ c.h = h /\ c.at \in {"add", "flag"} /\ c.proc = sys[h].proc
      /\ c # NotLooking
  BY <1>2 DEF Looked, NotLooking
<1> HIDE DEF c
<1>6. check'[t] = c /\ \A u \in Lookers \ {t} : check'[u] = check[u]
  BY <1>1, <1>2 DEF UpscaleTypeOK
<1>7. UpscaleTypeOK'
  <2>1. check' \in [Lookers -> {NotLooking} \cup CheckState]
    BY <1>1, <1>2, <1>5 DEF UpscaleTypeOK
  <2> QED
    BY <1>1, <1>2, <2>1 DEF UpscaleTypeOK, Entries
<1>8. AboutOnly(h)
  BY <1>1, <1>5, <1>6 DEF AboutOnly, Entries
<1>9. (covering = Cardinality(Covering))'
  BY <1>1 DEF UpscaleIInv, Covering, Entries
<1>10. WindowHolds(h)'
  <2>1. WindowHolds(h)
    BY DEF UpscaleIInv
  <2>2. EntryInUse(h)'
    <3>1. \A u \in Lookers : check[u].at = "install" => check'[u] = check[u]
      BY <1>1, <1>6 DEF NotLooking
    <3> QED
      BY <1>1, <2>1, <3>1 DEF WindowHolds, EntryInUse, Entries
  <2>3. CheckHolds(h)'
    <3> SUFFICES ASSUME NEW u \in Lookers, check'[u] # NotLooking /\ check'[u].h = h
                 PROVE  /\ sys[h].up /\ (Askable(h) => sys[h].w >= RealWidth)
                        /\ check'[u].at = "add" /\ h \notin Entries /\ mine[h] # Torn =>
                              check'[u].proc = sys[h].proc
                        /\ check'[u].at = "install" =>
                              h \in Entries /\ (mine[h] # Torn => sys[h].proc \in {Subclass, table[h].proc})
      BY <1>1 DEF CheckHolds, Askable, Entries
    <3>1. CASE u = t
      BY <1>1, <1>3, <1>5, <1>6, <3>1
    <3>2. CASE u # t
      <4>1. check'[u] = check[u]
        BY <1>6, <3>2
      <4> QED
        BY <2>1, <4>1 DEF WindowHolds, CheckHolds
    <3> QED
      BY <3>1, <3>2
  <2>4. WidthKnown(h)'
    <3>1. Checked(h)'
      BY <1>5, <1>6 DEF Checked
    <3> QED
      BY <1>1, <2>1, <3>1 DEF WindowHolds, WidthKnown, AsAsked, Askable, OverScreen, Covering, Entries, MulDiv
  <2>5. Reached(h)'
    BY <1>1, <2>1 DEF WindowHolds, Reached, Receiver, Entries
  <2> QED
    BY <2>2, <2>3, <2>4, <2>5 DEF WindowHolds
<1> QED
  BY <1>7, <1>8, <1>9, <1>10, WindowsTogether

(* What the invariant says of a thread in check_covering.                  *)
LEMMA Looking ==
  ASSUME UpscaleIInv, NEW t \in Lookers, check[t].at # "idle"
  PROVE  LET h == check[t].h IN
         /\ h \in TopWindows /\ check[t] # NotLooking /\ WindowHolds(h)
         /\ check[t].at \in {"add", "install", "flag"} /\ check[t].proc \in Procs \cup {Subclass}
         /\ sys[h].up /\ (Askable(h) => sys[h].w >= RealWidth)
         /\ check[t].at = "add" /\ h \notin Entries /\ mine[h] # Torn => check[t].proc = sys[h].proc
         /\ check[t].at = "install" =>
               h \in Entries /\ (mine[h] # Torn => sys[h].proc \in {Subclass, table[h].proc})
<1>1. /\ check[t] # NotLooking /\ check[t].h \in TopWindows
      /\ check[t].at \in {"add", "install", "flag"} /\ check[t].proc \in Procs \cup {Subclass}
  BY ChecksTyped DEF UpscaleIInv
<1>2. WindowHolds(check[t].h)
  BY <1>1 DEF UpscaleIInv
<1> QED
  BY <1>1, <1>2 DEF WindowHolds, CheckHolds

LEMMA AddEntryKeeps ==
  ASSUME UpscaleAssumption, UpscaleIInv, NEW t \in Lookers, AddEntry(t)
  PROVE  UpscaleIInv'
<1>0. PICK h \in TopWindows : h = check[t].h
  BY Looking DEF AddEntry
<1> DEFINE added == h \notin Entries /\ HasRoom
           entry == [proc |-> check[t].proc, covers |-> FALSE]
           c == [check[t] EXCEPT !.at = IF added THEN "install" ELSE "flag"]
<1>1. /\ check[t].at = "add"
      /\ table' = IF added THEN With(h, entry) ELSE table
      /\ check' = [check EXCEPT ![t] = c]
      /\ UNCHANGED <<mode, sys, covering, mine, asked>>
  BY <1>0 DEF AddEntry
<1>2. /\ h \in TopWindows /\ check[t] # NotLooking /\ WindowHolds(h)
      /\ check[t].proc \in Procs \cup {Subclass}
      /\ h \notin Entries /\ mine[h] # Torn => check[t].proc = sys[h].proc
  BY <1>0, <1>1, Looking
<1>3. UpscaleTypeOK
  BY DEF UpscaleIInv
<1>4. /\ c \in CheckState
      /\ c.h = h /\ c.at = (IF added THEN "install" ELSE "flag") /\ c # NotLooking
  <2>1. check[t] \in CheckState
    BY <1>1, <1>3, ChecksTyped
  <2> QED
    BY <1>0, <2>1 DEF NotLooking
<1> HIDE DEF c
<1>5. check'[t] = c /\ \A u \in Lookers \ {t} : check'[u] = check[u]
  BY <1>1, <1>3 DEF UpscaleTypeOK
<1>6. entry \in EntryState /\ entry.proc = check[t].proc /\ entry.covers = FALSE
  BY <1>2
<1> HIDE DEF entry
<1>7. /\ Entries' = IF added THEN Entries \cup {h} ELSE Entries
      /\ table' \in [Entries' -> EntryState]
      /\ added => table'[h] = entry
      /\ added => h \notin Entries
      /\ ~added => table' = table
      /\ \A g \in Entries : table'[g] = table[g]
  BY <1>1, <1>2, <1>3, <1>6 DEF With, Entries, UpscaleTypeOK
<1> HIDE DEF added
<1>8. UpscaleTypeOK'
  <2>1. check' \in [Lookers -> {NotLooking} \cup CheckState]
    BY <1>1, <1>3, <1>4 DEF UpscaleTypeOK
  <2>2. Entries' \subseteq TopWindows
    BY <1>2, <1>3, <1>7 DEF UpscaleTypeOK
  <2> QED
    BY <1>1, <1>3, <1>7, <2>1, <2>2 DEF UpscaleTypeOK
<1>9. AboutOnly(h)
  <2>1. check[t].h = h
    BY <1>0
  <2> QED
    BY <1>1, <1>4, <1>5, <1>7, <2>1 DEF AboutOnly
<1>10. Covering' = Covering
  BY <1>2, <1>6, <1>7 DEF Covering
<1>11. (covering = Cardinality(Covering))'
  BY <1>1, <1>10 DEF UpscaleIInv
<1>12. WindowHolds(h)'
  <2>0. EntryInUse(h) /\ CheckHolds(h) /\ WidthKnown(h) /\ Reached(h)
    BY <1>2 DEF WindowHolds
  <2>1. EntryInUse(h)'
    <3>1. CASE added
      <4>1. sys'[h].up
        BY <1>0, <1>1, <1>2, <2>0 DEF CheckHolds
      <4> QED
        BY <1>4, <1>5, <3>1, <4>1 DEF EntryInUse
    <3>2. CASE ~added
      <4>1. \A u \in Lookers : check[u].at = "install" => check'[u] = check[u]
        BY <1>1, <1>5
      <4> QED
        BY <1>1, <1>7, <2>0, <3>2, <4>1 DEF EntryInUse
    <3> QED
      BY <3>1, <3>2
  <2>2. CheckHolds(h)'
    <3> SUFFICES ASSUME NEW u \in Lookers, check'[u] # NotLooking /\ check'[u].h = h
                 PROVE  /\ sys[h].up /\ (Askable(h) => sys[h].w >= RealWidth)
                        /\ check'[u].at = "add" /\ h \notin Entries' /\ mine[h] # Torn =>
                              check'[u].proc = sys[h].proc
                        /\ check'[u].at = "install" =>
                              h \in Entries' /\ (mine[h] # Torn => sys[h].proc \in {Subclass, table'[h].proc})
      BY <1>1 DEF CheckHolds, Askable
    <3>1. sys[h].up /\ (Askable(h) => sys[h].w >= RealWidth)
      BY <1>0, <1>2, <2>0 DEF CheckHolds
    <3>2. CASE u = t
      <4>1. check'[u].at = "install" => added /\ h \in Entries' /\ table'[h].proc = check[t].proc
        BY <1>4, <1>5, <1>6, <1>7, <3>2
      <4>2. check'[u].at # "add"
        BY <1>4, <1>5, <3>2
      <4> QED
        BY <1>2, <1>7, <3>1, <4>1, <4>2
    <3>3. CASE u # t
      <4>1. check'[u] = check[u]
        BY <1>5, <3>3
      <4>2. /\ check[u].at = "add" /\ h \notin Entries /\ mine[h] # Torn => check[u].proc = sys[h].proc
            /\ check[u].at = "install" =>
                  h \in Entries /\ (mine[h] # Torn => sys[h].proc \in {Subclass, table[h].proc})
        BY <2>0, <4>1 DEF CheckHolds
      <4>3. h \in Entries => h \in Entries' /\ table'[h] = table[h]
        BY <1>7
      <4> QED
        BY <3>1, <4>1, <4>2, <4>3
    <3> QED
      BY <3>2, <3>3
  <2>3. WidthKnown(h)'
    <3>1. Checked(h)'
      BY <1>4, <1>5 DEF Checked
    <3> QED
      BY <1>1, <1>10, <2>0, <3>1 DEF WidthKnown, AsAsked, Askable, OverScreen, MulDiv
  <2>4. Reached(h)'
    <3>1. CASE added
      BY <1>1, <1>2, <1>6, <1>7, <2>0, <3>1 DEF Reached, Receiver
    <3>2. CASE ~added
      BY <1>1, <1>7, <2>0, <3>2 DEF Reached, Receiver
    <3> QED
      BY <3>1, <3>2
  <2> QED
    BY <2>1, <2>2, <2>3, <2>4 DEF WindowHolds
<1> QED
  BY <1>2, <1>8, <1>9, <1>11, <1>12, WindowsTogether

LEMMA InstallSubclassKeeps ==
  ASSUME UpscaleAssumption, UpscaleIInv, NEW t \in Lookers, InstallSubclass(t)
  PROVE  UpscaleIInv'
<1>0. PICK h \in TopWindows : h = check[t].h
  BY Looking DEF InstallSubclass
<1> DEFINE c == [check[t] EXCEPT !.at = "flag"]
           r == [sys[h] EXCEPT !.proc = Subclass]
<1>1. /\ check[t].at = "install"
      /\ sys' = [sys EXCEPT ![h] = r]
      /\ check' = [check EXCEPT ![t] = c]
      /\ UNCHANGED <<mode, table, covering, mine, asked>>
  BY <1>0 DEF InstallSubclass
<1>2. /\ h \in TopWindows /\ check[t] # NotLooking /\ WindowHolds(h)
      /\ h \in Entries /\ (mine[h] # Torn => sys[h].proc \in {Subclass, table[h].proc})
      /\ sys[h].up
  BY <1>0, <1>1, Looking
<1>3. UpscaleTypeOK
  BY DEF UpscaleIInv
<1>4. /\ c \in CheckState
      /\ c.h = h /\ c.at = "flag" /\ c # NotLooking
  <2>1. check[t] \in CheckState
    BY <1>1, <1>3, ChecksTyped
  <2> QED
    BY <1>0, <2>1 DEF NotLooking
<1> HIDE DEF c
<1>5. /\ r \in WindowState
      /\ r.up = sys[h].up /\ r.hooked = sys[h].hooked /\ r.w = sys[h].w /\ r.proc = Subclass
  <2>1. sys[h] \in WindowState
    BY <1>2, <1>3 DEF UpscaleTypeOK
  <2> QED
    BY <2>1
<1> HIDE DEF r
<1>6. /\ check'[t] = c /\ \A u \in Lookers \ {t} : check'[u] = check[u]
      /\ sys'[h] = r /\ \A g \in TopWindows \ {h} : sys'[g] = sys[g]
      /\ check[t].h = h
  BY <1>0, <1>1, <1>2, <1>3 DEF UpscaleTypeOK
<1>7. UpscaleTypeOK'
  <2>1. check' \in [Lookers -> {NotLooking} \cup CheckState]
    BY <1>1, <1>3, <1>4 DEF UpscaleTypeOK
  <2>2. sys' \in [TopWindows -> WindowState]
    BY <1>1, <1>3, <1>5 DEF UpscaleTypeOK
  <2> QED
    BY <1>1, <1>3, <2>1, <2>2 DEF UpscaleTypeOK, Entries
<1>8. AboutOnly(h)
  BY <1>1, <1>4, <1>6 DEF AboutOnly, Entries
<1>9. Covering' = Covering /\ Entries' = Entries
  BY <1>1 DEF Covering, Entries
<1>10. (covering = Cardinality(Covering))'
  BY <1>1, <1>9 DEF UpscaleIInv
<1>11. WindowHolds(h)'
  <2>1. EntryInUse(h)'
    BY <1>2, <1>5, <1>6 DEF EntryInUse
  <2>2. CheckHolds(h)'
    <3>1. \A u \in Lookers : check'[u] # NotLooking /\ check'[u].h = h =>
            check[u] # NotLooking /\ check[u].h = h
      BY <1>2, <1>6
    <3>2. sys'[h].up /\ sys'[h].w = sys[h].w /\ sys'[h].proc = Subclass /\ h \in Entries'
      BY <1>2, <1>5, <1>6, <1>9
    <3>3. Askable(h)' <=> Askable(h)
      BY <1>1 DEF Askable
    <3> QED
      BY <1>2, <3>1, <3>2, <3>3 DEF WindowHolds, CheckHolds
  <2>3. WidthKnown(h)'
    <3>1. Checked(h)' /\ Checked(h)
      BY <1>2, <1>4, <1>6 DEF Checked
    <3>2. sys'[h].up = sys[h].up /\ sys'[h].w = sys[h].w
      BY <1>5, <1>6
    <3> QED
      BY <1>1, <1>2, <1>9, <3>1, <3>2 DEF WindowHolds, WidthKnown, AsAsked, Askable, OverScreen, MulDiv
  <2>4. Reached(h)'
    BY <1>1, <1>2, <1>5, <1>6, <1>9 DEF WindowHolds, Reached, Receiver
  <2> QED
    BY <2>1, <2>2, <2>3, <2>4 DEF WindowHolds
<1> QED
  BY <1>2, <1>7, <1>8, <1>10, <1>11, WindowsTogether

LEMMA ScaleWindowKeeps ==
  ASSUME UpscaleAssumption, UpscaleIInv, NEW t \in Lookers, ScaleWindow(t)
  PROVE  UpscaleIInv'
<1>0. PICK h \in TopWindows : h = check[t].h
  BY Looking DEF ScaleWindow
<1> DEFINE newly == h \in Entries /\ ~table[h].covers
           entry == [table[h] EXCEPT !.covers = TRUE]
<1>1. /\ check[t].at = "flag"
      /\ table' = IF newly THEN [table EXCEPT ![h] = entry] ELSE table
      /\ covering' = IF newly THEN covering + 1 ELSE covering
      /\ check' = [check EXCEPT ![t] = NotLooking]
      /\ UNCHANGED <<mode, sys, mine, asked>>
  BY <1>0 DEF ScaleWindow
<1>2. /\ h \in TopWindows /\ check[t] # NotLooking /\ WindowHolds(h)
      /\ sys[h].up /\ (Askable(h) => sys[h].w >= RealWidth)
  BY <1>0, <1>1, Looking
<1>3. UpscaleTypeOK
  BY DEF UpscaleIInv
<1>4. h \in Entries =>
        /\ entry \in EntryState
        /\ entry.proc = table[h].proc /\ entry.covers
  <2>1. h \in Entries => table[h] \in EntryState
    BY <1>3 DEF UpscaleTypeOK
  <2> QED
    BY <2>1
<1> HIDE DEF entry
<1>5. /\ check'[t] = NotLooking /\ check[t].h = h /\ \A u \in Lookers \ {t} : check'[u] = check[u]
      /\ Entries' = Entries
      /\ \A g \in Entries \ {h} : table'[g] = table[g]
      /\ newly => table'[h] = entry
      /\ ~newly => table' = table
  BY <1>0, <1>1, <1>3 DEF UpscaleTypeOK, Entries
<1>6. UpscaleTypeOK'
  <2>1. check' \in [Lookers -> {NotLooking} \cup CheckState]
    BY <1>1, <1>3 DEF UpscaleTypeOK
  <2>2. table' \in [Entries' -> EntryState]
    BY <1>1, <1>3, <1>4, <1>5 DEF UpscaleTypeOK
  <2>3. covering' \in Int
    BY <1>1, <1>3 DEF UpscaleTypeOK
  <2> QED
    BY <1>1, <1>3, <1>5, <2>1, <2>2, <2>3 DEF UpscaleTypeOK
<1>7. newly <=> h \in Entries /\ h \notin Covering
  BY DEF Covering
<1> HIDE DEF newly
<1>8. AboutOnly(h)
  BY <1>1, <1>5 DEF AboutOnly
<1>9. Covering' = IF newly THEN Covering \cup {h} ELSE Covering
  BY <1>4, <1>5, <1>7 DEF Covering
<1>10. (covering = Cardinality(Covering))'
  <2>1. CASE newly
    BY <1>1, <1>7, <1>9, <2>1, CountOf
  <2>2. CASE ~newly
    BY <1>1, <1>9, <2>2 DEF UpscaleIInv
  <2> QED
    BY <2>1, <2>2
<1>11. \A u \in Lookers : check'[u] # NotLooking => check'[u] = check[u]
  BY <1>5
<1>12. WindowHolds(h)'
  <2>1. EntryInUse(h)'
    <3>1. \A u \in Lookers : check[u].at = "install" => check[u] # NotLooking /\ u # t
      BY <1>1 DEF NotLooking
    <3> QED
      BY <1>1, <1>2, <1>5, <3>1 DEF WindowHolds, EntryInUse
  <2>2. CheckHolds(h)'
    <3>1. h \in Entries => table'[h].proc = table[h].proc
      BY <1>4, <1>5
    <3>2. Askable(h)' <=> Askable(h)
      BY <1>1 DEF Askable
    <3> QED
      BY <1>1, <1>2, <1>5, <1>11, <3>1, <3>2 DEF WindowHolds, CheckHolds
  <2>3. WidthKnown(h)'
    <3>1. Askable(h) => OverScreen(h)
      <4> SUFFICES ASSUME Askable(h), AsAsked(h)
                   PROVE  OverScreen(h)
        BY <1>2 DEF WindowHolds, WidthKnown
      <4>1. sys[h].w \in Nat /\ RealWidth \in Nat \ {0}
        BY <1>2, <1>3 DEF UpscaleTypeOK, UpscaleAssumption
      <4>2. asked[h].mode = RealWidth /\ asked[h].w = sys[h].w
        BY <1>2, <4>1 DEF Askable, AsAsked
      <4>3. RealWidth \div 2 \in 0 .. RealWidth - 1
        BY <4>1
      <4> QED
        BY <4>1, <4>2, <4>3, DividesTo DEF OverScreen, MulDiv
    <3>2. h \in Entries' => h \in Covering'
      BY <1>5, <1>7, <1>9
    <3>3. (OverScreen(h)' <=> OverScreen(h)) /\ (Askable(h)' <=> Askable(h))
      BY <1>1 DEF OverScreen, MulDiv, Askable
    <3> QED
      BY <3>1, <3>2, <3>3 DEF WidthKnown
  <2>4. Reached(h)'
    <3>1. Receiver(h)' = Receiver(h)
      BY <1>1, <1>4, <1>5, <1>7 DEF Receiver
    <3> QED
      BY <1>1, <1>2, <3>1 DEF WindowHolds, Reached
  <2> QED
    BY <2>1, <2>2, <2>3, <2>4 DEF WindowHolds
<1> QED
  BY <1>2, <1>6, <1>8, <1>10, <1>12, WindowsTogether

LEMMA SetProcKeeps ==
  ASSUME UpscaleAssumption, UpscaleIInv, NEW h \in TopWindows, NEW p \in Procs, SetProc(h, p)
  PROVE  UpscaleIInv'
<1> DEFINE entry == [table[h] EXCEPT !.proc = p]
           r == [sys[h] EXCEPT !.proc = p]
<1>1. /\ sys[h].up
      /\ h \in Entries => table' = [table EXCEPT ![h] = entry] /\ sys' = sys
      /\ h \notin Entries => sys' = [sys EXCEPT ![h] = r] /\ table' = table
      /\ mine' = [mine EXCEPT ![h] = IF Subclassing(h) THEN Torn ELSE p]
      /\ UNCHANGED <<mode, covering, check, asked>>
  BY DEF SetProc
<1>2. UpscaleTypeOK /\ WindowHolds(h)
  BY DEF UpscaleIInv
<1>3. h \in Entries /\ ~Subclassing(h) => sys[h].proc = Subclass
  BY <1>2 DEF WindowHolds, EntryInUse, Subclassing
<1>4. /\ r \in WindowState
      /\ r.up = sys[h].up /\ r.hooked = sys[h].hooked /\ r.w = sys[h].w /\ r.proc = p
  <2>1. sys[h] \in WindowState
    BY <1>2 DEF UpscaleTypeOK
  <2> QED
    BY <2>1
<1>5. h \in Entries =>
        /\ entry \in EntryState
        /\ entry.proc = p /\ entry.covers = table[h].covers
  <2>1. h \in Entries => table[h] \in EntryState
    BY <1>2 DEF UpscaleTypeOK
  <2> QED
    BY <2>1
<1> HIDE DEF entry, r
<1>6. /\ Entries' = Entries
      /\ h \in Entries => table'[h] = entry
      /\ \A g \in Entries \ {h} : table'[g] = table[g]
      /\ mine'[h] = (IF Subclassing(h) THEN Torn ELSE p)
      /\ \A g \in TopWindows \ {h} : mine'[g] = mine[g] /\ sys'[g] = sys[g]
      /\ sys'[h] = IF h \in Entries THEN sys[h] ELSE r
  BY <1>1, <1>2 DEF UpscaleTypeOK, Entries
<1>7. UpscaleTypeOK'
  <2>1. sys' \in [TopWindows -> WindowState]
    BY <1>1, <1>2, <1>4 DEF UpscaleTypeOK
  <2>2. table' \in [Entries' -> EntryState]
    BY <1>1, <1>2, <1>5, <1>6 DEF UpscaleTypeOK
  <2>3. mine' \in [TopWindows -> Procs \cup {Subclass, Torn}]
    BY <1>1, <1>2 DEF UpscaleTypeOK
  <2> QED
    BY <1>1, <1>2, <1>6, <2>1, <2>2, <2>3 DEF UpscaleTypeOK
<1>8. AboutOnly(h)
  BY <1>1, <1>6 DEF AboutOnly
<1>9. Covering' = Covering
  BY <1>5, <1>6 DEF Covering
<1>10. (covering = Cardinality(Covering))'
  BY <1>1, <1>9 DEF UpscaleIInv
<1>11. sys'[h].up = sys[h].up /\ sys'[h].w = sys[h].w
  BY <1>4, <1>6
<1>12. WindowHolds(h)'
  <2>1. EntryInUse(h)'
    BY <1>1, <1>2, <1>6 DEF WindowHolds, EntryInUse
  <2>2. CheckHolds(h)'
    <3>1. /\ mine'[h] # Torn => ~Subclassing(h)
          /\ Askable(h)' <=> Askable(h)
      BY <1>1, <1>6 DEF Askable
    <3> QED
      BY <1>1, <1>2, <1>6, <1>11, <3>1 DEF WindowHolds, CheckHolds, Subclassing
  <2>3. WidthKnown(h)'
    BY <1>1, <1>2, <1>6, <1>9, <1>11 DEF WindowHolds, WidthKnown, AsAsked, Askable, OverScreen, Checked, MulDiv
  <2>4. Reached(h)'
    BY <1>3, <1>4, <1>5, <1>6 DEF Reached, Receiver
  <2> QED
    BY <2>1, <2>2, <2>3, <2>4 DEF WindowHolds
<1> QED
  BY <1>7, <1>8, <1>10, <1>12, WindowsTogether

LEMMA DestroyKeeps ==
  ASSUME UpscaleAssumption, UpscaleIInv, NEW h \in TopWindows, Destroy(h)
  PROVE  UpscaleIInv'
<1>1. sys[h].up /\ ~Checked(h)
  BY DEF Destroy
<1>2. UpscaleTypeOK /\ (h \in Entries => sys[h].proc = Subclass)
  BY <1>1, UncheckedWindow DEF UpscaleIInv
<1>3. /\ h \in Entries =>
           /\ table' = Without(h)
           /\ covering' = IF table[h].covers THEN covering - 1 ELSE covering
      /\ h \notin Entries => table' = table /\ covering' = covering
      /\ sys' = [sys EXCEPT ![h] = NoWindow]
      /\ mine' = [mine EXCEPT ![h] = Subclass]
      /\ asked' = [asked EXCEPT ![h] = Unasked]
      /\ UNCHANGED <<mode, check>>
  BY <1>2 DEF Destroy
<1>4. /\ Entries' = Entries \ {h}
      /\ table' \in [Entries' -> EntryState]
      /\ \A g \in Entries \ {h} : table'[g] = table[g]
  BY <1>2, <1>3 DEF Without, Entries, UpscaleTypeOK
<1>5. NoWindow \in WindowState
  BY DEF NoWindow
<1>6. UpscaleTypeOK'
  <2>1. sys' \in [TopWindows -> WindowState]
    BY <1>2, <1>3, <1>5 DEF UpscaleTypeOK
  <2>2. asked' \in [TopWindows -> [w : Nat, mode : 0 .. RealWidth]]
    BY <1>2, <1>3 DEF UpscaleTypeOK, Unasked, UpscaleAssumption
  <2>3. covering' \in Int /\ Entries' \subseteq TopWindows /\ mine' \in [TopWindows -> Procs \cup {Subclass, Torn}]
    BY <1>2, <1>3, <1>4 DEF UpscaleTypeOK
  <2> QED
    BY <1>2, <1>3, <1>4, <2>1, <2>2, <2>3 DEF UpscaleTypeOK
<1>7. /\ sys'[h] = NoWindow
      /\ \A g \in TopWindows \ {h} : sys'[g] = sys[g] /\ mine'[g] = mine[g] /\ asked'[g] = asked[g]
  BY <1>2, <1>3 DEF UpscaleTypeOK
<1>8. AboutOnly(h)
  BY <1>3, <1>4, <1>7 DEF AboutOnly
<1>9. Covering' = Covering \ {h}
  BY <1>4 DEF Covering
<1>10. (covering = Cardinality(Covering))'
  <2>1. covering' = covering - (IF h \in Covering THEN 1 ELSE 0)
    <3>1. h \in Covering <=> h \in Entries /\ table[h].covers
      BY DEF Covering
    <3>2. covering \in Nat
      BY CountOf
    <3>3. covering' = IF h \in Covering THEN covering - 1 ELSE covering
      BY <1>3, <3>1
    <3> QED
      BY <3>2, <3>3
  <2> QED
    BY <1>9, <2>1, CountOf
<1>11. WindowHolds(h)'
  BY <1>1, <1>3, <1>4, <1>7 DEF WindowHolds, EntryInUse, CheckHolds, Checked, WidthKnown, Reached, NoWindow
<1> QED
  BY <1>6, <1>8, <1>10, <1>11, WindowsTogether

(* For any windows and procedures, any widths up to the real one, and any  *)
(* number of threads that look at a window while another uses it: the      *)
(* screen is scaled exactly while a window covers it, a window is seen as  *)
(* the program asked for it (unless another thread looked into the         *)
(* placement, or it is as wide as the real display in a smaller mode), and *)
(* its messages reach the procedure set last (unless it was set while      *)
(* another thread put the subclass in place).                              *)
THEOREM ScalingStaysSound ==
  ASSUME UpscaleAssumption
  PROVE  UpscaleSpec => []ScalingSound
<1>1. UpscaleInit => UpscaleIInv
  <2> SUFFICES ASSUME UpscaleInit
               PROVE  UpscaleIInv
    OBVIOUS
  <2>1. Entries = {} /\ table = << >>
    BY DEF UpscaleInit, Entries
  <2>2. NoWindow \in WindowState
    BY DEF NoWindow
  <2>3. UpscaleTypeOK
    <3>1. table \in [Entries -> EntryState]
      BY <2>1 DEF Entries
    <3>2. asked \in [TopWindows -> [w : Nat, mode : 0 .. RealWidth]] /\ mode \in 1 .. RealWidth
      BY DEF UpscaleInit, UpscaleAssumption, Unasked
    <3> QED
      BY <2>1, <2>2, <3>1, <3>2 DEF UpscaleInit, UpscaleTypeOK
  <2>4. Covering = {} /\ covering = Cardinality(Covering)
    BY <2>1, FS_EmptySet DEF Covering, UpscaleInit
  <2>5. \A h \in TopWindows : WindowHolds(h)
    BY <2>1 DEF UpscaleInit, WindowHolds, EntryInUse, CheckHolds, WidthKnown, Reached, NoWindow
  <2> QED
    BY <2>3, <2>4, <2>5 DEF UpscaleIInv
<1>2. UpscaleIInv /\ [UpscaleNext]_upscaleVars => UpscaleIInv'
  <2> SUFFICES ASSUME UpscaleIInv, [UpscaleNext]_upscaleVars
               PROVE  UpscaleIInv'
    OBVIOUS
  <2>1. CASE UNCHANGED upscaleVars
    <3>1. UNCHANGED <<mode, sys, table, covering, check, mine, asked>>
      BY <2>1 DEF upscaleVars
    <3>2. UpscaleTypeOK'
      BY <3>1 DEF UpscaleIInv, UpscaleTypeOK, Entries
    <3>3. \A h \in TopWindows : WindowHolds(h)'
      BY <3>1 DEF UpscaleIInv, WindowHolds, EntryInUse, CheckHolds, WidthKnown, Reached, AsAsked,
                  Askable, OverScreen, Receiver, Covering, Entries, Checked
    <3> QED
      BY <3>1, <3>2, <3>3 DEF UpscaleIInv, Covering, Entries
  <2>2. CASE \E w \in Widths \cup {DesktopWidth} : ChangeMode(w)
    BY <2>2, ChangeModeKeeps
  <2>3. CASE \E h \in TopWindows, x \in Lefts, w \in Widths, p \in Procs :
               CreateWindow(h, x, w, p) \/ CreateUnhooked(h, x, w, p)
    BY <2>3, CreateWindowKeeps, CreateUnhookedKeeps
  <2>4. CASE \E h \in TopWindows, move, size \in BOOLEAN :
               \E x \in IF move THEN Lefts ELSE {0}, w \in IF size THEN Widths ELSE {0} :
                 Place(h, move, size, x, w)
    <3>1. PICK h \in TopWindows, move \in BOOLEAN, size \in BOOLEAN :
            \E x \in IF move THEN Lefts ELSE {0}, w \in IF size THEN Widths ELSE {0} :
              Place(h, move, size, x, w)
      BY <2>4
    <3>2. PICK x \in IF move THEN Lefts ELSE {0}, w \in IF size THEN Widths ELSE {0} :
            Place(h, move, size, x, w)
      BY <3>1
    <3>3. x \in Int /\ (size => w \in Widths)
      BY DEF UpscaleAssumption
    <3> QED
      BY <3>2, <3>3, PlaceKeeps
  <2>5. CASE \E h \in TopWindows : Maximize(h) \/ Show(h) \/ Destroy(h)
    BY <2>5, MaximizeKeeps, ShowKeeps, DestroyKeeps
  <2>6. CASE \E t \in Lookers, h \in TopWindows : CheckCovering(t, h)
    BY <2>6, CheckCoveringKeeps
  <2>7. CASE \E t \in Lookers : AddEntry(t) \/ InstallSubclass(t) \/ ScaleWindow(t)
    BY <2>7, AddEntryKeeps, InstallSubclassKeeps, ScaleWindowKeeps
  <2>8. CASE \E h \in TopWindows, p \in Procs : SetProc(h, p)
    BY <2>8, SetProcKeeps
  <2> QED
    BY <2>1, <2>2, <2>3, <2>4, <2>5, <2>6, <2>7, <2>8 DEF UpscaleNext
<1>3. UpscaleIInv => ScalingSound
  <2> SUFFICES ASSUME UpscaleIInv
               PROVE  ScalingSound
    OBVIOUS
  <2>1. ScreenScaledTruly
    <3>1. covering = Cardinality({h \in Entries : table[h].covers})
      BY DEF UpscaleIInv, Covering
    <3>2. covering > 0 => Covering # {}
      BY FS_EmptySet DEF UpscaleIInv
    <3>3. \A h \in Covering : h \in TopWindows /\ sys[h].up /\ Scaled(h)
      BY DEF Covering, Scaled, UpscaleIInv, UpscaleTypeOK, WindowHolds, EntryInUse
    <3> QED
      BY <3>1, <3>2, <3>3 DEF ScreenScaledTruly, ScreenScaled
  <2>2. AskedIsSeen
    <3> SUFFICES ASSUME NEW h \in Entries, sys[h].up, ~Checked(h), Askable(h), asked[h].mode = mode
                 PROVE  SeenWidth(h) = asked[h].w
      BY DEF AskedIsSeen
    <3>1. WidthKnown(h) /\ mode # 0
      BY DEF UpscaleIInv, UpscaleTypeOK, WindowHolds
    <3>2. Scaled(h) <=> h \in Covering
      BY DEF Scaled, Covering
    <3> QED
      BY <3>1, <3>2 DEF WidthKnown, AsAsked, OverScreen, SeenWidth, Seen
  <2>3. MessagesReachProgram
    BY DEF UpscaleIInv, WindowHolds, MessagesReachProgram
  <2> QED
    BY <2>1, <2>2, <2>3 DEF ScalingSound
<1> QED
  BY <1>1, <1>2, <1>3, PTL DEF UpscaleSpec

HIDE DEF WindowState, EntryState, CheckState

-----------------------------------------------------------------------------
(***************************************************************************)
(* UpscaleImports.                                                         *)
(***************************************************************************)

LEMMA NotedAreNew ==
  ASSUME NEW bases
  PROVE  \A s \in Noted(bases) : s \subseteq bases
BY DEF Noted, New

LEMMA LoadKeeps ==
  ASSUME ImportsAssumption, ImportsIInv, NEW m \in Modules, NEW b \in Bases, Load(m, b)
  PROVE  ImportsIInv'
<1>1. /\ at[b] = NoModule /\ m \notin Loaded /\ at' = [at EXCEPT ![b] = m]
      /\ UNCHANGED <<enabled, unloaded>> /\ m # NoModule
  BY DEF Load, ImportsAssumption, NoModule
<1>2. /\ enabled => /\ \E s \in Noted({b}) : patched' = patched \cup s
                    /\ hooked' = hooked \cup (IF b \notin patched THEN {m} \ Builtin ELSE {})
      /\ ~enabled => hooked' = hooked /\ patched' = patched
  BY DEF Load
<1>3. /\ at' \in [Bases -> Modules \cup {NoModule}]
      /\ at'[b] = m /\ \A c \in Bases \ {b} : at'[c] = at[c]
  BY <1>1 DEF ImportsIInv
<1>4. Loaded' = Loaded \cup {m} /\ \A c \in Bases : at[c] # m
  BY <1>1, <1>3 DEF Loaded
<1>5. \A c, d \in Bases : at'[c] = at'[d] /\ at'[c] # NoModule => c = d
  BY <1>3, <1>4 DEF ImportsIInv
<1>6. hooked' \subseteq hooked \cup ({m} \ Builtin) /\ hooked \subseteq hooked'
  BY <1>2 DEF ImportsIInv
<1>7. hooked' \subseteq Loaded' \ Builtin
  BY <1>4, <1>6 DEF ImportsIInv
<1>8. patched' \subseteq {c \in Bases : at'[c] # NoModule} \cup unloaded'
  <2>1. patched' \subseteq patched \cup {b}
    BY <1>2, NotedAreNew DEF ImportsIInv
  <2> QED
    BY <1>1, <1>3, <2>1 DEF ImportsIInv
<1>9. ~enabled' => patched' = {}
  BY <1>1, <1>2 DEF ImportsIInv
<1>10. LoadedArePatched'
  <2> SUFFICES ASSUME enabled, NEW c \in Bases \ unloaded, at'[c] # NoModule
               PROVE  at'[c] \in hooked' <=> at'[c] \notin Builtin
    BY <1>1 DEF LoadedArePatched
  <2>1. CASE c = b
    <3>1. b \notin patched
      BY <1>1, <2>1 DEF ImportsIInv
    <3> QED
      BY <1>2, <1>3, <1>7, <2>1, <3>1
  <2>2. CASE c # b
    <3>1. at'[c] = at[c] /\ at[c] # m
      BY <1>3, <1>4, <2>2
    <3>2. at[c] \in hooked <=> at[c] \notin Builtin
      BY <3>1 DEF ImportsIInv, LoadedArePatched
    <3> QED
      BY <1>6, <3>1, <3>2
  <2> QED
    BY <2>1, <2>2
<1> QED
  BY <1>1, <1>3, <1>5, <1>7, <1>8, <1>9, <1>10 DEF ImportsIInv

LEMMA UnloadKeeps ==
  ASSUME ImportsAssumption, ImportsIInv, NEW b \in Bases, Unload(b)
  PROVE  ImportsIInv'
<1>1. /\ at[b] # NoModule /\ at' = [at EXCEPT ![b] = NoModule]
      /\ hooked' = hooked \ {at[b]} /\ UNCHANGED <<patched, enabled>>
      /\ enabled => unloaded' = unloaded \cup {b}
      /\ ~enabled => unloaded' = unloaded
  BY DEF Unload
<1>2. /\ at' \in [Bases -> Modules \cup {NoModule}]
      /\ at'[b] = NoModule /\ \A c \in Bases \ {b} : at'[c] = at[c]
  BY <1>1 DEF ImportsIInv
<1>3. \A c, d \in Bases : at'[c] = at'[d] /\ at'[c] # NoModule => c = d
  BY <1>2 DEF ImportsIInv
<1>4. Loaded \ {at[b]} \subseteq Loaded'
  BY <1>2 DEF Loaded
<1>5. hooked' \subseteq Loaded' \ Builtin
  BY <1>1, <1>4 DEF ImportsIInv
<1>6. patched' \subseteq {c \in Bases : at'[c] # NoModule} \cup unloaded'
  BY <1>1, <1>2 DEF ImportsIInv
<1>7. LoadedArePatched'
  <2> SUFFICES ASSUME enabled, NEW c \in Bases \ unloaded', at'[c] # NoModule
               PROVE  at'[c] \in hooked' <=> at'[c] \notin Builtin
    BY <1>1 DEF LoadedArePatched
  <2>1. c # b /\ at'[c] = at[c] /\ c \notin unloaded
    BY <1>1, <1>2
  <2>2. at[c] # at[b]
    BY <1>1, <2>1 DEF ImportsIInv
  <2>3. at[c] \in hooked <=> at[c] \notin Builtin
    BY <2>1 DEF ImportsIInv, LoadedArePatched
  <2> QED
    BY <1>1, <2>1, <2>2, <2>3
<1> QED
  BY <1>1, <1>2, <1>3, <1>5, <1>6, <1>7 DEF ImportsIInv

LEMMA StartKeeps ==
  ASSUME ImportsAssumption, ImportsIInv, Start
  PROVE  ImportsIInv'
<1> DEFINE bases == {b \in Bases : at[b] # NoModule}
<1>1. /\ ~enabled /\ enabled' = TRUE /\ UNCHANGED <<at, unloaded>>
      /\ \E s \in Noted(bases) : patched' = patched \cup s
      /\ hooked' = hooked \cup ({at[b] : b \in New(bases)} \ Builtin)
  BY DEF Start
<1>2. New(bases) = bases /\ patched = {}
  BY <1>1 DEF ImportsIInv, New
<1>3. Loaded' = Loaded /\ Loaded = {at[b] : b \in bases}
  BY <1>1 DEF Loaded
<1>4. hooked' = Loaded \ Builtin
  BY <1>1, <1>2, <1>3 DEF ImportsIInv
<1>5. patched' \subseteq bases
  BY <1>1, <1>2, NotedAreNew
<1>6. LoadedArePatched'
  BY <1>1, <1>3, <1>4 DEF LoadedArePatched
<1> QED
  BY <1>1, <1>3, <1>4, <1>5, <1>6 DEF ImportsIInv

(* While a program runs, its modules have the functions that see to the    *)
(* screen, whether loaded before the DLL started or after, also when       *)
(* patched[] is full; Wine's own have not (upscalegl_init, dll_loaded).    *)
THEOREM ModulesAreHooked ==
  ASSUME ImportsAssumption
  PROVE  ImportsSpec => []LoadedArePatched
<1>1. ImportsInit => ImportsIInv
  BY DEF ImportsInit, ImportsIInv, LoadedArePatched, Loaded
<1>2. ImportsIInv /\ [ImportsNext]_importsVars => ImportsIInv'
  <2> SUFFICES ASSUME ImportsIInv, [ImportsNext]_importsVars
               PROVE  ImportsIInv'
    OBVIOUS
  <2>1. CASE UNCHANGED importsVars
    BY <2>1 DEF importsVars, ImportsIInv, LoadedArePatched, Loaded
  <2> QED
    BY <2>1, LoadKeeps, UnloadKeeps, StartKeeps DEF ImportsNext
<1>3. ImportsIInv => LoadedArePatched
  BY DEF ImportsIInv
<1> QED
  BY <1>1, <1>2, <1>3, PTL DEF ImportsSpec

(* Together: what the program asked for is what it sees, and the modules   *)
(* it loads have the functions that see to it.                             *)
THEOREM UpscaleStaysSound ==
  ASSUME UpscaleAssumption, ImportsAssumption
  PROVE  UpscaleSpec /\ ImportsSpec => []UpscaleSound
<1>1. ScalingSound /\ LoadedArePatched => UpscaleSound
  BY DEF UpscaleSound
<1> QED
  BY <1>1, ScalingStaysSound, ModulesAreHooked, PTL
=============================================================================
