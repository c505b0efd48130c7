--------------------------- MODULE PlayQueue_proofs ---------------------------
(***************************************************************************)
(* Proofs about PlayQueue, for every set of songs, every bound and every   *)
(* combination of settings.                                                *)
(***************************************************************************)
EXTENDS MCPlayQueue, SequencesExt, SequenceTheorems, FiniteSetTheorems, TLAPS

(***************************************************************************)
(* What the operators the queue is built from do, entry by entry, for      *)
(* every argument: the ones that model Vec::remove, Vec::insert,           *)
(* Vec::extend and slicing.                                                *)
(***************************************************************************)
(* Removing an entry shifts the later ones down by one. *)
LEMMA RemoveAtFacts ==
    ASSUME NEW S, NEW s \in Seq(S), NEW i \in 1..Len(s)
    PROVE  /\ RemoveAt(s, i) \in Seq(S)
           /\ Len(RemoveAt(s, i)) = Len(s) - 1
           /\ \A j \in 1..(Len(s) - 1) :
                 RemoveAt(s, i)[j] = IF j < i THEN s[j] ELSE s[j + 1]
<1> DEFINE front == SubSeq(s, 1, i - 1)
           back == SubSeq(s, i + 1, Len(s))
<1>1. /\ front \in Seq(S)
      /\ Len(front) = i - 1
      /\ \A j \in 1..(i - 1) : front[j] = s[j]
  BY SubSeqProperties, LenProperties, ElementOfSeq
<1>2. /\ back \in Seq(S)
      /\ Len(back) = Len(s) - i
      /\ \A j \in 1..(Len(s) - i) : back[j] = s[j + i]
  BY SubSeqProperties, LenProperties, ElementOfSeq
<1> HIDE DEF front, back
<1>3. RemoveAt(s, i) = front \o back
  BY DEF RemoveAt, front, back
<1>4. /\ front \o back \in Seq(S)
      /\ Len(front \o back) = Len(s) - 1
      /\ \A j \in 1..(Len(s) - 1) : (front \o back)[j] =
            IF j <= i - 1 THEN front[j] ELSE back[j - (i - 1)]
  <2>1. Len(front) + Len(back) = Len(s) - 1
    BY <1>1, <1>2, LenProperties
  <2>2. /\ front \o back \in Seq(S)
        /\ Len(front \o back) = Len(front) + Len(back)
        /\ \A j \in 1..(Len(front) + Len(back)) : (front \o back)[j] =
              IF j <= Len(front) THEN front[j] ELSE back[j - Len(front)]
    BY <1>1, <1>2, ConcatProperties
  <2>3. Len(front) = i - 1
    BY <1>1
  <2> QED BY <2>1, <2>2, <2>3
<1>5. ASSUME NEW j \in 1..(Len(s) - 1)
      PROVE  (front \o back)[j] = IF j < i THEN s[j] ELSE s[j + 1]
  <2>1. CASE j < i
    BY <1>1, <1>4, <2>1
  <2>2. CASE ~(j < i)
    <3>1. j - (i - 1) \in 1..(Len(s) - i)
      BY <2>2, LenProperties
    <3>2. back[j - (i - 1)] = s[(j - (i - 1)) + i]
      BY <3>1, <1>2
    <3> QED BY <1>4, <2>2, <3>2
  <2> QED BY <2>1, <2>2
<1> QED BY <1>3, <1>4, <1>5

(* s with the block t inserted after its first at entries. *)
Splice(s, at, t) == SubSeq(s, 1, at) \o t \o SubSeq(s, at + 1, Len(s))

(* Splicing a block in at a gap: the entries before the gap stay, those    *)
(* after it shift up by the length of the block.                           *)
LEMMA SpliceFacts ==
    ASSUME NEW S, NEW s \in Seq(S), NEW t \in Seq(S), NEW at \in 0..Len(s)
    PROVE  /\ Splice(s, at, t) \in Seq(S)
           /\ Len(Splice(s, at, t)) = Len(s) + Len(t)
           /\ \A j \in 1..(Len(s) + Len(t)) : Splice(s, at, t)[j] =
                 IF j <= at THEN s[j]
                 ELSE IF j <= at + Len(t) THEN t[j - at]
                 ELSE s[j - Len(t)]
<1> DEFINE front == SubSeq(s, 1, at)
           back == SubSeq(s, at + 1, Len(s))
           mid == front \o t
<1>1. /\ front \in Seq(S)
      /\ Len(front) = at
      /\ \A j \in 1..at : front[j] = s[j]
  BY SubSeqProperties, LenProperties, ElementOfSeq
<1>2. /\ back \in Seq(S)
      /\ Len(back) = Len(s) - at
      /\ \A j \in 1..(Len(s) - at) : back[j] = s[j + at]
  BY SubSeqProperties, LenProperties, ElementOfSeq
<1> HIDE DEF front, back
<1>3. /\ mid \in Seq(S)
      /\ Len(mid) = at + Len(t)
      /\ \A j \in 1..(at + Len(t)) : mid[j] =
            IF j <= at THEN front[j] ELSE t[j - at]
  <2>1. /\ front \o t \in Seq(S)
        /\ Len(front \o t) = Len(front) + Len(t)
        /\ \A j \in 1..(Len(front) + Len(t)) : (front \o t)[j] =
              IF j <= Len(front) THEN front[j] ELSE t[j - Len(front)]
    BY <1>1, ConcatProperties
  <2>2. Len(front) = at
    BY <1>1
  <2> QED BY <2>1, <2>2
<1> HIDE DEF mid
<1>4. /\ mid \o back \in Seq(S)
      /\ Len(mid \o back) = Len(s) + Len(t)
      /\ \A j \in 1..(Len(s) + Len(t)) : (mid \o back)[j] =
            IF j <= at + Len(t) THEN mid[j] ELSE back[j - (at + Len(t))]
  <2>1. /\ mid \o back \in Seq(S)
        /\ Len(mid \o back) = Len(mid) + Len(back)
        /\ \A j \in 1..(Len(mid) + Len(back)) : (mid \o back)[j] =
              IF j <= Len(mid) THEN mid[j] ELSE back[j - Len(mid)]
    BY <1>2, <1>3, ConcatProperties
  <2>2. Len(mid) = at + Len(t)
    BY <1>3
  <2>3. Len(mid) + Len(back) = Len(s) + Len(t)
    BY <1>2, <1>3, LenProperties
  <2> QED BY <2>1, <2>2, <2>3
<1>5. ASSUME NEW j \in 1..(Len(s) + Len(t))
      PROVE  (mid \o back)[j] = IF j <= at THEN s[j]
                                ELSE IF j <= at + Len(t) THEN t[j - at]
                                ELSE s[j - Len(t)]
  <2>1. CASE j <= at
    BY <1>1, <1>3, <1>4, <2>1, LenProperties
  <2>2. CASE ~(j <= at) /\ j <= at + Len(t)
    BY <1>3, <1>4, <2>2, LenProperties
  <2>3. CASE ~(j <= at + Len(t))
    <3>1. /\ j - (at + Len(t)) \in 1..(Len(s) - at)
          /\ (j - (at + Len(t))) + at = j - Len(t)
          /\ ~(j <= at)
      BY <2>3, LenProperties
    <3>2. back[j - (at + Len(t))] = s[j - Len(t)]
      BY <1>2, <3>1
    <3> QED BY <1>4, <2>3, <3>1, <3>2
  <2> QED BY <2>1, <2>2, <2>3
<1>6. Splice(s, at, t) = mid \o back
  BY DEF Splice, mid, front, back
<1> QED BY <1>4, <1>5, <1>6

(* Inserting one entry at 1-based index i. *)
LEMMA InsertAtFacts ==
    ASSUME NEW S, NEW s \in Seq(S), NEW i \in 1..(Len(s) + 1), NEW e \in S
    PROVE  /\ InsertAt(s, i, e) \in Seq(S)
           /\ Len(InsertAt(s, i, e)) = Len(s) + 1
           /\ \A j \in 1..(Len(s) + 1) : InsertAt(s, i, e)[j] =
                 IF j < i THEN s[j] ELSE IF j = i THEN e ELSE s[j - 1]
<1> DEFINE t == <<e>>
           at == i - 1
           r == Splice(s, at, t)
<1>1. t \in Seq(S) /\ Len(t) = 1 /\ t[1] = e
  OBVIOUS
<1>2. at \in 0..Len(s) /\ at + 1 = i
  BY LenProperties
<1>3. InsertAt(s, i, e) = r
  BY <1>2 DEF InsertAt, Splice
<1> HIDE DEF t, at
<1>4. r \in Seq(S) /\ Len(r) = Len(s) + Len(t)
  BY <1>1, <1>2, SpliceFacts
<1>5. ASSUME NEW j \in 1..(Len(s) + 1)
      PROVE  r[j] = IF j < i THEN s[j] ELSE IF j = i THEN e ELSE s[j - 1]
  <2>1. j \in 1..(Len(s) + Len(t))
    BY <1>1
  <2>2. r[j] = IF j <= at THEN s[j]
               ELSE IF j <= at + Len(t) THEN t[j - at]
               ELSE s[j - Len(t)]
    BY <1>1, <1>2, <2>1, SpliceFacts
  <2> QED BY <1>1, <1>2, <2>2, LenProperties
<1>6. Len(r) = Len(s) + 1
  BY <1>1, <1>4
<1> QED BY <1>3, <1>4, <1>5, <1>6

LEMMA InsertAtEntry ==
    ASSUME NEW S, NEW s \in Seq(S), NEW i \in 1..(Len(s) + 1), NEW e \in S,
           NEW j \in 1..(Len(s) + 1)
    PROVE  InsertAt(s, i, e)[j] = IF j < i THEN s[j] ELSE IF j = i THEN e ELSE s[j - 1]
<1>1. \A n \in 1..(Len(s) + 1) : InsertAt(s, i, e)[n] =
          IF n < i THEN s[n] ELSE IF n = i THEN e ELSE s[n - 1]
  BY InsertAtFacts
<1> QED BY <1>1

(* Moving the entry at i to k leaves the entries outside their span alone. *)
LEMMA MoveKeepsOutside ==
    ASSUME NEW S, NEW s \in Seq(S), NEW i \in 1..Len(s), NEW k \in 1..Len(s)
    PROVE  /\ InsertAt(RemoveAt(s, i), k, s[i]) \in Seq(S)
           /\ Len(InsertAt(RemoveAt(s, i), k, s[i])) = Len(s)
           /\ \A j \in 1..Len(s) : (j < i /\ j < k) \/ (i < j /\ k < j) =>
                 InsertAt(RemoveAt(s, i), k, s[i])[j] = s[j]
<1> DEFINE r == RemoveAt(s, i)
           e == s[i]
<1>1. e \in S /\ Len(s) \in Nat
  BY ElementOfSeq, LenProperties
<1>2. /\ r \in Seq(S) /\ Len(r) = Len(s) - 1
      /\ \A j \in 1..(Len(s) - 1) : r[j] = IF j < i THEN s[j] ELSE s[j + 1]
  BY RemoveAtFacts
<1> HIDE DEF r, e
<1>3. k \in 1..(Len(r) + 1)
  BY <1>1, <1>2
<1>4. /\ InsertAt(r, k, e) \in Seq(S) /\ Len(InsertAt(r, k, e)) = Len(r) + 1
      /\ \A j \in 1..(Len(r) + 1) : InsertAt(r, k, e)[j] =
            IF j < k THEN r[j] ELSE IF j = k THEN e ELSE r[j - 1]
  <2>1. InsertAt(r, k, e) \in Seq(S) /\ Len(InsertAt(r, k, e)) = Len(r) + 1
    BY <1>1, <1>2, <1>3, InsertAtFacts
  <2>2. ASSUME NEW j \in 1..(Len(r) + 1)
        PROVE  InsertAt(r, k, e)[j] = IF j < k THEN r[j] ELSE IF j = k THEN e ELSE r[j - 1]
    BY <1>1, <1>2, <1>3, InsertAtEntry
  <2> QED BY <2>1, <2>2
<1>5. ASSUME NEW j \in 1..Len(s), (j < i /\ j < k) \/ (i < j /\ k < j)
      PROVE  InsertAt(r, k, e)[j] = s[j]
  <2>1. j \in 1..(Len(r) + 1)
    BY <1>1, <1>2
  <2>2. CASE j < i /\ j < k
    <3>1. j \in 1..(Len(s) - 1)
      BY <1>1, <2>2
    <3> QED BY <1>2, <1>4, <2>1, <2>2, <3>1
  <2>3. CASE i < j /\ k < j
    <3>1. j - 1 \in 1..(Len(s) - 1) /\ ~(j - 1 < i) /\ (j - 1) + 1 = j /\ ~(j < k) /\ j # k
      BY <1>1, <2>3
    <3>2. InsertAt(r, k, e)[j] = r[j - 1]
      BY <1>4, <2>1, <3>1
    <3> QED BY <1>2, <3>1, <3>2
  <2> QED BY <1>5, <2>2, <2>3
<1> QED BY <1>1, <1>2, <1>4, <1>5 DEF r, e

(***************************************************************************)
(* What mpv's operations and the daemon's wrappers keep of MpvOK.          *)
(***************************************************************************)
LEMMA StopOK ==
    ASSUME NEW m, MpvOK(m)
    PROVE  MpvOK(mpv_stop(m))
BY EmptySeq DEF MpvOK, mpv_stop, IdleMpv, None

LEMMA LoadfileOK ==
    ASSUME NEW m, MpvOK(m), NEW s \in Songs
    PROVE  MpvOK(loadfile(m, s))
<1>1. <<s>> \in Seq(Songs) /\ Len(<<s>>) = 1
  OBVIOUS
<1> QED BY <1>1 DEF MpvOK, loadfile, None

LEMMA RemoveEntryOK ==
    ASSUME NEW m, MpvOK(m), NEW i \in {0, 1}, i < Len(m.list)
    PROVE  MpvOK(playlist_remove(m, i))
<1> DEFINE r == RemoveAt(m.list, i + 1)
<1>1. m.list \in Seq(Songs) /\ i + 1 \in 1..Len(m.list)
  BY DEF MpvOK
<1>2. r \in Seq(Songs) /\ Len(r) = Len(m.list) - 1
  BY <1>1, RemoveAtFacts
<1>3. m.list # <<>>
  BY <1>1, EmptySeq
<1>4. Len(m.list) \in Nat
  BY <1>1, LenProperties
<1> HIDE DEF r
<1>5. playlist_remove(m, i) =
        [alive |-> m.alive, list |-> r,
         pos |-> IF i < m.pos THEN m.pos - 1
                 ELSE IF i = m.pos /\ i + 1 = Len(m.list) THEN None
                 ELSE m.pos]
  BY DEF playlist_remove, r
<1> QED BY <1>1, <1>2, <1>3, <1>4, <1>5 DEF MpvOK, None

LEMMA DropOK ==
    ASSUME NEW m, MpvOK(m)
    PROVE  MpvOK(drop_preload(m))
BY RemoveEntryOK DEF drop_preload

LEMMA PreloadOK ==
    ASSUME NEW m, MpvOK(m), NEW q \in Seq(Songs), NEW mode \in Modes,
           NEW cur \in Nat
    PROVE  MpvOK(preload_next_track(m, q, mode, cur))
<1> DEFINE next == next_auto(mode, cur, Len(q))
<1>1. CASE m.alive /\ Len(m.list) = 1 /\ next # None /\ next < Len(q)
  <2>1. next + 1 \in 1..Len(q)
    <3>1. Len(q) \in Nat
      BY LenProperties
    <3>2. next = cur \/ next = (cur + 1) % Len(q) \/ next = cur + 1
      BY <1>1 DEF next_auto, Modes
    <3>3. Len(q) # 0
      BY <1>1 DEF next_auto
    <3>4. (cur + 1) % Len(q) \in 0..(Len(q) - 1)
      BY <3>1, <3>3
    <3> QED BY <1>1, <3>1, <3>2, <3>4
  <2>2. q[next + 1] \in Songs
    BY <2>1, ElementOfSeq
  <2>3. ASSUME NEW s \in Songs
        PROVE  MpvOK(loadfile_append(m, s))
    <3>1. m.list \in Seq(Songs)
      BY DEF MpvOK
    <3>2. Append(m.list, s) \in Seq(Songs)
      BY <3>1, AppendProperties
    <3>3. Len(Append(m.list, s)) = Len(m.list) + 1
      BY <3>1, AppendProperties
    <3>4. Len(Append(m.list, s)) = 2
      BY <1>1, <3>3
    <3> QED BY <1>1, <3>1, <3>2, <3>4 DEF MpvOK, loadfile_append, None
  <2> QED BY <1>1, <2>2, <2>3 DEF preload_next_track
<1>2. CASE ~(m.alive /\ Len(m.list) = 1 /\ next # None /\ next < Len(q))
  BY <1>2 DEF preload_next_track
<1> QED BY <1>1, <1>2

LEMMA ResyncOK ==
    ASSUME TypeOK, NEW q \in Seq(Songs), NEW cur \in Nat \union {None},
           NEW needed \in BOOLEAN
    PROVE  MpvOK(resync_gapless_preload(q, cur, needed))
BY PreloadOK, DropOK DEF TypeOK, resync_gapless_preload, None

(***************************************************************************)
(* The inductive invariant, and the ways an action re-establishes it.      *)
(***************************************************************************)
Inv == TypeOK /\ CursorOnSong

(* What is left of Inv when the mpv, prebuffer and orphan parts are known. *)
PlayerOK == MpvOK(mpv) /\ PrebufferOK(prebuffer) /\ orphans \subseteq Nat

LEMMA OrphanedOK ==
    ASSUME TypeOK
    PROVE  orphaned \subseteq Nat
<1>1. CASE prebuffer.phase = "settle"
  <2>1. prebuffer # NoPrebuffer
    BY <1>1 DEF NoPrebuffer
  <2>2. prebuffer.pos \in Nat
    BY <2>1 DEF TypeOK, PrebufferOK
  <2> QED BY <1>1, <2>2 DEF TypeOK, orphaned
<1>2. CASE prebuffer.phase # "settle"
  BY <1>2 DEF TypeOK, orphaned
<1> QED BY <1>1, <1>2

LEMMA CancelOK ==
    ASSUME TypeOK, cancel_prebuffer
    PROVE  PrebufferOK(prebuffer') /\ orphans' \subseteq Nat
BY OrphanedOK DEF cancel_prebuffer, PrebufferOK

LEMMA StartPlayOK ==
    ASSUME TypeOK, NEW q \in Seq(Songs), NEW p \in 0..(Len(q) - 1),
           NEW buffered, StartPlay(q, p, buffered)
    PROVE  /\ queue_position' = p
           /\ song' = q[p + 1]
           /\ song' \in Songs
           /\ status' = "Playing"
           /\ PlayerOK'
<1>1. q[p + 1] \in Songs
  <2>1. p + 1 \in 1..Len(q)
    BY LenProperties
  <2> QED BY <2>1, ElementOfSeq
<1>2. queue_position' = p /\ song' = q[p + 1] /\ status' = "Playing"
  BY DEF StartPlay
<1>3. p \in Nat
  BY LenProperties
<1>4. MpvOK(mpv) /\ repeat_mode \in Modes /\ orphans \subseteq Nat /\ PrebufferOK(prebuffer)
  BY DEF TypeOK
<1>5. ASSUME /\ cancel_prebuffer
           /\ mpv' = preload_next_track(loadfile(mpv, q[p + 1]), q, repeat_mode, p)
      PROVE PlayerOK'
  BY <1>1, <1>3, <1>4, <1>5, CancelOK, LoadfileOK, PreloadOK DEF PlayerOK
<1>6. ASSUME /\ prebuffer' = [phase |-> "download", song |-> q[p + 1], pos |-> p]
           /\ orphans' = orphaned
           /\ mpv' = stop_unless_idle(mpv)
      PROVE PlayerOK'
  <2>1. PrebufferOK(prebuffer')
    BY <1>1, <1>3, <1>6 DEF PrebufferOK
  <2>2. orphans' \subseteq Nat
    BY <1>6, OrphanedOK
  <2>3. MpvOK(mpv')
    BY <1>4, <1>6, StopOK DEF stop_unless_idle
  <2> QED BY <2>1, <2>2, <2>3 DEF PlayerOK
<1> QED BY <1>1, <1>2, <1>5, <1>6 DEF StartPlay

LEMMA StopKeepQueueOK ==
    ASSUME TypeOK, StopKeepQueue
    PROVE  /\ PlayerOK'
           /\ status' = "Stopped"
           /\ UNCHANGED <<queue_position, song>>
BY CancelOK, StopOK DEF TypeOK, StopKeepQueue, PlayerOK

(* Starting entry p of the new queue. *)
LEMMA InvByStartPlay ==
    ASSUME TypeOK, queue' \in Seq(Songs), NEW p \in 0..(Len(queue') - 1),
           NEW buffered, StartPlay(queue', p, buffered),
           repeat_mode' \in Modes, eof' \in 0..MaxEof
    PROVE  Inv'
<1>1. /\ queue_position' = p
      /\ song' = queue'[p + 1]
      /\ song' \in Songs
      /\ status' = "Playing"
      /\ PlayerOK'
  BY StartPlayOK
<1>2. p \in Nat /\ p < Len(queue')
  BY LenProperties
<1> QED BY <1>1, <1>2 DEF Inv, TypeOK, CursorOnSong, PlayerOK, None

(* Dropping the cursor. *)
LEMMA InvByNoCursor ==
    ASSUME TypeOK, queue' \in Seq(Songs), queue_position' = None,
           song' \in Songs \union {NoSong},
           status' \in {"Stopped", "Playing", "Paused"},
           repeat_mode' \in Modes, eof' \in 0..MaxEof, PlayerOK'
    PROVE  Inv'
BY DEF Inv, TypeOK, CursorOnSong, PlayerOK

(* Leaving the queue, the cursor and the song alone. *)
LEMMA InvByKeepCursor ==
    ASSUME Inv, UNCHANGED <<queue, queue_position, song>>,
           status' \in {"Stopped", "Playing", "Paused"},
           repeat_mode' \in Modes, eof' \in 0..MaxEof, PlayerOK'
    PROVE  Inv'
BY DEF Inv, TypeOK, CursorOnSong, PlayerOK

(* Remapping the cursor so that it stays on its entry. *)
LEMMA InvByMovedCursor ==
    ASSUME Inv, queue' \in Seq(Songs), UNCHANGED <<song, status, repeat_mode, eof>>,
           queue_position # None, queue_position' \in 0..(Len(queue') - 1),
           queue'[queue_position' + 1] = queue[queue_position + 1], PlayerOK'
    PROVE  Inv'
<1>1. queue_position' \in Nat /\ queue_position' < Len(queue')
  BY LenProperties
<1> QED BY <1>1 DEF Inv, TypeOK, CursorOnSong, PlayerOK

(***************************************************************************)
(* The actions, one lemma for each that does more than one of the above.   *)
(***************************************************************************)
LEMMA BatchIsSeq ==
    ASSUME NEW b, NEW kept \in Filtered(b)
    PROVE  kept \in Seq(Songs)
<1>1. kept \in Batches
  BY DEF Filtered
<1>2. PICK n \in 0..MaxBatch : kept \in [1..n -> Songs]
  BY <1>1 DEF Batches
<1>3. n \in Nat
  BY PlayQueueAssumption DEF PlayQueueAssumption
<1> QED BY <1>2, <1>3, SeqDef

LEMMA NextTypes ==
    ASSUME TypeOK, NEW mode \in Modes, queue_position # None
    PROVE  /\ next_auto(mode, queue_position, Len(queue)) \in Nat \union {None}
           /\ next_manual(mode, queue_position, Len(queue)) \in Nat \union {None}
<1>1. queue_position \in Nat /\ Len(queue) \in Nat
  BY LenProperties DEF TypeOK, None
<1>2. Len(queue) # 0 => (queue_position + 1) % Len(queue) \in Nat
  BY <1>1
<1>3. mode = "Off" \/ mode = "One" \/ mode = "All"
  BY DEF Modes
<1> QED BY <1>1, <1>2, <1>3 DEF next_auto, next_manual

LEMMA ExtendOrFinishInv ==
    ASSUME Inv, ExtendOrFinish, repeat_mode' = repeat_mode, eof' \in 0..MaxEof
    PROVE  Inv'
<1>1. TypeOK /\ repeat_mode' \in Modes
  BY DEF Inv, TypeOK
<1>2. CASE StopKeepQueue /\ UNCHANGED queue
  BY <1>1, <1>2, StopKeepQueueOK, InvByKeepCursor
<1>3. ASSUME NEW b \in Batches, NEW more \in Filtered(pick_unplayed_random(b)),
             more # <<>>, queue' = queue \o more,
             \/ StartPlay(queue', Len(queue), preferred_start_mode)
             \/ StopKeepQueue
      PROVE  Inv'
  <2>1. more \in Seq(Songs) /\ queue \in Seq(Songs)
    BY <1>1, BatchIsSeq DEF TypeOK
  <2>2. Len(more) \in Nat \ {0} /\ Len(queue) \in Nat
    BY <1>3, <2>1, EmptySeq, LenProperties
  <2>3. queue' \in Seq(Songs) /\ Len(queue') = Len(queue) + Len(more)
    BY <1>3, <2>1, ConcatProperties
  <2>4. CASE StartPlay(queue', Len(queue), preferred_start_mode)
    <3>1. Len(queue) \in 0..(Len(queue') - 1)
      BY <2>2, <2>3
    <3> QED BY <1>1, <2>3, <2>4, <3>1, InvByStartPlay
  <2>5. CASE StopKeepQueue
    <3>1. PlayerOK' /\ status' = "Stopped" /\ UNCHANGED <<queue_position, song>>
      BY <1>1, <2>5, StopKeepQueueOK
    <3>2. CASE queue_position = None
      BY <1>1, <2>3, <3>1, <3>2, InvByNoCursor DEF TypeOK
    <3>3. CASE queue_position # None
      <4>1. /\ queue_position + 1 \in 1..Len(queue)
            /\ queue_position < Len(queue')
            /\ song \in {NoSong, queue[queue_position + 1]}
        BY <2>2, <2>3, <3>3 DEF Inv, TypeOK, CursorOnSong, None
      <4>2. queue'[queue_position + 1] = queue[queue_position + 1]
        <5>1. \A i \in 1..(Len(queue) + Len(more)) : (queue \o more)[i] =
                 IF i <= Len(queue) THEN queue[i] ELSE more[i - Len(queue)]
          BY <2>1, ConcatProperties
        <5> QED BY <1>3, <2>2, <4>1, <5>1
      <4> QED BY <1>1, <2>3, <3>1, <4>1, <4>2 DEF Inv, TypeOK, CursorOnSong, PlayerOK
    <3> QED BY <3>2, <3>3
  <2> QED BY <1>3, <2>4, <2>5
<1> QED BY <1>2, <1>3 DEF ExtendOrFinish

LEMMA AdvanceToInv ==
    ASSUME Inv, NEW next \in Nat \union {None}, AdvanceTo(next), eof' \in 0..MaxEof
    PROVE  Inv'
<1>1. TypeOK /\ queue \in Seq(Songs) /\ repeat_mode' = repeat_mode /\ repeat_mode' \in Modes
  BY DEF Inv, TypeOK, AdvanceTo
<1>2. ASSUME next # None, next < Len(queue), StartPlay(queue, next, FALSE), UNCHANGED queue
      PROVE  Inv'
  <2>1. next \in 0..(Len(queue) - 1)
    BY <1>1, <1>2, LenProperties
  <2> QED BY <1>1, <1>2, <2>1, InvByStartPlay
<1>3. ASSUME UNCHANGED <<queue, cursorVars, mpv, prebuffer, orphans>>
      PROVE  Inv'
  BY <1>1, <1>3, InvByKeepCursor DEF TypeOK, PlayerOK, cursorVars
<1>4. ASSUME ExtendOrFinish
      PROVE  Inv'
  BY <1>1, <1>4, ExtendOrFinishInv
<1> QED BY <1>2, <1>3, <1>4 DEF AdvanceTo

LEMMA AdvanceAutoInv ==
    ASSUME Inv, advance_auto, eof' \in 0..MaxEof
    PROVE  Inv'
<1> DEFINE next == IF queue_position = None THEN 0
                   ELSE next_auto(repeat_mode, queue_position, Len(queue))
<1>1. TypeOK /\ repeat_mode \in Modes
  BY DEF Inv, TypeOK
<1>2. next \in Nat \union {None}
  BY <1>1, NextTypes
<1>3. AdvanceTo(next)
  BY DEF advance_auto
<1> QED BY <1>2, <1>3, AdvanceToInv

LEMMA NextTrackInv ==
    ASSUME Inv, next_track
    PROVE  Inv'
<1> DEFINE next == IF queue_position = None THEN 0
                   ELSE next_manual(repeat_mode, queue_position, Len(queue))
<1>1. TypeOK /\ repeat_mode \in Modes /\ eof \in 0..MaxEof
  BY DEF Inv, TypeOK
<1>2. next \in Nat \union {None}
  BY <1>1, NextTypes
<1>3. AdvanceTo(next) /\ eof' = eof
  BY DEF next_track
<1> QED BY <1>1, <1>2, <1>3, AdvanceToInv

LEMMA ReplaceInv ==
    ASSUME Inv, NEW b \in Batches, NEW p \in Positions \union {None},
           replace_queue_and_play(b, p)
    PROVE  Inv'
<1> DEFINE tracked == filter_for_playback_tracking_index(b, p)
           start == IF tracked = None /\ p # None THEN 0 ELSE tracked
<1>1. PICK kept \in Filtered(b) :
        /\ queue' = kept
        /\ \/ /\ start # None
              /\ start < Len(kept)
              /\ StartPlay(kept, start, preferred_start_mode)
           \/ /\ queue_position' = None
              /\ UNCHANGED <<song, status, mpv, prebuffer, orphans>>
        /\ UNCHANGED <<repeat_mode, eof>>
  BY DEF replace_queue_and_play
<1>2. TypeOK /\ queue' \in Seq(Songs) /\ repeat_mode' \in Modes /\ eof' \in 0..MaxEof
  BY <1>1, BatchIsSeq DEF Inv, TypeOK
<1>3. CASE /\ start # None
           /\ start < Len(kept)
           /\ StartPlay(kept, start, preferred_start_mode)
  <2>1. start \in Nat
    <3>1. PICK n \in 0..MaxBatch : b \in [1..n -> Songs]
      BY DEF Batches
    <3>2. CASE tracked = None
      BY <1>3, <3>2
    <3>3. CASE tracked # None
      <4>1. tracked = Cardinality({j \in 1..p : passes_filters(b[j])})
        BY <3>3 DEF filter_for_playback_tracking_index
      <4>2. p # None
        BY <3>3 DEF filter_for_playback_tracking_index
      <4>3. p \in Nat
        BY <4>2, PlayQueueAssumption DEF Positions, PlayQueueAssumption
      <4>4. IsFiniteSet({j \in 1..p : passes_filters(b[j])})
        <5>1. IsFiniteSet(1..p)
          BY <4>3, FS_Interval
        <5> QED BY <5>1, FS_Subset
      <4> QED BY <3>3, <4>1, <4>4, FS_CardinalityType
    <3> QED BY <3>2, <3>3
  <2> HIDE DEF start
  <2>2. start \in 0..(Len(queue') - 1)
    BY <1>1, <1>2, <1>3, <2>1, LenProperties
  <2> QED BY <1>1, <1>2, <1>3, <2>2, InvByStartPlay
<1>4. CASE /\ queue_position' = None
           /\ UNCHANGED <<song, status, mpv, prebuffer, orphans>>
  BY <1>2, <1>4, InvByNoCursor DEF TypeOK, PlayerOK
<1> QED BY <1>1, <1>3, <1>4

LEMMA ShuffleLibraryInv ==
    ASSUME Inv, NEW b \in Batches, shuffle_library(b)
    PROVE  Inv'
<1>1. PICK kept \in Filtered(b) :
        /\ kept # <<>>
        /\ queue' = kept
        /\ \/ StartPlay(kept, 0, preferred_start_mode)
           \/ /\ queue_position' = None
              /\ UNCHANGED <<song, status, mpv, prebuffer, orphans>>
        /\ UNCHANGED <<repeat_mode, eof>>
  BY DEF shuffle_library
<1>2. TypeOK /\ queue' \in Seq(Songs) /\ repeat_mode' \in Modes /\ eof' \in 0..MaxEof
  BY <1>1, BatchIsSeq DEF Inv, TypeOK
<1>3. CASE StartPlay(kept, 0, preferred_start_mode)
  <2>1. 0 \in 0..(Len(queue') - 1)
    BY <1>1, <1>2, EmptySeq
  <2> QED BY <1>1, <1>2, <1>3, <2>1, InvByStartPlay
<1>4. CASE /\ queue_position' = None
           /\ UNCHANGED <<song, status, mpv, prebuffer, orphans>>
  BY <1>2, <1>4, InvByNoCursor DEF TypeOK, PlayerOK
<1> QED BY <1>1, <1>3, <1>4

(* The remapped cursor of an insertion: one lemma serves both enqueues. *)
LEMMA InsertInv ==
    ASSUME Inv, NEW t \in Seq(Songs), NEW at \in 0..Len(queue),
           queue' = Splice(queue, at, t),
           queue_position' = cursor_after_insert(queue_position, at, Len(t)),
           UNCHANGED <<song, status, repeat_mode, eof>>, PlayerOK'
    PROVE  Inv'
<1>1. TypeOK /\ queue \in Seq(Songs)
  BY DEF Inv, TypeOK
<1>2. Len(t) \in Nat /\ Len(queue) \in Nat
  BY <1>1, LenProperties
<1>3. queue' \in Seq(Songs) /\ Len(queue') = Len(queue) + Len(t)
  BY <1>1, SpliceFacts
<1>4. CASE queue_position = None
  BY <1>1, <1>3, <1>4, InvByNoCursor DEF TypeOK, cursor_after_insert
<1>5. CASE queue_position # None
  <2>1. queue_position \in 0..(Len(queue) - 1)
    BY <1>2, <1>5 DEF Inv, TypeOK, CursorOnSong, None
  <2>2. queue_position' \in 0..(Len(queue') - 1)
    BY <1>2, <1>3, <1>5, <2>1 DEF cursor_after_insert
  <2>3. \A j \in 1..(Len(queue) + Len(t)) : queue'[j] =
            IF j <= at THEN queue[j]
            ELSE IF j <= at + Len(t) THEN t[j - at]
            ELSE queue[j - Len(t)]
    BY <1>1, SpliceFacts
  <2>4. queue'[queue_position' + 1] = queue[queue_position + 1]
    <3>1. CASE at <= queue_position
      <4>1. queue_position' = queue_position + Len(t)
        BY <1>5, <3>1 DEF cursor_after_insert
      <4>2. /\ queue_position' + 1 \in 1..(Len(queue) + Len(t))
            /\ ~(queue_position' + 1 <= at)
            /\ ~(queue_position' + 1 <= at + Len(t))
            /\ (queue_position' + 1) - Len(t) = queue_position + 1
        BY <1>2, <2>1, <3>1, <4>1
      <4> QED BY <2>3, <4>2
    <3>2. CASE ~(at <= queue_position)
      <4>1. queue_position' = queue_position
        BY <1>5, <3>2 DEF cursor_after_insert
      <4>2. /\ queue_position' + 1 \in 1..(Len(queue) + Len(t))
            /\ queue_position' + 1 <= at
        BY <1>2, <2>1, <3>2, <4>1
      <4> QED BY <2>3, <4>1, <4>2
    <3> QED BY <3>1, <3>2
  <2> QED BY <1>3, <1>5, <2>2, <2>4, InvByMovedCursor
<1> QED BY <1>4, <1>5

LEMMA EnqueueAppendInv ==
    ASSUME Inv, NEW b \in Batches, EnqueueAppend(b)
    PROVE  Inv'
<1>1. PICK kept \in Filtered(b) :
        /\ queue' = queue \o kept
        /\ mpv' = resync_gapless_preload(queue', queue_position,
                                         queue_position + 1 = Len(queue))
        /\ UNCHANGED <<cursorVars, repeat_mode, prebuffer, orphans, eof>>
  BY DEF EnqueueAppend
<1>2. /\ TypeOK /\ kept \in Seq(Songs) /\ queue \in Seq(Songs)
      /\ queue_position \in Nat \union {None}
  BY BatchIsSeq DEF Inv, TypeOK
<1>3. Len(queue) \in Nat /\ Len(kept) \in Nat
  BY <1>2, LenProperties
<1>4. queue' \in Seq(Songs) /\ Len(queue') = Len(queue) + Len(kept)
  BY <1>1, <1>2, ConcatProperties
<1>5. \A i \in 1..(Len(queue) + Len(kept)) : queue'[i] =
          IF i <= Len(queue) THEN queue[i] ELSE kept[i - Len(queue)]
  BY <1>1, <1>2, ConcatProperties
<1>6. PlayerOK'
  BY <1>1, <1>2, <1>4, ResyncOK DEF TypeOK, PlayerOK
<1>7. CASE queue_position = None
  BY <1>1, <1>2, <1>4, <1>6, <1>7, InvByNoCursor DEF TypeOK, cursorVars
<1>8. CASE queue_position # None
  <2>1. queue_position \in 0..(Len(queue) - 1)
    BY <1>2, <1>3, <1>8 DEF Inv, CursorOnSong, None
  <2>2. /\ queue_position' \in 0..(Len(queue') - 1)
        /\ queue'[queue_position' + 1] = queue[queue_position + 1]
    BY <1>1, <1>3, <1>4, <1>5, <2>1 DEF cursorVars
  <2> QED BY <1>1, <1>4, <1>6, <1>8, <2>2, InvByMovedCursor DEF cursorVars
<1> QED BY <1>7, <1>8

LEMMA EnqueueInsertAfterInv ==
    ASSUME Inv, NEW b \in Batches, NEW p \in Positions, EnqueueInsertAfter(p, b)
    PROVE  Inv'
<1> DEFINE at == IF p + 1 < Len(queue) THEN p + 1 ELSE Len(queue)
<1>1. PICK kept \in Filtered(b) :
        /\ queue' = SubSeq(queue, 1, at) \o kept \o SubSeq(queue, at + 1, Len(queue))
        /\ queue_position' = cursor_after_insert(queue_position, at, Len(kept))
        /\ mpv' = resync_gapless_preload(queue', queue_position',
                                         at = queue_position + 1)
        /\ UNCHANGED <<song, status, repeat_mode, prebuffer, orphans, eof>>
  BY DEF EnqueueInsertAfter
<1>2. /\ TypeOK /\ kept \in Seq(Songs) /\ queue \in Seq(Songs)
      /\ queue_position \in Nat \union {None}
  BY BatchIsSeq DEF Inv, TypeOK
<1>3. at \in 0..Len(queue) /\ Len(kept) \in Nat
  <2>1. p \in Nat
    BY PlayQueueAssumption DEF Positions, PlayQueueAssumption
  <2> QED BY <1>2, <2>1, LenProperties
<1> HIDE DEF at
<1>4. queue' = Splice(queue, at, kept)
  BY <1>1 DEF Splice
<1>5. queue' \in Seq(Songs)
  BY <1>2, <1>3, <1>4, SpliceFacts
<1>6. queue_position' \in Nat \union {None}
  BY <1>1, <1>2, <1>3 DEF cursor_after_insert
<1>7. PlayerOK'
  BY <1>1, <1>2, <1>5, <1>6, ResyncOK DEF TypeOK, PlayerOK
<1> QED BY <1>1, <1>2, <1>3, <1>4, <1>7, InsertInv

(* Removing an entry other than the cursor's: the cursor's entry stays     *)
(* under the cursor.                                                       *)
LEMMA RemoveInv ==
    ASSUME Inv, NEW p \in Positions, handle_remove_from_queue(p)
    PROVE  Inv'
<1>1. /\ TypeOK /\ queue \in Seq(Songs)
      /\ queue_position \in Nat \union {None}
      /\ repeat_mode' \in Modes /\ eof' \in 0..MaxEof
      /\ UNCHANGED <<repeat_mode, eof>>
  BY DEF Inv, TypeOK, handle_remove_from_queue
<1>2. p \in 0..(Len(queue) - 1) /\ Len(queue) \in Nat /\ p + 1 \in 1..Len(queue)
  <2>1. p \in Nat
    BY PlayQueueAssumption DEF Positions, PlayQueueAssumption
  <2> QED BY <1>1, <2>1, LenProperties DEF handle_remove_from_queue
<1>3. queue' = RemoveAt(queue, p + 1)
  BY DEF handle_remove_from_queue
<1>4. queue' \in Seq(Songs) /\ Len(queue') = Len(queue) - 1
  BY <1>1, <1>2, <1>3, RemoveAtFacts
<1>5. \A j \in 1..(Len(queue) - 1) :
         queue'[j] = IF j < p + 1 THEN queue[j] ELSE queue[j + 1]
  BY <1>1, <1>2, <1>3, RemoveAtFacts
<1>6. ASSUME p # queue_position,
             queue_position' = cursor_after_remove(queue_position, p),
             mpv' = resync_gapless_preload(queue', queue_position',
                       queue_position # None /\ p = queue_position + 1),
             UNCHANGED <<song, status, prebuffer, orphans>>
      PROVE  Inv'
  <2>1. CASE queue_position = None
    <3>1. queue_position' = None
      BY <1>6, <2>1 DEF cursor_after_remove
    <3>2. PlayerOK'
      BY <1>1, <1>4, <1>6, <3>1, ResyncOK DEF TypeOK, PlayerOK
    <3> QED BY <1>1, <1>4, <1>6, <3>1, <3>2, InvByNoCursor DEF TypeOK
  <2>2. CASE queue_position # None
    <3>1. queue_position \in 0..(Len(queue) - 1)
      BY <1>1, <1>2, <2>2 DEF Inv, CursorOnSong, None
    <3>2. CASE p > queue_position
      <4>1. queue_position' = queue_position
        BY <1>6, <3>2 DEF cursor_after_remove
      <4>2. queue_position' \in 0..(Len(queue') - 1) /\ queue_position' + 1 < p + 1
        BY <1>2, <1>4, <3>1, <3>2, <4>1
      <4>3. queue'[queue_position' + 1] = queue[queue_position + 1]
        BY <1>2, <1>5, <3>1, <4>1, <4>2
      <4>4. PlayerOK'
        BY <1>1, <1>4, <1>6, <4>1, ResyncOK DEF TypeOK, PlayerOK
      <4> QED BY <1>1, <1>4, <1>6, <2>2, <4>2, <4>3, <4>4, InvByMovedCursor
    <3>3. CASE p < queue_position
      <4>1. queue_position' = queue_position - 1
        BY <1>2, <1>6, <2>2, <3>1, <3>3 DEF cursor_after_remove
      <4>2. /\ queue_position' \in 0..(Len(queue') - 1)
            /\ queue_position' + 1 \in 1..(Len(queue) - 1)
            /\ ~(queue_position' + 1 < p + 1)
            /\ (queue_position' + 1) + 1 = queue_position + 1
        BY <1>2, <1>4, <3>1, <3>3, <4>1
      <4>3. queue'[queue_position' + 1] = queue[queue_position + 1]
        BY <1>5, <4>2
      <4>4. PlayerOK'
        <5>1. queue_position' \in Nat \union {None}
          BY <1>2, <4>2
        <5> QED BY <1>1, <1>4, <1>6, <5>1, ResyncOK DEF TypeOK, PlayerOK
      <4> QED BY <1>1, <1>4, <1>6, <2>2, <4>2, <4>3, <4>4, InvByMovedCursor
    <3> QED BY <1>2, <1>6, <3>1, <3>2, <3>3
  <2> QED BY <2>1, <2>2
<1>7. ASSUME p = queue_position, p < Len(queue'), StartPlay(queue', p, FALSE)
      PROVE  Inv'
  <2>1. p \in 0..(Len(queue') - 1)
    BY <1>2, <1>4, <1>7
  <2> QED BY <1>1, <1>4, <1>7, <2>1, InvByStartPlay
<1>8. ASSUME p = queue_position,
             queue_position' = cursor_after_remove(queue_position, p),
             song' \in Songs \union {NoSong},
             status' \in {"Stopped", "Playing", "Paused"},
             mpv' \in {mpv, mpv_stop(mpv)},
             UNCHANGED <<prebuffer, orphans>>
      PROVE  Inv'
  <2>1. queue_position' = None
    BY <1>2, <1>8 DEF cursor_after_remove, None
  <2>2. PlayerOK'
    BY <1>1, <1>8, StopOK DEF TypeOK, PlayerOK
  <2> QED BY <1>1, <1>4, <1>8, <2>1, <2>2, InvByNoCursor
<1> QED BY <1>1, <1>6, <1>7, <1>8 DEF handle_remove_from_queue, TypeOK

(* Moving an entry: wherever it goes from and to, the cursor follows its   *)
(* own entry.                                                              *)
LEMMA MoveInv ==
    ASSUME Inv, NEW from \in Positions, NEW to \in Positions,
           move_queue_item(from, to)
    PROVE  Inv'
<1> DEFINE r == RemoveAt(queue, from + 1)
           e == queue[from + 1]
           L == Len(queue)
           cur == queue_position
<1>1. /\ TypeOK /\ queue \in Seq(Songs)
      /\ queue_position \in Nat \union {None}
      /\ UNCHANGED <<song, status, repeat_mode, eof>>
      /\ queue' = InsertAt(r, to + 1, e)
      /\ queue_position' = cursor_after_move(cur, from, to)
      /\ PrebufferOK(prebuffer') /\ orphans' \subseteq Nat
  BY DEF Inv, TypeOK, move_queue_item
<1>2. /\ from \in 0..(L - 1) /\ to \in 0..(L - 1) /\ from # to
      /\ L \in Nat /\ from + 1 \in 1..L
  <2>1. from \in Nat /\ to \in Nat
    BY PlayQueueAssumption DEF Positions, PlayQueueAssumption
  <2> QED BY <1>1, <2>1, LenProperties DEF move_queue_item
<1>3. e \in Songs
  BY <1>1, <1>2, ElementOfSeq
<1>4. r \in Seq(Songs) /\ Len(r) = L - 1
  BY <1>1, <1>2, RemoveAtFacts
<1>5. \A j \in 1..(L - 1) : r[j] = IF j < from + 1 THEN queue[j] ELSE queue[j + 1]
  BY <1>1, <1>2, RemoveAtFacts
<1> HIDE DEF r, e
<1>6. to + 1 \in 1..(Len(r) + 1)
  BY <1>2, <1>4
<1>7. queue' \in Seq(Songs) /\ Len(queue') = Len(r) + 1
  BY <1>1, <1>3, <1>4, <1>6, InsertAtFacts
<1>8. \A j \in 1..(Len(r) + 1) : queue'[j] =
          IF j < to + 1 THEN r[j] ELSE IF j = to + 1 THEN e ELSE r[j - 1]
  <2> DEFINE i == to + 1
  <2>1. i \in 1..(Len(r) + 1) /\ queue' = InsertAt(r, i, e)
    BY <1>1, <1>6
  <2> HIDE DEF i
  <2>2. ASSUME NEW j \in 1..(Len(r) + 1)
        PROVE  queue'[j] = IF j < i THEN r[j] ELSE IF j = i THEN e ELSE r[j - 1]
    BY <1>3, <1>4, <2>1, InsertAtFacts
  <2> QED BY <2>2 DEF i
<1>9. Len(queue') = L
  BY <1>2, <1>4, <1>7
<1>10. queue_position' \in Nat \union {None}
  BY <1>1, <1>2 DEF cursor_after_move, None
<1>11. PlayerOK'
  <2>1. mpv' = resync_gapless_preload(queue', queue_position',
                                      next_maybe_changed(queue_position, from, to))
    BY DEF move_queue_item
  <2>2. next_maybe_changed(queue_position, from, to) \in BOOLEAN
    BY DEF next_maybe_changed
  <2> QED BY <1>1, <1>7, <1>10, <2>1, <2>2, ResyncOK DEF PlayerOK
<1>12. CASE cur = None
  <2>1. queue_position' = None
    BY <1>1, <1>2, <1>12 DEF cursor_after_move, None
  <2> QED BY <1>1, <1>7, <1>11, <2>1, InvByNoCursor DEF TypeOK
<1>13. CASE cur # None
  <2>1. cur \in 0..(L - 1)
    BY <1>1, <1>2, <1>13 DEF Inv, CursorOnSong, None
  <2>2. /\ queue_position' \in 0..(L - 1)
        /\ queue'[queue_position' + 1] = queue[cur + 1]
    <3>1. CASE cur = from
      <4>1. queue_position' = to
        BY <1>1, <3>1 DEF cursor_after_move
      <4>2. ~(to + 1 < to + 1)
        BY <1>2
      <4>3. queue'[to + 1] = e
        BY <1>6, <1>8, <4>2
      <4>4. queue'[to + 1] = queue[cur + 1]
        BY <3>1, <4>3 DEF e
      <4> QED BY <1>2, <4>1, <4>4
    <3>2. CASE from < cur /\ to >= cur
      <4>1. queue_position' = cur - 1
        BY <1>1, <1>2, <1>13, <3>2 DEF cursor_after_move
      <4>2. /\ cur \in 1..(L - 1)
            /\ cur < to + 1
            /\ ~(cur < from + 1)
        BY <1>2, <2>1, <3>2
      <4>3. queue'[cur] = r[cur]
        <5>1. cur \in 1..(Len(r) + 1)
          BY <1>2, <1>4, <4>2
        <5> QED BY <1>8, <4>2, <5>1
      <4>4. r[cur] = queue[cur + 1]
        BY <1>5, <4>2
      <4> QED BY <2>1, <4>1, <4>2, <4>3, <4>4
    <3>3. CASE from > cur /\ to <= cur
      <4>1. queue_position' = cur + 1
        BY <1>1, <1>2, <1>13, <3>3 DEF cursor_after_move
      <4>2. /\ cur + 2 \in 1..L /\ (cur + 2) - 1 = cur + 1
            /\ cur + 1 \in 1..(L - 1) /\ cur + 1 < from + 1
            /\ ~(cur + 2 < to + 1) /\ cur + 2 # to + 1
        BY <1>2, <2>1, <3>3
      <4>3. queue'[cur + 2] = r[cur + 1] /\ r[cur + 1] = queue[cur + 1]
        BY <1>2, <1>4, <1>5, <1>8, <4>2
      <4>4. queue_position' + 1 = cur + 2 /\ queue_position' \in 0..(L - 1)
        BY <1>2, <2>1, <4>1, <4>2
      <4> QED BY <4>3, <4>4
    <3>4. CASE from < cur /\ ~(to >= cur)
      <4>1. queue_position' = cur
        BY <1>1, <1>2, <1>13, <2>1, <3>4 DEF cursor_after_move
      <4>2. /\ cur + 1 \in 1..L /\ (cur + 1) - 1 = cur
            /\ cur \in 1..(L - 1)
            /\ ~(cur + 1 < to + 1) /\ cur + 1 # to + 1
            /\ ~(cur < from + 1)
        BY <1>2, <2>1, <3>4
      <4>3. queue'[cur + 1] = r[cur] /\ r[cur] = queue[cur + 1]
        BY <1>2, <1>4, <1>5, <1>8, <4>2
      <4> QED BY <2>1, <4>1, <4>3
    <3>5. CASE from > cur /\ ~(to <= cur)
      <4>1. queue_position' = cur
        BY <1>1, <1>2, <1>13, <2>1, <3>5 DEF cursor_after_move
      <4>2. /\ cur + 1 \in 1..(L - 1) /\ cur + 1 \in 1..L
            /\ cur + 1 < to + 1 /\ cur + 1 < from + 1
        BY <1>2, <2>1, <3>5
      <4>3. queue'[cur + 1] = r[cur + 1] /\ r[cur + 1] = queue[cur + 1]
        BY <1>2, <1>4, <1>5, <1>8, <4>2
      <4> QED BY <2>1, <4>1, <4>3
    <3> QED BY <1>2, <2>1, <3>1, <3>2, <3>3, <3>4, <3>5
  <2> QED BY <1>1, <1>7, <1>9, <1>11, <1>13, <2>2, InvByMovedCursor
<1> QED BY <1>12, <1>13

LEMMA ClearHistoryInv ==
    ASSUME Inv, clear_queue_history
    PROVE  Inv'
<1>1. TypeOK /\ queue \in Seq(Songs) /\ Len(queue) \in Nat
  BY LenProperties DEF Inv, TypeOK
<1>2. queue_position \in 0..(Len(queue) - 1) /\ queue_position # None
  BY <1>1 DEF clear_queue_history, Inv, TypeOK, CursorOnSong, None
<1>3. \A i \in (queue_position + 1)..Len(queue) : queue[i] \in Songs
  BY <1>1, <1>2, ElementOfSeq
<1> DEFINE m == queue_position + 1
           n == Len(queue)
<1>4. m \in Int /\ n \in Int /\ m <= n /\ n - m + 1 >= 1 /\ m + 1 - 1 = queue_position + 1
  BY <1>1, <1>2
<1>5. queue' = SubSeq(queue, m, n) /\ queue_position' = 0
  BY DEF clear_queue_history
<1> HIDE DEF m, n
<1>6. \A i \in m..n : queue[i] \in Songs
  BY <1>3 DEF m, n
<1>7. queue' \in Seq(Songs) /\ Len(queue') = n - m + 1
  BY <1>4, <1>5, <1>6, SubSeqProperties
<1>8. \A i \in 1..(n - m + 1) : queue'[i] = queue[m + i - 1]
  BY <1>4, <1>5, <1>6, SubSeqProperties
<1>9. queue'[queue_position' + 1] = queue[queue_position + 1]
  BY <1>4, <1>5, <1>8
<1>10. queue_position' \in 0..(Len(queue') - 1)
  BY <1>4, <1>5, <1>7
<1>11. PlayerOK'
  BY <1>1 DEF TypeOK, PlayerOK, clear_queue_history
<1> QED BY <1>2, <1>7, <1>9, <1>10, <1>11, InvByMovedCursor DEF clear_queue_history

LEMMA ShuffleQueueInv ==
    ASSUME Inv, shuffle_queue
    PROVE  Inv'
<1>1. /\ TypeOK /\ queue \in Seq(Songs) /\ Len(queue) \in Nat
      /\ DOMAIN queue = 1..Len(queue)
  BY LenProperties DEF Inv, TypeOK
<1>2. PICK p \in Bijection(DOMAIN queue, DOMAIN queue) :
        /\ queue_position # None => p[queue_position + 1] = queue_position + 1
        /\ queue' = [i \in DOMAIN queue |-> queue[p[i]]]
  BY DEF shuffle_queue
<1>3. p \in [DOMAIN queue -> DOMAIN queue]
  BY DEF Bijection, Injection, Surjection
<1>4. queue' \in [1..Len(queue) -> Songs]
  BY <1>1, <1>2, <1>3, ElementOfSeq
<1>5. queue' \in Seq(Songs) /\ Len(queue') = Len(queue)
  BY <1>1, <1>4, SeqDef, LenProperties
<1>6. PlayerOK'
  BY <1>1, <1>5, ResyncOK DEF TypeOK, PlayerOK, shuffle_queue
<1>7. CASE queue_position = None
  BY <1>1, <1>5, <1>6, <1>7, InvByNoCursor DEF TypeOK, shuffle_queue, cursorVars
<1>8. CASE queue_position # None
  <2>1. queue_position \in 0..(Len(queue) - 1)
    BY <1>1, <1>8 DEF Inv, TypeOK, CursorOnSong, None
  <2>2. queue_position + 1 \in DOMAIN queue
    BY <1>1, <2>1
  <2>3. queue'[queue_position + 1] = queue[queue_position + 1]
    BY <1>2, <1>8, <2>2
  <2>4. UNCHANGED <<queue_position, song, status, repeat_mode, eof>>
    BY DEF shuffle_queue, cursorVars
  <2> QED BY <1>5, <1>6, <1>8, <2>1, <2>3, <2>4, InvByMovedCursor
<1> QED BY <1>7, <1>8

(* A gapless advance commits the entry it moved the cursor to.             *)
LEMMA GaplessInv ==
    ASSUME Inv, try_gapless_advance
    PROVE  Inv'
<1> DEFINE next == gapless_target
<1>1. /\ TypeOK /\ queue \in Seq(Songs) /\ Len(queue) \in Nat /\ MpvOK(mpv)
      /\ repeat_mode \in Modes /\ queue_position # None
      /\ next # None /\ next < Len(queue)
  BY LenProperties DEF Inv, TypeOK, try_gapless_advance
<1>2. next \in 0..(Len(queue) - 1) /\ next + 1 \in 1..Len(queue)
  <2>1. next \in Nat \union {None}
    BY <1>1, NextTypes DEF gapless_target
  <2> QED BY <1>1, <2>1
<1>3. queue[next + 1] \in Songs
  BY <1>1, <1>2, ElementOfSeq
<1>4. MpvOK(mpv')
  <2>1. 0 < Len(mpv.list)
    BY <1>1 DEF try_gapless_advance, MpvOK
  <2>2. MpvOK(playlist_remove(mpv, 0))
    BY <1>1, <2>1, RemoveEntryOK
  <2> HIDE DEF next
  <2>3. mpv' = preload_next_track(playlist_remove(mpv, 0), queue, repeat_mode, next)
    BY DEF try_gapless_advance, next
  <2> QED BY <1>1, <1>2, <2>2, <2>3, PreloadOK
<1> QED BY <1>1, <1>2, <1>3, <1>4 DEF Inv, TypeOK, CursorOnSong, try_gapless_advance

(***************************************************************************)
(* The theorems.                                                           *)
(***************************************************************************)
LEMMA InitInv == Init => Inv
<1> SUFFICES ASSUME Init PROVE Inv
  OBVIOUS
<1>1. queue \in Seq(Songs)
  <2>1. PICK n \in 0..MaxLen : queue \in [1..n -> Songs]
    BY DEF Init
  <2>2. n \in Nat
    BY PlayQueueAssumption DEF PlayQueueAssumption
  <2> QED BY <2>1, <2>2, SeqDef
<1>2. Len(queue) \in Nat
  BY <1>1, LenProperties
<1>3. /\ song \in Songs \union {NoSong}
      /\ status \in {"Stopped", "Playing", "Paused"}
      /\ queue_position \in Nat \union {None}
      /\ CursorOnSong
  <2>1. CASE queue_position = None /\ song = NoSong /\ status = "Stopped"
    BY <2>1 DEF CursorOnSong
  <2>2. CASE /\ queue_position \in 0..(Len(queue) - 1)
             /\ \/ song = queue[queue_position + 1] /\ status = "Paused"
                \/ song = NoSong /\ status = "Stopped"
    <3>1. queue_position + 1 \in 1..Len(queue) /\ queue_position < Len(queue)
      BY <1>2, <2>2
    <3>2. queue[queue_position + 1] \in Songs
      BY <1>1, <3>1, ElementOfSeq
    <3> QED BY <1>2, <2>2, <3>1, <3>2 DEF CursorOnSong
  <2> QED BY <2>1, <2>2 DEF Init
<1>4. repeat_mode \in Modes /\ eof \in 0..MaxEof
  BY PlayQueueAssumption DEF Init, PlayQueueAssumption
<1>5. PlayerOK
  BY EmptySeq DEF Init, PlayerOK, MpvOK, PrebufferOK, IdleMpv, None
<1> QED BY <1>1, <1>3, <1>4, <1>5 DEF Inv, TypeOK, PlayerOK

(* mpv on its own, and what only reaches its playlist. *)
LEMMA PlayerOnlyInv ==
    ASSUME Inv,
           \/ \E mode \in UsedModes : set_repeat_mode(mode)
           \/ \E reason \in {"eof", "error"} : TrackEnds(reason)
           \/ MpvDies \/ MpvRespawns
           \/ TickPreload
           \/ PrebufferLoad \/ fallback_direct_if_current \/ PrebufferPreload
    PROVE  Inv'
<1>1. /\ TypeOK /\ queue \in Seq(Songs) /\ MpvOK(mpv) /\ PrebufferOK(prebuffer)
      /\ orphans \subseteq Nat /\ repeat_mode \in Modes /\ eof \in 0..MaxEof
      /\ status \in {"Stopped", "Playing", "Paused"}
      /\ queue_position \in Nat \union {None}
  BY DEF Inv, TypeOK
<1>2. ASSUME UNCHANGED <<queue, cursorVars>>, repeat_mode' \in Modes,
             eof' \in 0..MaxEof, MpvOK(mpv'), PrebufferOK(prebuffer'),
             orphans' \subseteq Nat
      PROVE  Inv'
  BY <1>1, <1>2, InvByKeepCursor DEF cursorVars, PlayerOK
<1>3. ASSUME NEW mode \in UsedModes, set_repeat_mode(mode) PROVE Inv'
  <2>1. mode \in Modes
    BY PlayQueueAssumption DEF PlayQueueAssumption
  <2>2. MpvOK(mpv')
    BY <1>1, <1>3, <2>1, DropOK, PreloadOK DEF set_repeat_mode
  <2> QED BY <1>1, <1>2, <1>3, <2>1, <2>2 DEF set_repeat_mode
<1>4. ASSUME NEW reason \in {"eof", "error"}, TrackEnds(reason) PROVE Inv'
  <2>1. MpvOK(mpv')
    BY <1>1, <1>4 DEF TrackEnds, mpv_file_ends, MpvOK, None
  <2>2. eof' \in 0..MaxEof
    BY <1>1, <1>4, PlayQueueAssumption DEF TrackEnds, PlayQueueAssumption
  <2> QED BY <1>1, <1>2, <1>4, <2>1, <2>2 DEF TrackEnds
<1>5. ASSUME MpvDies \/ MpvRespawns PROVE Inv'
  <2>1. MpvOK(mpv')
    <3>1. MpvOK(DeadMpv)
      BY EmptySeq DEF MpvOK, DeadMpv, None
    <3>2. MpvOK(IdleMpv)
      BY EmptySeq DEF MpvOK, IdleMpv, None
    <3> QED BY <1>5, <3>1, <3>2 DEF MpvDies, MpvRespawns
  <2> QED BY <1>1, <1>2, <1>5, <2>1 DEF MpvDies, MpvRespawns
<1>6. ASSUME TickPreload PROVE Inv'
  <2>1. MpvOK(mpv')
    BY <1>1, <1>6, PreloadOK DEF TickPreload
  <2> QED BY <1>1, <1>2, <1>6, <2>1 DEF TickPreload
<1>7. ASSUME PrebufferLoad \/ fallback_direct_if_current PROVE Inv'
  <2>1. prebuffer.phase = "download"
    BY <1>7 DEF PrebufferLoad, fallback_direct_if_current
  <2>2. prebuffer \in [phase : {"download", "settle"}, song : Songs, pos : Nat]
    BY <1>1, <2>1 DEF PrebufferOK, NoPrebuffer
  <2>3. MpvOK(mpv')
    BY <1>1, <1>7, <2>2, LoadfileOK DEF PrebufferLoad, fallback_direct_if_current
  <2>4. PrebufferOK(prebuffer')
    BY <1>7, <2>2 DEF PrebufferLoad, fallback_direct_if_current, PrebufferOK
  <2> QED BY <1>1, <1>2, <1>7, <2>3, <2>4 DEF PrebufferLoad, fallback_direct_if_current
<1>8. ASSUME PrebufferPreload PROVE Inv'
  <2>1. MpvOK(mpv') /\ PrebufferOK(prebuffer') /\ orphans' \subseteq Nat
    <3>1. CASE /\ prebuffer.phase = "settle"
               /\ mpv' = preload_next_track(mpv, queue, repeat_mode, prebuffer.pos)
               /\ prebuffer' = NoPrebuffer
               /\ UNCHANGED orphans
      <4>1. prebuffer.pos \in Nat
        BY <1>1, <3>1 DEF PrebufferOK, NoPrebuffer
      <4> QED BY <1>1, <3>1, <4>1, PreloadOK DEF PrebufferOK
    <3>2. ASSUME NEW p \in orphans,
                 mpv' = preload_next_track(mpv, queue, repeat_mode, p),
                 orphans' = orphans \ {p}, UNCHANGED prebuffer
          PROVE  MpvOK(mpv') /\ PrebufferOK(prebuffer') /\ orphans' \subseteq Nat
      <4>1. p \in Nat
        BY <1>1
      <4> QED BY <1>1, <3>2, <4>1, PreloadOK
    <3> QED BY <1>8, <3>1, <3>2 DEF PrebufferPreload
  <2> QED BY <1>1, <1>2, <1>8, <2>1 DEF PrebufferPreload
<1> QED BY <1>3, <1>4, <1>5, <1>6, <1>7, <1>8

LEMMA NextInv ==
    ASSUME Inv, [Next]_vars
    PROVE  Inv'
<1>1. /\ TypeOK /\ queue \in Seq(Songs) /\ Len(queue) \in Nat
      /\ repeat_mode \in Modes /\ eof \in 0..MaxEof
      /\ queue_position \in Nat \union {None} /\ PlayerOK
  BY LenProperties DEF Inv, TypeOK, PlayerOK
<1>2. ASSUME NEW p, p \in Nat, p < Len(queue), StartPlay(queue, p, FALSE),
             UNCHANGED <<queue, repeat_mode, eof>>
      PROVE  Inv'
  <2>1. p \in 0..(Len(queue) - 1)
    BY <1>1, <1>2
  <2> QED BY <1>1, <1>2, <2>1, InvByStartPlay
<1>3. ASSUME NEW p \in Positions, play_queue_position(p) PROVE Inv'
  <2>1. p \in Nat
    BY PlayQueueAssumption DEF PlayQueueAssumption, Positions
  <2> QED BY <1>2, <1>3, <2>1 DEF play_queue_position
<1>4. ASSUME NEW early \in BOOLEAN, prev_track(early) PROVE Inv'
  <2> DEFINE back == IF queue_position > 0 THEN queue_position - 1
                     ELSE prev_wrap(repeat_mode, Len(queue))
  <2>1. back \in Nat
    BY <1>1, <1>4 DEF prev_track, prev_wrap, None
  <2> QED BY <1>2, <1>4, <2>1 DEF prev_track
<1>5. ASSUME resume_playback PROVE Inv'
  BY <1>1, <1>2, <1>5 DEF resume_playback, None
<1>6. ASSUME pause_playback PROVE Inv'
  <2>1. PlayerOK'
    BY <1>1, <1>6, CancelOK, StopOK DEF pause_playback, PlayerOK
  <2> QED BY <1>1, <1>6, <2>1, InvByKeepCursor DEF pause_playback, TypeOK
<1>7. ASSUME stop_keep_queue PROVE Inv'
  BY <1>1, <1>7, StopKeepQueueOK, InvByKeepCursor DEF stop_keep_queue
<1>8. ASSUME stop_playback PROVE Inv'
  <2>1. PlayerOK'
    BY <1>1, <1>8, CancelOK, StopOK DEF stop_playback, PlayerOK
  <2>2. queue' \in Seq(Songs)
    BY <1>8, EmptySeq DEF stop_playback
  <2> QED BY <1>1, <1>8, <2>1, <2>2, InvByNoCursor DEF stop_playback
<1>9. ASSUME ListenerEof PROVE Inv'
  <2>1. eof' \in 0..MaxEof
    BY <1>1, <1>9, PlayQueueAssumption DEF ListenerEof, PlayQueueAssumption
  <2>2. CASE advance_auto
    BY <2>1, <2>2, AdvanceAutoInv
  <2>3. CASE UNCHANGED <<queue, cursorVars, repeat_mode, mpv, prebuffer, orphans>>
    BY <1>1, <2>1, <2>3, InvByKeepCursor DEF cursorVars, PlayerOK, TypeOK
  <2> QED BY <1>9, <2>2, <2>3 DEF ListenerEof
<1>10. ASSUME TickAdvanceEarly \/ TickAdvanceOnIdle PROVE Inv'
  BY <1>1, <1>10, AdvanceAutoInv DEF TickAdvanceEarly, TickAdvanceOnIdle
<1>11. CASE UNCHANGED vars
  BY <1>11 DEF vars, cursorVars, Inv, TypeOK, CursorOnSong
<1>12. CASE Next
  BY <1>3, <1>4, <1>5, <1>6, <1>7, <1>8, <1>9, <1>10, <1>12, NextTrackInv,
     ReplaceInv, ShuffleLibraryInv, EnqueueAppendInv, EnqueueInsertAfterInv,
     RemoveInv, MoveInv, ClearHistoryInv, ShuffleQueueInv, GaplessInv,
     PlayerOnlyInv
     DEF Next
<1> QED BY <1>11, <1>12

(* Every reachable state is well typed; in particular mpv never holds more *)
(* than the playing entry and one preload, whatever calls preload next     *)
(* (preload_next_track, playback_ops.rs).                                  *)
THEOREM TypeCorrect == Spec => []TypeOK
<1>1. Inv => TypeOK
  BY DEF Inv
<1> QED BY <1>1, InitInv, NextInv, PTL DEF Spec

(* No sequence of edits, skips, advances and mpv events leaves the cursor  *)
(* outside the queue or on an entry other than the song the daemon shows   *)
(* (the remapping of queue_position in ipc/client.rs and queue_ops.rs).    *)
THEOREM CursorCorrect == Spec => []CursorOnSong
<1>1. Inv => CursorOnSong
  BY DEF Inv
<1> QED BY <1>1, InitInv, NextInv, PTL DEF Spec

(***************************************************************************)
(* While songs are streamed: what is preloaded is what comes next, and     *)
(* nothing is loaded unless the daemon shows Playing.                      *)
(***************************************************************************)
(* mpv's second entry is the one next_auto reaches from cur in q.          *)
IsNext(m, q, mode, cur) ==
    Len(m.list) = 2 /\ ~(mode = "All" /\ cur + 1 = Len(q)) =>
        /\ next_auto(mode, cur, Len(q)) # None
        /\ m.list[2] = q[next_auto(mode, cur, Len(q)) + 1]

Unloaded == status # "Playing" => mpv.list = <<>>

NextIsPreloaded ==
    status = "Playing" /\ queue_position # None =>
        IsNext(mpv, queue, repeat_mode, queue_position)

NothingBuffered == prebuffer = NoPrebuffer /\ orphans = {}

Streamed == Unloaded /\ NextIsPreloaded /\ NothingBuffered /\ repeat_mode \in UsedModes

LEMMA PreloadIsNext ==
    ASSUME NEW m, MpvOK(m), Len(m.list) # 2, NEW q \in Seq(Songs), NEW mode, NEW cur
    PROVE  IsNext(preload_next_track(m, q, mode, cur), q, mode, cur)
<1> DEFINE next == next_auto(mode, cur, Len(q))
<1>1. CASE m.alive /\ Len(m.list) = 1 /\ next # None /\ next < Len(q)
  <2>1. m.list \in Seq(Songs) /\ DOMAIN m = {"alive", "list", "pos"}
    BY DEF MpvOK
  <2>2. Append(m.list, q[next + 1])[2] = q[next + 1]
    BY <1>1, <2>1, AppendProperties
  <2>3. preload_next_track(m, q, mode, cur).list = Append(m.list, q[next + 1])
    BY <1>1, <2>1 DEF preload_next_track, loadfile_append
  <2> HIDE DEF next
  <2> QED BY <1>1, <2>2, <2>3 DEF IsNext, next
<1>2. CASE ~(m.alive /\ Len(m.list) = 1 /\ next # None /\ next < Len(q))
  BY <1>2 DEF preload_next_track, IsNext
<1> QED BY <1>1, <1>2

(* Preloading only ever appends: neither the playing slot nor the file in  *)
(* it changes.                                                             *)
LEMMA PreloadKeepsFirst ==
    ASSUME NEW m, MpvOK(m), NEW q \in Seq(Songs), NEW mode, NEW cur
    PROVE  /\ preload_next_track(m, q, mode, cur).pos = m.pos
           /\ m.list = <<>> => preload_next_track(m, q, mode, cur) = m
           /\ m.list # <<>> => preload_next_track(m, q, mode, cur).list[1] = m.list[1]
<1> DEFINE next == next_auto(mode, cur, Len(q))
<1>1. m.list \in Seq(Songs) /\ DOMAIN m = {"alive", "list", "pos"}
  BY DEF MpvOK
<1>2. CASE m.alive /\ Len(m.list) = 1 /\ next # None /\ next < Len(q)
  <2>1. Append(m.list, q[next + 1])[1] = m.list[1]
    BY <1>1, <1>2, AppendProperties
  <2>2. /\ preload_next_track(m, q, mode, cur).list = Append(m.list, q[next + 1])
        /\ preload_next_track(m, q, mode, cur).pos = m.pos
    BY <1>1, <1>2 DEF preload_next_track, loadfile_append
  <2>3. m.list # <<>>
    <3>1. Len(<<>>) = 0 /\ Len(m.list) = 1
      BY <1>2, EmptySeq
    <3> QED BY <3>1
  <2> QED BY <2>1, <2>2, <2>3
<1>3. CASE ~(m.alive /\ Len(m.list) = 1 /\ next # None /\ next < Len(q))
  BY <1>3 DEF preload_next_track
<1> QED BY <1>2, <1>3

LEMMA DropKeepsFirst ==
    ASSUME NEW m, MpvOK(m)
    PROVE  /\ Len(drop_preload(m).list) # 2
           /\ drop_preload(m).pos = 0 => m.pos = 0
           /\ m.list = <<>> => drop_preload(m) = m
           /\ m.list # <<>> => drop_preload(m).list # <<>> /\ drop_preload(m).list[1] = m.list[1]
<1>1. m.list \in Seq(Songs) /\ Len(m.list) \in Nat /\ Len(m.list) <= 2
      /\ m.pos \in {None, 0, 1}
  <2>1. m.list \in Seq(Songs) /\ Len(m.list) <= 2 /\ m.pos \in {None, 0, 1}
    BY DEF MpvOK
  <2> QED BY <2>1, LenProperties
<1>2. CASE Len(m.list) = 2
  <2>1. /\ RemoveAt(m.list, 2) \in Seq(Songs) /\ Len(RemoveAt(m.list, 2)) = 1
        /\ RemoveAt(m.list, 2)[1] = m.list[1]
    <3> DEFINE i == 2
    <3>1. i \in 1..Len(m.list) /\ 1 \in 1..(Len(m.list) - 1) /\ 1 < i /\ Len(m.list) - 1 = 1
      BY <1>2
    <3> HIDE DEF i
    <3>2. /\ RemoveAt(m.list, i) \in Seq(Songs) /\ Len(RemoveAt(m.list, i)) = 1
          /\ RemoveAt(m.list, i)[1] = m.list[1]
      BY <1>1, <3>1, RemoveAtFacts
    <3> QED BY <3>2 DEF i
  <2>2. drop_preload(m).list = RemoveAt(m.list, 2)
    BY <1>2 DEF drop_preload, playlist_remove
  <2>3. drop_preload(m).pos = 0 => m.pos = 0
    BY <1>1, <1>2 DEF drop_preload, playlist_remove, None
  <2>4. m.list # <<>> /\ drop_preload(m).list # <<>>
    BY <1>2, <2>1, <2>2, EmptySeq
  <2> QED BY <2>1, <2>2, <2>3, <2>4
<1>3. CASE Len(m.list) # 2
  <2>1. ~(Len(m.list) > 1)
    <3>1. \A n \in Nat : n <= 2 /\ n # 2 => ~(n > 1)
      OBVIOUS
    <3> QED BY <1>1, <1>3, <3>1
  <2>2. drop_preload(m) = m
    BY <2>1 DEF drop_preload
  <2> QED BY <1>3, <2>2
<1> QED BY <1>2, <1>3

(* After a resync the preload is the next song.                            *)
LEMMA ResyncIsNext ==
    ASSUME TypeOK, NEW q \in Seq(Songs), NEW cur, cur # None, status = "Playing"
    PROVE  IsNext(resync_gapless_preload(q, cur, TRUE), q, repeat_mode, cur)
<1>1. MpvOK(drop_preload(mpv)) /\ Len(drop_preload(mpv).list) # 2
  BY DropOK, DropKeepsFirst DEF TypeOK
<1> QED BY <1>1, PreloadIsNext DEF resync_gapless_preload

(* A resync does not touch what plays first, unless it removes it.         *)
LEMMA ResyncKeepsFirst ==
    ASSUME TypeOK, NEW q \in Seq(Songs), NEW cur, NEW needed
    PROVE  /\ mpv.list = <<>> => resync_gapless_preload(q, cur, needed) = mpv
           /\ resync_gapless_preload(q, cur, needed).pos = 0 =>
                /\ mpv.pos = 0
                /\ resync_gapless_preload(q, cur, needed).list[1] = mpv.list[1]
<1>1. MpvOK(mpv) /\ MpvOK(drop_preload(mpv))
  BY DropOK DEF TypeOK
<1>2. mpv.pos = 0 => mpv.list # <<>>
  BY <1>1, EmptySeq DEF MpvOK
<1> QED BY <1>1, <1>2, DropKeepsFirst, PreloadKeepsFirst DEF resync_gapless_preload

(* An edit that keeps the cursor's entry and the one after it keeps the    *)
(* preload right without a resync.                                         *)
LEMMA NextStays ==
    ASSUME NEW m, NEW q \in Seq(Songs), NEW r \in Seq(Songs), NEW mode \in Modes,
           NEW cur \in 0..(Len(q) - 1), NEW to \in 0..(Len(r) - 1),
           r[to + 1] = q[cur + 1],
           cur + 1 < Len(q) => to + 1 < Len(r) /\ r[to + 2] = q[cur + 2],
           cur + 1 = Len(q) => to + 1 = Len(r),
           IsNext(m, q, mode, cur)
    PROVE  IsNext(m, r, mode, to)
<1>1. Len(q) \in Nat \ {0} /\ Len(r) \in Nat \ {0}
  BY LenProperties
<1>2. CASE Len(m.list) # 2 \/ (mode = "All" /\ to + 1 = Len(r))
  BY <1>2 DEF IsNext
<1>3. CASE Len(m.list) = 2 /\ ~(mode = "All" /\ to + 1 = Len(r))
  <2>1. ~(mode = "All" /\ cur + 1 = Len(q))
    BY <1>3
  <2>2. /\ next_auto(mode, cur, Len(q)) # None
        /\ m.list[2] = q[next_auto(mode, cur, Len(q)) + 1]
    BY <1>3, <2>1 DEF IsNext
  <2>3. CASE mode = "One"
    <3>1. next_auto(mode, cur, Len(q)) = cur /\ next_auto(mode, to, Len(r)) = to
      BY <1>1, <2>3 DEF next_auto
    <3> QED BY <2>2, <3>1 DEF IsNext, None
  <2>4. CASE mode # "One"
    <3>1. cur + 1 < Len(q)
      <4>1. CASE mode = "All"
        BY <1>1, <2>1, <4>1
      <4>2. CASE mode = "Off"
        BY <1>1, <2>2, <4>2 DEF next_auto
      <4> QED BY <2>4, <4>1, <4>2 DEF Modes
    <3>2. to + 1 < Len(r) /\ r[to + 2] = q[cur + 2]
      BY <3>1
    <3>3. ASSUME NEW len \in Nat \ {0}, NEW k \in Nat, k + 1 < len
          PROVE  next_auto(mode, k, len) = k + 1
      <4>1. (k + 1) % len = k + 1
        BY <3>3
      <4> QED BY <2>4, <3>3, <4>1 DEF next_auto, Modes
    <3>4. next_auto(mode, cur, Len(q)) = cur + 1 /\ next_auto(mode, to, Len(r)) = to + 1
      BY <1>1, <3>1, <3>2, <3>3
    <3>5. cur + 1 + 1 = cur + 2 /\ to + 1 + 1 = to + 2 /\ to + 1 # None
      BY DEF None
    <3> QED BY <2>2, <3>2, <3>4, <3>5 DEF IsNext
  <2> QED BY <2>3, <2>4
<1> QED BY <1>2, <1>3

(* What mpv plays first is the song shown, except that with repeat All the *)
(* preload at the wrap may be stale when mpv advances into it.             *)
OnAir == Streamed /\ ("All" \notin UsedModes => AudibleIsShown)

LEMMA LoadedIsOnAir ==
    ASSUME Inv, Streamed, queue' \in Seq(Songs), NEW p \in 0..(Len(queue') - 1),
           mpv' = preload_next_track(loadfile(mpv, queue'[p + 1]), queue', repeat_mode, p),
           queue_position' = p, song' = queue'[p + 1], status' = "Playing",
           NothingBuffered', repeat_mode' = repeat_mode
    PROVE  OnAir'
<1> DEFINE s == queue'[p + 1]
           m == loadfile(mpv, s)
<1>1. MpvOK(mpv) /\ s \in Songs
  <2>1. p + 1 \in 1..Len(queue')
    BY LenProperties
  <2> QED BY <2>1, ElementOfSeq DEF Inv, TypeOK
<1>2. MpvOK(m)
  BY <1>1, LoadfileOK
<1>3. \/ m.list = <<s>>
      \/ m.list = <<>> /\ m.pos = None
  <2>1. mpv.list # <<>> => mpv.alive
    BY <1>1 DEF MpvOK
  <2>2. mpv.list = <<>> => mpv.pos = None
    BY <1>1, EmptySeq DEF MpvOK, None
  <2> QED BY <2>1, <2>2 DEF loadfile
<1> HIDE DEF m, s
<1>4. Len(m.list) # 2
  <2>1. Len(<<>>) = 0 /\ Len(<<s>>) = 1
    OBVIOUS
  <2>2. CASE m.list = <<s>>
    BY <2>1, <2>2
  <2>3. CASE m.list = <<>>
    BY <2>1, <2>3
  <2> QED BY <1>3, <2>2, <2>3
<1>5. mpv' = preload_next_track(m, queue', repeat_mode, p)
  BY DEF m, s
<1>6. IsNext(mpv', queue', repeat_mode, p)
  BY <1>2, <1>4, <1>5, PreloadIsNext
<1>7. mpv'.pos = 0 => mpv'.list[1] = s
  <2>1. mpv'.pos = m.pos /\ (m.list # <<>> => mpv'.list[1] = m.list[1])
    BY <1>2, <1>5, PreloadKeepsFirst
  <2>2. CASE m.list = <<s>>
    <3>1. m.list # <<>> /\ m.list[1] = s
      BY <2>2
    <3> QED BY <2>1, <3>1
  <2>3. CASE m.list = <<>> /\ m.pos = None
    BY <2>1, <2>3 DEF None
  <2> QED BY <1>3, <2>2, <2>3
<1>8. NextIsPreloaded'
  BY <1>6 DEF NextIsPreloaded
<1>9. AudibleIsShown'
  BY <1>7 DEF AudibleIsShown, s
<1> QED BY <1>8, <1>9 DEF OnAir, Streamed, Unloaded

LEMMA CancelsNothing ==
    ASSUME NothingBuffered, cancel_prebuffer
    PROVE  NothingBuffered'
BY DEF NothingBuffered, NoPrebuffer, cancel_prebuffer, orphaned

LEMMA StartIsOnAir ==
    ASSUME Inv, Streamed, queue' \in Seq(Songs), NEW p \in 0..(Len(queue') - 1),
           NEW buffered, ~buffered, StartPlay(queue', p, buffered), repeat_mode' = repeat_mode
    PROVE  OnAir'
BY LoadedIsOnAir, CancelsNothing DEF StartPlay, Streamed

LEMMA Stopped ==
    ASSUME Inv, Streamed, mpv' = mpv_stop(mpv), status' # "Playing", NothingBuffered',
           repeat_mode' \in UsedModes
    PROVE  OnAir'
<1>1. mpv'.list = <<>>
  BY DEF Inv, TypeOK, MpvOK, mpv_stop, IdleMpv
<1> QED BY <1>1 DEF OnAir, Streamed, Unloaded, NextIsPreloaded, AudibleIsShown

LEMMA StopKeepQueueIsOnAir ==
    ASSUME Inv, Streamed, StopKeepQueue, repeat_mode' = repeat_mode
    PROVE  OnAir'
BY Stopped, CancelsNothing DEF StopKeepQueue, Streamed

(* Losing the cursor: nothing is claimed of what goes on playing.          *)
LEMMA NoCursorIsOnAir ==
    ASSUME Streamed, queue_position' = None, mpv' = mpv,
           UNCHANGED <<status, repeat_mode, prebuffer, orphans>>
    PROVE  OnAir'
BY DEF OnAir, Streamed, Unloaded, NextIsPreloaded, NothingBuffered, AudibleIsShown

(* An edit resynchronises the preload, or keeps what comes next.           *)
LEMMA EditIsOnAir ==
    ASSUME Inv, OnAir, queue' \in Seq(Songs), NEW needed \in BOOLEAN,
           mpv' = resync_gapless_preload(queue', queue_position', needed),
           queue_position = None => queue_position' = None,
           ~needed /\ queue_position # None =>
              /\ queue_position' \in 0..(Len(queue') - 1)
              /\ queue'[queue_position' + 1] = queue[queue_position + 1]
              /\ queue_position + 1 < Len(queue) =>
                    /\ queue_position' + 1 < Len(queue')
                    /\ queue'[queue_position' + 2] = queue[queue_position + 2]
              /\ queue_position + 1 = Len(queue) => queue_position' + 1 = Len(queue'),
           UNCHANGED <<song, status, repeat_mode, prebuffer, orphans>>
    PROVE  OnAir'
<1>1. TypeOK /\ repeat_mode \in Modes /\ queue \in Seq(Songs)
      /\ queue_position \in Nat \union {None}
  BY DEF Inv, TypeOK
<1>2. /\ mpv.list = <<>> => mpv' = mpv
      /\ mpv'.pos = 0 => mpv.pos = 0 /\ mpv'.list[1] = mpv.list[1]
  BY <1>1, ResyncKeepsFirst
<1>3. Unloaded' /\ NothingBuffered' /\ (repeat_mode \in UsedModes)'
  BY <1>2 DEF OnAir, Streamed, Unloaded, NothingBuffered
<1>4. "All" \notin UsedModes => AudibleIsShown'
  BY <1>2 DEF OnAir, AudibleIsShown
<1>5. NextIsPreloaded'
  <2> SUFFICES ASSUME status = "Playing", queue_position' # None
               PROVE  IsNext(mpv', queue', repeat_mode, queue_position')
    BY DEF NextIsPreloaded
  <2>1. CASE needed
    BY <1>1, <2>1, ResyncIsNext
  <2>2. CASE ~needed
    <3>1. mpv' = mpv
      BY <2>2 DEF resync_gapless_preload
    <3>2. IsNext(mpv, queue, repeat_mode, queue_position)
      BY DEF OnAir, Streamed, NextIsPreloaded
    <3>3. queue_position \in 0..(Len(queue) - 1)
      BY <1>1, LenProperties DEF Inv, CursorOnSong, None
    <3> QED BY <1>1, <2>2, <3>1, <3>2, <3>3, NextStays
  <2> QED BY <2>1, <2>2
<1> QED BY <1>3, <1>4, <1>5 DEF OnAir, Streamed

LEMMA StreamsOnStart == ASSUME StreamOnStart PROVE ~preferred_start_mode
BY DEF preferred_start_mode

LEMMA ExtendOrFinishIsOnAir ==
    ASSUME Inv, Streamed, StreamOnStart, ExtendOrFinish, repeat_mode' = repeat_mode
    PROVE  OnAir'
<1>1. ASSUME NEW b \in Batches, NEW more \in Filtered(pick_unplayed_random(b)),
             more # <<>>, queue' = queue \o more,
             StartPlay(queue', Len(queue), preferred_start_mode)
      PROVE  OnAir'
  <2>1. more \in Seq(Songs) /\ queue \in Seq(Songs)
    BY BatchIsSeq DEF Inv, TypeOK
  <2>2. Len(more) \in Nat \ {0} /\ Len(queue) \in Nat
    BY <1>1, <2>1, EmptySeq, LenProperties
  <2>3. queue' \in Seq(Songs) /\ Len(queue') = Len(queue) + Len(more)
    BY <1>1, <2>1, ConcatProperties
  <2>4. Len(queue) \in 0..(Len(queue') - 1)
    BY <2>2, <2>3
  <2> QED BY <1>1, <2>3, <2>4, StartIsOnAir, StreamsOnStart
<1> QED BY <1>1, StopKeepQueueIsOnAir DEF ExtendOrFinish

LEMMA AdvanceToIsOnAir ==
    ASSUME Inv, OnAir, StreamOnStart, NEW next \in Nat \union {None}, AdvanceTo(next)
    PROVE  OnAir'
<1>1. queue \in Seq(Songs) /\ repeat_mode' = repeat_mode /\ Streamed
  BY DEF Inv, TypeOK, AdvanceTo, OnAir
<1>2. ASSUME next # None, next < Len(queue), StartPlay(queue, next, FALSE), UNCHANGED queue
      PROVE  OnAir'
  <2>1. next \in 0..(Len(queue) - 1)
    BY <1>1, <1>2, LenProperties
  <2> QED BY <1>1, <1>2, <2>1, StartIsOnAir
<1>3. ASSUME UNCHANGED <<queue, cursorVars, mpv, prebuffer, orphans>>
      PROVE  OnAir'
  BY <1>1, <1>3 DEF cursorVars, OnAir, Streamed, Unloaded, NextIsPreloaded, NothingBuffered,
                    AudibleIsShown
<1>4. ASSUME ExtendOrFinish
      PROVE  OnAir'
  BY <1>1, <1>4, ExtendOrFinishIsOnAir
<1> QED BY <1>2, <1>3, <1>4 DEF AdvanceTo

LEMMA AdvanceIsOnAir ==
    ASSUME Inv, OnAir, StreamOnStart, advance_auto \/ next_track
    PROVE  OnAir'
<1>1. TypeOK /\ repeat_mode \in Modes
  BY DEF Inv, TypeOK
<1>2. CASE advance_auto
  <2> DEFINE next == IF queue_position = None THEN 0
                     ELSE next_auto(repeat_mode, queue_position, Len(queue))
  <2>1. next \in Nat \union {None} /\ AdvanceTo(next)
    BY <1>1, <1>2, NextTypes DEF advance_auto
  <2> QED BY <2>1, AdvanceToIsOnAir
<1>3. CASE next_track
  <2> DEFINE next == IF queue_position = None THEN 0
                     ELSE next_manual(repeat_mode, queue_position, Len(queue))
  <2>1. next \in Nat \union {None} /\ AdvanceTo(next)
    BY <1>1, <1>3, NextTypes DEF next_track
  <2> QED BY <2>1, AdvanceToIsOnAir
<1> QED BY <1>2, <1>3

LEMMA ReplaceIsOnAir ==
    ASSUME Inv, Inv', OnAir, StreamOnStart,
           \/ \E b \in Batches, p \in Positions \union {None} : replace_queue_and_play(b, p)
           \/ \E b \in Batches : shuffle_library(b)
    PROVE  OnAir'
<1>1. queue' \in Seq(Songs) /\ repeat_mode' = repeat_mode /\ Streamed
  BY DEF Inv, TypeOK, OnAir, replace_queue_and_play, shuffle_library
<1>2. ASSUME NEW p, p # None, StartPlay(queue', p, preferred_start_mode)
      PROVE  OnAir'
  <2>1. queue_position' = p
    BY <1>2 DEF StartPlay
  <2>2. p \in Nat /\ p < Len(queue')
    BY <1>2, <2>1 DEF Inv, TypeOK, CursorOnSong
  <2>3. p \in 0..(Len(queue') - 1)
    BY <1>1, <2>2, LenProperties
  <2> QED BY <1>1, <1>2, <2>3, StartIsOnAir, StreamsOnStart
<1>3. ASSUME queue_position' = None, UNCHANGED <<song, status, mpv, prebuffer, orphans>>
      PROVE  OnAir'
  BY <1>1, <1>3, NoCursorIsOnAir
<1>4. ASSUME NEW b \in Batches, NEW p \in Positions \union {None}, replace_queue_and_play(b, p)
      PROVE  OnAir'
  <2> DEFINE tracked == filter_for_playback_tracking_index(b, p)
             start == IF tracked = None /\ p # None THEN 0 ELSE tracked
  <2>1. \/ start # None /\ StartPlay(queue', start, preferred_start_mode)
        \/ queue_position' = None /\ UNCHANGED <<song, status, mpv, prebuffer, orphans>>
    BY <1>4 DEF replace_queue_and_play
  <2> HIDE DEF start
  <2> QED BY <1>2, <1>3, <2>1
<1>5. ASSUME NEW b \in Batches, shuffle_library(b)
      PROVE  OnAir'
  <2>1. \/ StartPlay(queue', 0, preferred_start_mode)
        \/ queue_position' = None /\ UNCHANGED <<song, status, mpv, prebuffer, orphans>>
    BY <1>5 DEF shuffle_library
  <2>2. 0 # None
    BY DEF None
  <2> QED BY <1>2, <1>3, <2>1, <2>2
<1> QED BY <1>4, <1>5

LEMMA AppendIsOnAir ==
    ASSUME Inv, OnAir, NEW b \in Batches, EnqueueAppend(b)
    PROVE  OnAir'
<1>1. PICK kept \in Filtered(b) :
        /\ queue' = queue \o kept
        /\ mpv' = resync_gapless_preload(queue', queue_position,
                                         queue_position + 1 = Len(queue))
        /\ UNCHANGED <<cursorVars, repeat_mode, prebuffer, orphans, eof>>
  BY DEF EnqueueAppend
<1>2. /\ kept \in Seq(Songs) /\ queue \in Seq(Songs)
      /\ queue_position \in Nat \union {None}
  BY BatchIsSeq DEF Inv, TypeOK
<1>3. Len(queue) \in Nat /\ Len(kept) \in Nat
  BY <1>2, LenProperties
<1>4. /\ queue' \in Seq(Songs) /\ Len(queue') = Len(queue) + Len(kept)
      /\ \A i \in 1..(Len(queue) + Len(kept)) : queue'[i] =
            IF i <= Len(queue) THEN queue[i] ELSE kept[i - Len(queue)]
  BY <1>1, <1>2, ConcatProperties
<1>5. UNCHANGED <<queue_position, song, status, repeat_mode, prebuffer, orphans>>
  BY <1>1 DEF cursorVars
<1> DEFINE needed == queue_position + 1 = Len(queue)
<1>6. ASSUME ~needed, queue_position # None
      PROVE  /\ queue_position \in 0..(Len(queue') - 1)
             /\ queue'[queue_position + 1] = queue[queue_position + 1]
             /\ queue_position + 1 < Len(queue')
             /\ queue'[queue_position + 2] = queue[queue_position + 2]
  <2>1. queue_position \in 0..(Len(queue) - 1)
    BY <1>2, <1>3, <1>6 DEF Inv, CursorOnSong, None
  <2>2. /\ queue_position + 1 \in 1..(Len(queue) + Len(kept)) /\ queue_position + 1 <= Len(queue)
        /\ queue_position + 2 \in 1..(Len(queue) + Len(kept)) /\ queue_position + 2 <= Len(queue)
    BY <1>3, <1>6, <2>1
  <2> QED BY <1>3, <1>4, <2>1, <2>2
<1>7. needed \in BOOLEAN /\ mpv' = resync_gapless_preload(queue', queue_position', needed)
  BY <1>1, <1>5
<1>8. ~needed => queue_position + 1 # Len(queue)
  OBVIOUS
<1> HIDE DEF needed
<1> QED BY <1>4, <1>5, <1>6, <1>7, <1>8, EditIsOnAir

LEMMA InsertIsOnAir ==
    ASSUME Inv, OnAir, NEW b \in Batches, NEW p \in Positions, EnqueueInsertAfter(p, b)
    PROVE  OnAir'
<1> DEFINE at == IF p + 1 < Len(queue) THEN p + 1 ELSE Len(queue)
           needed == at = queue_position + 1
<1>1. PICK kept \in Filtered(b) :
        /\ queue' = SubSeq(queue, 1, at) \o kept \o SubSeq(queue, at + 1, Len(queue))
        /\ queue_position' = cursor_after_insert(queue_position, at, Len(kept))
        /\ mpv' = resync_gapless_preload(queue', queue_position', needed)
        /\ UNCHANGED <<song, status, repeat_mode, prebuffer, orphans, eof>>
  BY DEF EnqueueInsertAfter
<1>2. /\ kept \in Seq(Songs) /\ queue \in Seq(Songs)
      /\ queue_position \in Nat \union {None}
  BY BatchIsSeq DEF Inv, TypeOK
<1>3. at \in 0..Len(queue) /\ Len(kept) \in Nat /\ Len(queue) \in Nat
  <2>1. p \in Nat
    BY PlayQueueAssumption DEF Positions, PlayQueueAssumption
  <2> QED BY <1>2, <2>1, LenProperties
<1> HIDE DEF at
<1>4. queue' = Splice(queue, at, kept)
  BY <1>1 DEF Splice
<1>5. /\ queue' \in Seq(Songs) /\ Len(queue') = Len(queue) + Len(kept)
      /\ \A j \in 1..(Len(queue) + Len(kept)) : queue'[j] =
            IF j <= at THEN queue[j]
            ELSE IF j <= at + Len(kept) THEN kept[j - at]
            ELSE queue[j - Len(kept)]
  BY <1>2, <1>3, <1>4, SpliceFacts
<1>6. ASSUME ~needed, queue_position # None
      PROVE  /\ queue_position' \in 0..(Len(queue') - 1)
             /\ queue'[queue_position' + 1] = queue[queue_position + 1]
             /\ queue_position + 1 < Len(queue) =>
                   /\ queue_position' + 1 < Len(queue')
                   /\ queue'[queue_position' + 2] = queue[queue_position + 2]
             /\ queue_position + 1 = Len(queue) => queue_position' + 1 = Len(queue')
  <2> DEFINE k == Len(kept)
             c == queue_position
             n == Len(queue)
  <2>1. c \in 0..(n - 1) /\ k \in Nat /\ n \in Nat
    BY <1>2, <1>3, <1>6 DEF Inv, CursorOnSong, None
  <2>2. \A j \in 1..(n + k) : queue'[j] =
            IF j <= at THEN queue[j] ELSE IF j <= at + k THEN kept[j - at] ELSE queue[j - k]
    BY <1>5
  <2>3. Len(queue') = n + k /\ at \in 0..n
    BY <1>3, <1>5
  <2>4. CASE at <= c
    <3>1. queue_position' = c + k
      BY <1>1, <1>6, <2>4 DEF cursor_after_insert
    <3> HIDE DEF k, c, n
    <3>2. /\ c + k + 1 \in 1..(n + k) /\ ~(c + k + 1 <= at) /\ ~(c + k + 1 <= at + k)
          /\ (c + k + 1) - k = c + 1 /\ (c + k + 2) - k = c + 2
          /\ ~(c + k + 2 <= at) /\ ~(c + k + 2 <= at + k)
      BY <2>1, <2>3, <2>4
    <3>3. queue'[c + k + 1] = queue[c + 1]
      BY <2>2, <3>2
    <3>4. c + 1 < n => c + k + 1 < n + k /\ c + k + 2 \in 1..(n + k)
      BY <2>1
    <3>5. c + 1 < n => queue'[c + k + 2] = queue[c + 2]
      BY <2>2, <3>2, <3>4
    <3>6. (c + 1 = n => c + k + 1 = n + k) /\ c + k \in 0..(n + k - 1)
      BY <2>1
    <3>7. queue_position' + 1 = c + k + 1 /\ queue_position' + 2 = c + k + 2
      BY <3>1
    <3>8. queue_position' \in 0..(Len(queue') - 1)
      BY <2>1, <2>3, <3>1, <3>6
    <3>9. queue'[queue_position' + 1] = queue[c + 1]
      BY <3>3, <3>7
    <3>10. c + 1 < n => queue_position' + 1 < Len(queue')
                     /\ queue'[queue_position' + 2] = queue[c + 2]
      BY <2>3, <3>4, <3>5, <3>7
    <3>11. c + 1 = n => queue_position' + 1 = Len(queue')
      BY <2>3, <3>6, <3>7
    <3> QED BY <3>8, <3>9, <3>10, <3>11 DEF c, n
  <2>5. CASE ~(at <= c)
    <3>1. queue_position' = c
      BY <2>5 , <1>1 DEF cursor_after_insert
    <3>2. at # c + 1
      BY <1>6 DEF needed
    <3> HIDE DEF k, c, n
    <3>3. /\ c + 1 \in 1..(n + k) /\ c + 1 <= at /\ c + 2 <= at /\ c + 2 \in 1..(n + k)
          /\ c + 1 # n /\ c + 1 < n + k /\ c \in 0..(n + k - 1)
      BY <2>1, <2>3, <2>5, <3>2
    <3>4. queue'[c + 1] = queue[c + 1] /\ queue'[c + 2] = queue[c + 2]
      BY <2>2, <3>3
    <3> QED BY <2>3, <3>1, <3>3, <3>4 DEF c, n
  <2> QED BY <2>4, <2>5
<1>7. needed \in BOOLEAN
  OBVIOUS
<1>8. queue_position = None => queue_position' = None
  BY <1>1 DEF cursor_after_insert
<1> HIDE DEF needed
<1> QED BY <1>1, <1>5, <1>6, <1>7, <1>8, EditIsOnAir

LEMMA RemoveIsOnAir ==
    ASSUME Inv, Inv', OnAir, NEW p \in Positions, handle_remove_from_queue(p)
    PROVE  OnAir'
<1>1. /\ queue \in Seq(Songs) /\ queue' \in Seq(Songs) /\ Streamed
      /\ queue_position \in Nat \union {None} /\ repeat_mode' = repeat_mode
  BY DEF Inv, TypeOK, OnAir, handle_remove_from_queue
<1>2. p \in 0..(Len(queue) - 1) /\ Len(queue) \in Nat /\ p + 1 \in 1..Len(queue)
  <2>1. p \in Nat
    BY PlayQueueAssumption DEF Positions, PlayQueueAssumption
  <2> QED BY <1>1, <2>1, LenProperties DEF handle_remove_from_queue
<1>3. /\ Len(queue') = Len(queue) - 1
      /\ \A j \in 1..(Len(queue) - 1) : queue'[j] = IF j < p + 1 THEN queue[j] ELSE queue[j + 1]
  BY <1>1, <1>2, RemoveAtFacts DEF handle_remove_from_queue
<1>4. ASSUME p # queue_position,
             queue_position' = cursor_after_remove(queue_position, p),
             mpv' = resync_gapless_preload(queue', queue_position',
                       queue_position # None /\ p = queue_position + 1),
             UNCHANGED <<song, status, prebuffer, orphans>>
      PROVE  OnAir'
  <2> DEFINE needed == queue_position # None /\ p = queue_position + 1
             c == queue_position
             n == Len(queue)
  <2>1. ASSUME ~needed, queue_position # None
        PROVE  /\ queue_position' \in 0..(Len(queue') - 1)
               /\ queue'[queue_position' + 1] = queue[queue_position + 1]
               /\ queue_position + 1 < Len(queue) =>
                     /\ queue_position' + 1 < Len(queue')
                     /\ queue'[queue_position' + 2] = queue[queue_position + 2]
               /\ queue_position + 1 = Len(queue) => queue_position' + 1 = Len(queue')
    <3>1. c \in 0..(n - 1) /\ n \in Nat /\ p \in 0..(n - 1) /\ Len(queue') = n - 1 /\ p # c /\ p # c + 1
      BY <1>1, <1>2, <1>3, <1>4, <2>1 DEF Inv, CursorOnSong, None
    <3>2. \A j \in 1..(n - 1) : queue'[j] = IF j < p + 1 THEN queue[j] ELSE queue[j + 1]
      BY <1>3
    <3>3. CASE p > c
      <4>1. queue_position' = c
        BY <1>4, <3>3 DEF cursor_after_remove
      <4> HIDE DEF c, n
      <4>2. /\ c + 1 \in 1..(n - 1) /\ c + 1 < p + 1 /\ c + 2 \in 1..(n - 1) /\ c + 2 < p + 1
            /\ c + 1 # n /\ c + 1 < n - 1 /\ c \in 0..(n - 1 - 1)
        BY <3>1, <3>3
      <4>3. queue'[c + 1] = queue[c + 1] /\ queue'[c + 2] = queue[c + 2]
        BY <3>2, <4>2
      <4> QED BY <3>1, <4>1, <4>2, <4>3 DEF c, n
    <3>4. CASE p < c
      <4>1. queue_position' = c - 1
        BY <1>4, <2>1, <3>1, <3>4 DEF cursor_after_remove
      <4> HIDE DEF c, n
      <4>2. /\ c \in 1..(n - 1) /\ ~(c < p + 1) /\ ~(c + 1 < p + 1)
            /\ c - 1 \in 0..(n - 1 - 1) /\ (c - 1) + 1 = c /\ (c - 1) + 2 = c + 1
            /\ (c + 1) + 1 = c + 2
            /\ c + 1 < n => c + 1 \in 1..(n - 1) /\ c < n - 1
            /\ c + 1 = n => c = n - 1
        BY <3>1, <3>4
      <4>3. queue'[c] = queue[c + 1]
        BY <3>2, <4>2
      <4>4. c + 1 < n => queue'[c + 1] = queue[c + 2]
        BY <3>2, <4>2
      <4> QED BY <3>1, <4>1, <4>2, <4>3, <4>4 DEF c, n
    <3> QED BY <3>1, <3>3, <3>4
  <2>2. queue_position = None => queue_position' = None
    BY <1>4 DEF cursor_after_remove
  <2>3. needed \in BOOLEAN /\ mpv' = resync_gapless_preload(queue', queue_position', needed)
    BY <1>4
  <2> HIDE DEF needed
  <2> QED BY <1>1, <1>4, <2>1, <2>2, <2>3, EditIsOnAir
<1>5. ASSUME p = queue_position, p < Len(queue'), StartPlay(queue', p, FALSE)
      PROVE  OnAir'
  <2>1. p \in 0..(Len(queue') - 1)
    BY <1>2, <1>3, <1>5
  <2> QED BY <1>1, <1>5, <2>1, StartIsOnAir
<1>6. ASSUME p = queue_position,
             queue_position' = cursor_after_remove(queue_position, p),
             UNCHANGED <<song, status, mpv, prebuffer, orphans>>
      PROVE  OnAir'
  <2>1. queue_position' = None
    BY <1>2, <1>6 DEF cursor_after_remove, None
  <2> QED BY <1>1, <1>6, <2>1, NoCursorIsOnAir
<1>7. ASSUME status' = "Stopped", mpv' = mpv_stop(mpv), UNCHANGED <<prebuffer, orphans>>
      PROVE  OnAir'
  BY <1>1, <1>7, Stopped DEF Streamed, NothingBuffered
<1> QED BY <1>4, <1>5, <1>6, <1>7 DEF handle_remove_from_queue

LEMMA MoveIsOnAir ==
    ASSUME Inv, OnAir, NEW from \in Positions, NEW to \in Positions, move_queue_item(from, to)
    PROVE  OnAir'
<1> DEFINE c == queue_position
           n == Len(queue)
           needed == next_maybe_changed(queue_position, from, to)
<1>1. /\ queue \in Seq(Songs) /\ c \in Nat \union {None} /\ n \in Nat
      /\ from \in Nat /\ to \in Nat /\ from < n /\ to < n /\ from # to
      /\ queue' = InsertAt(RemoveAt(queue, from + 1), to + 1, queue[from + 1])
      /\ queue_position' = cursor_after_move(c, from, to)
      /\ mpv' = resync_gapless_preload(queue', queue_position', needed)
      /\ UNCHANGED <<song, status, repeat_mode, prebuffer, orphans>>
  BY PlayQueueAssumption, LenProperties
     DEF Positions, PlayQueueAssumption, Inv, TypeOK, move_queue_item
<1>2. /\ queue' \in Seq(Songs) /\ Len(queue') = n
      /\ \A j \in 1..n : (j < from + 1 /\ j < to + 1) \/ (from + 1 < j /\ to + 1 < j) =>
            queue'[j] = queue[j]
  <2> DEFINE i == from + 1
             k == to + 1
  <2>1. i \in 1..n /\ k \in 1..n /\ queue' = InsertAt(RemoveAt(queue, i), k, queue[i])
    BY <1>1
  <2> HIDE DEF i, k
  <2>2. queue' \in Seq(Songs) /\ Len(queue') = n
    BY <1>1, <2>1, MoveKeepsOutside
  <2>3. ASSUME NEW j \in 1..n, (j < i /\ j < k) \/ (i < j /\ k < j)
        PROVE  queue'[j] = queue[j]
    BY <1>1, <2>1, <2>3, MoveKeepsOutside
  <2> QED BY <2>2, <2>3 DEF i, k
<1>3. ASSUME ~needed, queue_position # None
      PROVE  /\ queue_position' = c /\ c \in 0..(n - 1)
             /\ queue'[c + 1] = queue[c + 1]
             /\ c + 1 < n => queue'[c + 2] = queue[c + 2]
  <2>1. c \in 0..(n - 1)
    BY <1>1, <1>3 DEF Inv, CursorOnSong, None
  <2>2. (from < c /\ to < c) \/ (from > c + 1 /\ to > c + 1)
    BY <1>1, <1>3, <2>1 DEF next_maybe_changed
  <2>3. queue_position' = c
    BY <1>1, <2>1, <2>2 DEF cursor_after_move
  <2> HIDE DEF c, n
  <2>4. /\ c + 1 \in 1..n
        /\ (c + 1 < from + 1 /\ c + 1 < to + 1) \/ (from + 1 < c + 1 /\ to + 1 < c + 1)
        /\ (c + 2 < from + 1 /\ c + 2 < to + 1) \/ (from + 1 < c + 2 /\ to + 1 < c + 2)
        /\ c + 1 < n => c + 2 \in 1..n
    BY <1>1, <2>1, <2>2
  <2> QED BY <1>2, <2>1, <2>3, <2>4
<1>4. needed \in BOOLEAN
  BY DEF next_maybe_changed
<1>5. queue_position = None => queue_position' = None
  BY <1>1 DEF cursor_after_move, None
<1> HIDE DEF needed
<1>6. ASSUME ~needed, queue_position # None
      PROVE  /\ queue_position' \in 0..(Len(queue') - 1)
             /\ queue'[queue_position' + 1] = queue[queue_position + 1]
             /\ queue_position + 1 < Len(queue) =>
                   /\ queue_position' + 1 < Len(queue')
                   /\ queue'[queue_position' + 2] = queue[queue_position + 2]
             /\ queue_position + 1 = Len(queue) => queue_position' + 1 = Len(queue')
  BY <1>2, <1>3, <1>6
<1> QED BY <1>1, <1>2, <1>4, <1>5, <1>6, EditIsOnAir

LEMMA ClearHistoryIsOnAir ==
    ASSUME Inv, OnAir, clear_queue_history
    PROVE  OnAir'
<1> DEFINE c == queue_position
           n == Len(queue)
           m == queue_position + 1
<1>1. queue \in Seq(Songs) /\ n \in Nat
  BY LenProperties DEF Inv, TypeOK
<1>2. c \in 0..(n - 1) /\ queue_position # None
  BY <1>1 DEF clear_queue_history, Inv, TypeOK, CursorOnSong, None
<1>3. \A i \in m..n : queue[i] \in Songs
  BY <1>1, <1>2, ElementOfSeq
<1>4. m \in Int /\ n \in Int /\ m <= n /\ n - m + 1 >= 1 /\ m = c + 1
  BY <1>1, <1>2
<1>5. queue' = SubSeq(queue, m, n) /\ queue_position' = 0
  BY DEF clear_queue_history
<1> HIDE DEF c, m, n
<1>6. queue' \in Seq(Songs) /\ Len(queue') = n - m + 1
  BY <1>3, <1>4, <1>5, SubSeqProperties
<1>7. \A i \in 1..(n - m + 1) : queue'[i] = queue[m + i - 1]
  BY <1>3, <1>4, <1>5, SubSeqProperties
<1>8. /\ 0 \in 0..(Len(queue') - 1)
      /\ queue'[0 + 1] = queue[c + 1]
      /\ c + 1 < n => 0 + 1 < Len(queue') /\ queue'[0 + 2] = queue[c + 2]
      /\ c + 1 = n => 0 + 1 = Len(queue')
  <2>1. 1 \in 1..(n - m + 1) /\ m + 1 - 1 = c + 1 /\ m + 2 - 1 = c + 2
        /\ (c + 1 < n => 2 \in 1..(n - m + 1))
    BY <1>2, <1>4
  <2>2. queue'[1] = queue[c + 1]
    BY <1>7, <2>1
  <2>3. c + 1 < n => queue'[2] = queue[c + 2]
    BY <1>7, <2>1
  <2> QED BY <1>2, <1>4, <1>6, <2>2, <2>3
<1>9. mpv' = resync_gapless_preload(queue', queue_position', FALSE)
  BY DEF clear_queue_history, resync_gapless_preload
<1>10. UNCHANGED <<song, status, repeat_mode, prebuffer, orphans>>
  BY DEF clear_queue_history
<1> QED BY <1>2, <1>5, <1>6, <1>8, <1>9, <1>10, EditIsOnAir DEF c, n

LEMMA ShuffleIsOnAir ==
    ASSUME Inv, Inv', OnAir, shuffle_queue
    PROVE  OnAir'
<1>1. /\ queue' \in Seq(Songs)
      /\ mpv' = resync_gapless_preload(queue', queue_position', TRUE)
      /\ UNCHANGED <<queue_position, song, status, repeat_mode, prebuffer, orphans>>
  BY DEF Inv, TypeOK, shuffle_queue, cursorVars
<1> QED BY <1>1, EditIsOnAir

(* Unlike a resync, a change of mode preloads whatever the status is; with *)
(* nothing loaded there is nothing to append to.                           *)
LEMMA RepeatModeIsOnAir ==
    ASSUME Inv, OnAir, NEW mode \in UsedModes, set_repeat_mode(mode)
    PROVE  OnAir'
<1> DEFINE m == drop_preload(mpv)
<1>1. /\ MpvOK(mpv) /\ MpvOK(m) /\ queue \in Seq(Songs)
      /\ UNCHANGED <<queue, queue_position, song, status, prebuffer, orphans>>
      /\ repeat_mode' = mode
  BY DropOK DEF Inv, TypeOK, set_repeat_mode, cursorVars
<1>2. CASE queue_position = None
  BY <1>1, <1>2 DEF set_repeat_mode, OnAir, Streamed, Unloaded, NextIsPreloaded,
                    NothingBuffered, AudibleIsShown
<1>3. CASE queue_position # None
  <2>1. mpv' = preload_next_track(m, queue, mode, queue_position)
    BY <1>3 DEF set_repeat_mode
  <2>2. /\ Len(m.list) # 2
        /\ m.pos = 0 => mpv.pos = 0
        /\ mpv.list = <<>> => m = mpv
        /\ mpv.list # <<>> => m.list # <<>> /\ m.list[1] = mpv.list[1]
    BY <1>1, DropKeepsFirst
  <2> HIDE DEF m
  <2>3. /\ mpv'.pos = m.pos
        /\ m.list = <<>> => mpv' = m
        /\ m.list # <<>> => mpv'.list[1] = m.list[1]
    BY <1>1, <2>1, PreloadKeepsFirst
  <2>4. IsNext(mpv', queue, mode, queue_position)
    BY <1>1, <2>1, <2>2, PreloadIsNext
  <2>5. mpv.pos = 0 => mpv.list # <<>>
    BY <1>1, EmptySeq DEF MpvOK
  <2>6. NextIsPreloaded'
    BY <1>1, <2>4 DEF NextIsPreloaded
  <2>7. Unloaded' /\ NothingBuffered' /\ (repeat_mode \in UsedModes)'
    BY <1>1, <2>2, <2>3 DEF OnAir, Streamed, Unloaded, NothingBuffered
  <2>8. "All" \notin UsedModes => AudibleIsShown'
    BY <1>1, <2>2, <2>3, <2>5 DEF OnAir, AudibleIsShown
  <2> QED BY <2>6, <2>7, <2>8 DEF OnAir, Streamed
<1> QED BY <1>2, <1>3

(* mpv on its own: it goes on to the preload or idles, or loses everything.*)
LEMMA MpvAloneIsOnAir ==
    ASSUME Inv, OnAir, \/ \E reason \in {"eof", "error"} : TrackEnds(reason)
                       \/ MpvDies \/ MpvRespawns
    PROVE  OnAir'
<1>1. MpvOK(mpv) /\ UNCHANGED <<queue, queue_position, song, status, repeat_mode,
                                prebuffer, orphans>>
  BY DEF Inv, TypeOK, TrackEnds, MpvDies, MpvRespawns, cursorVars
<1>2. mpv'.pos # 0 /\ (mpv'.list = mpv.list \/ mpv'.list = <<>>)
  BY <1>1 DEF MpvOK, TrackEnds, MpvDies, MpvRespawns, mpv_file_ends, DeadMpv, IdleMpv, None
<1>3. IsNext(mpv, queue, repeat_mode, queue_position)
        => IsNext(mpv', queue, repeat_mode, queue_position)
  <2>1. CASE mpv'.list = mpv.list
    BY <2>1 DEF IsNext
  <2>2. CASE mpv'.list = <<>>
    <3>1. Len(mpv'.list) # 2
      BY <2>2, EmptySeq
    <3> QED BY <3>1 DEF IsNext
  <2> QED BY <1>2, <2>1, <2>2
<1> QED BY <1>1, <1>2, <1>3 DEF OnAir, Streamed, Unloaded, NextIsPreloaded,
                                NothingBuffered, AudibleIsShown

LEMMA TickPreloadIsOnAir ==
    ASSUME Inv, OnAir, TickPreload
    PROVE  OnAir'
<1>1. /\ MpvOK(mpv) /\ queue \in Seq(Songs) /\ Len(mpv.list) # 2
      /\ mpv' = preload_next_track(mpv, queue, repeat_mode, queue_position)
      /\ UNCHANGED <<queue, queue_position, song, status, repeat_mode, prebuffer, orphans>>
      /\ status = "Playing"
  BY DEF Inv, TypeOK, TickPreload, TickRuns, cursorVars
<1>2. mpv.pos = 0 => mpv.list # <<>>
  BY <1>1, EmptySeq DEF MpvOK
<1>3. mpv'.pos = mpv.pos /\ (mpv.list # <<>> => mpv'.list[1] = mpv.list[1])
  BY <1>1, PreloadKeepsFirst
<1>4. IsNext(mpv', queue, repeat_mode, queue_position)
  BY <1>1, PreloadIsNext
<1> QED BY <1>1, <1>2, <1>3, <1>4 DEF OnAir, Streamed, Unloaded, NextIsPreloaded,
                                      NothingBuffered, AudibleIsShown

(* Following mpv into the preload: it is the next song, so the song shown  *)
(* becomes the one that has been playing.                                  *)
LEMMA GaplessIsOnAir ==
    ASSUME Inv, OnAir, try_gapless_advance
    PROVE  OnAir'
<1> DEFINE next == gapless_target
           m == playlist_remove(mpv, 0)
           i == 1
<1>1. /\ mpv.pos = 1 /\ next # None /\ queue_position # None
      /\ queue_position' = next /\ song' = queue[next + 1]
      /\ mpv' = preload_next_track(m, queue, repeat_mode, next)
      /\ UNCHANGED <<queue, status, repeat_mode, prebuffer, orphans>>
      /\ status = "Playing"
  BY DEF try_gapless_advance, TickRuns
<1>2. MpvOK(mpv) /\ queue \in Seq(Songs) /\ repeat_mode \in Modes
  BY DEF Inv, TypeOK
<1>3. Len(mpv.list) = 2 /\ mpv.list \in Seq(Songs)
  <2>1. mpv.list \in Seq(Songs) /\ 1 < Len(mpv.list) /\ Len(mpv.list) <= 2
    BY <1>1, <1>2 DEF MpvOK
  <2>2. Len(mpv.list) \in Nat
    BY <2>1, LenProperties
  <2>3. \A n \in Nat : 1 < n /\ n <= 2 => n = 2
    OBVIOUS
  <2> QED BY <2>1, <2>2, <2>3
<1>4. RemoveAt(mpv.list, 1) \in Seq(Songs) /\ Len(RemoveAt(mpv.list, 1)) = 1
      /\ RemoveAt(mpv.list, 1)[1] = mpv.list[2]
  <2>1. i \in 1..Len(mpv.list) /\ 1 \in 1..(Len(mpv.list) - 1) /\ ~(1 < i)
        /\ Len(mpv.list) - 1 = 1 /\ 1 + 1 = 2
    BY <1>3
  <2> HIDE DEF i
  <2>2. /\ RemoveAt(mpv.list, i) \in Seq(Songs) /\ Len(RemoveAt(mpv.list, i)) = 1
        /\ RemoveAt(mpv.list, i)[1] = mpv.list[2]
    BY <1>3, <2>1, RemoveAtFacts
  <2> QED BY <2>2 DEF i
<1>5. m = [alive |-> mpv.alive, list |-> RemoveAt(mpv.list, 1), pos |-> 0]
  BY <1>1 DEF playlist_remove
<1>6. MpvOK(m)
  BY <1>2, <1>3, RemoveEntryOK
<1>7. Len(m.list) # 2 /\ m.list # <<>> /\ m.list[1] = mpv.list[2]
  <2>1. m.list = RemoveAt(mpv.list, 1)
    BY <1>5
  <2> HIDE DEF m
  <2>2. Len(m.list) = 1 /\ Len(<<>>) = 0
    BY <1>4, <2>1
  <2>3. m.list # <<>>
    BY <2>2
  <2>4. m.list[1] = mpv.list[2]
    BY <1>4, <2>1
  <2>5. Len(m.list) # 2
    BY <2>2
  <2> QED BY <2>3, <2>4, <2>5
<1> HIDE DEF m
<1>8. IsNext(mpv', queue, repeat_mode, next)
  BY <1>1, <1>2, <1>6, <1>7, PreloadIsNext
<1>9. mpv'.list[1] = mpv.list[2]
  BY <1>1, <1>2, <1>6, <1>7, PreloadKeepsFirst
<1>10. ASSUME "All" \notin UsedModes PROVE mpv.list[2] = song'
  <2>1. repeat_mode # "All" /\ IsNext(mpv, queue, repeat_mode, queue_position)
    BY <1>1, <1>10 DEF OnAir, Streamed, NextIsPreloaded
  <2> QED BY <1>1, <1>3, <2>1 DEF IsNext, gapless_target
<1>11. NextIsPreloaded'
  BY <1>1, <1>8 DEF NextIsPreloaded
<1> QED BY <1>1, <1>9, <1>10, <1>11 DEF OnAir, Streamed, Unloaded, NothingBuffered,
                                        AudibleIsShown

LEMMA InitIsOnAir == Init => OnAir
<1> SUFFICES ASSUME Init PROVE OnAir
  OBVIOUS
<1>1. status # "Playing" /\ mpv.list = <<>> /\ repeat_mode \in UsedModes
      /\ prebuffer = NoPrebuffer /\ orphans = {}
  BY DEF Init, IdleMpv
<1> QED BY <1>1 DEF OnAir, Streamed, Unloaded, NextIsPreloaded, NothingBuffered,
                    AudibleIsShown

LEMMA NextIsOnAir ==
    ASSUME Inv, Inv', OnAir, StreamOnStart, [Next]_vars
    PROVE  OnAir'
<1>1. /\ Streamed /\ queue \in Seq(Songs) /\ Len(queue) \in Nat /\ repeat_mode \in UsedModes
      /\ queue_position \in Nat \union {None}
  BY LenProperties DEF Inv, TypeOK, OnAir, Streamed
<1>2. ASSUME NEW p, p \in Nat, p < Len(queue), StartPlay(queue, p, FALSE),
             UNCHANGED <<queue, repeat_mode>>
      PROVE  OnAir'
  <2>1. p \in 0..(Len(queue) - 1)
    BY <1>1, <1>2
  <2> QED BY <1>1, <1>2, <2>1, StartIsOnAir
<1>3. ASSUME NEW p \in Positions, play_queue_position(p) PROVE OnAir'
  <2>1. p \in Nat
    BY PlayQueueAssumption DEF PlayQueueAssumption, Positions
  <2> QED BY <1>2, <1>3, <2>1 DEF play_queue_position
<1>4. ASSUME NEW early \in BOOLEAN, prev_track(early) PROVE OnAir'
  <2> DEFINE back == IF queue_position > 0 THEN queue_position - 1
                     ELSE prev_wrap(repeat_mode, Len(queue))
  <2>1. back \in Nat
    BY <1>1, <1>4 DEF prev_track, prev_wrap, None
  <2> QED BY <1>2, <1>4, <2>1 DEF prev_track
<1>5. ASSUME resume_playback PROVE OnAir'
  BY <1>1, <1>2, <1>5 DEF resume_playback, None
<1>6. ASSUME pause_playback PROVE OnAir'
  <2>1. NothingBuffered' /\ mpv' = mpv_stop(mpv) /\ status' # "Playing"
        /\ repeat_mode' = repeat_mode
    BY <1>1, <1>6, CancelsNothing DEF pause_playback, Streamed
  <2> QED BY <1>1, <2>1, Stopped
<1>7. ASSUME stop_keep_queue PROVE OnAir'
  BY <1>1, <1>7, StopKeepQueueIsOnAir DEF stop_keep_queue
<1>8. ASSUME stop_playback PROVE OnAir'
  <2>1. NothingBuffered' /\ mpv' = mpv_stop(mpv) /\ status' # "Playing"
        /\ repeat_mode' = repeat_mode
    BY <1>1, <1>8, CancelsNothing DEF stop_playback, Streamed
  <2> QED BY <1>1, <2>1, Stopped
<1>9. CASE UNCHANGED vars \/ UNCHANGED <<queue, cursorVars, repeat_mode, mpv, prebuffer, orphans>>
  BY <1>1, <1>9 DEF vars, cursorVars, OnAir, Streamed, Unloaded, NextIsPreloaded,
                    NothingBuffered, AudibleIsShown
<1>10. ASSUME ListenerEof \/ TickAdvanceEarly \/ TickAdvanceOnIdle PROVE OnAir'
  <2>1. CASE advance_auto
    BY <2>1, AdvanceIsOnAir
  <2> QED BY <1>9, <1>10, <2>1 DEF ListenerEof, TickAdvanceEarly, TickAdvanceOnIdle
<1>11. ~(PrebufferLoad \/ fallback_direct_if_current \/ PrebufferPreload)
  BY <1>1 DEF Streamed, NothingBuffered, NoPrebuffer, PrebufferLoad,
              fallback_direct_if_current, PrebufferPreload
<1>12. CASE Next
  BY <1>3, <1>4, <1>5, <1>6, <1>7, <1>8, <1>10, <1>11, <1>12, AdvanceIsOnAir,
     ReplaceIsOnAir, AppendIsOnAir, InsertIsOnAir, RemoveIsOnAir, MoveIsOnAir,
     ClearHistoryIsOnAir, ShuffleIsOnAir, RepeatModeIsOnAir, MpvAloneIsOnAir,
     TickPreloadIsOnAir, GaplessIsOnAir
     DEF Next
<1> QED BY <1>9, <1>12

(* What the runs check: PreloadedIsNext and SilentUnlessPlaying follow.    *)
LEMMA OnAirSuffices ==
    ASSUME Inv, OnAir
    PROVE  PreloadedIsNext /\ SilentUnlessPlaying
<1>1. SilentUnlessPlaying
  <2> SUFFICES ASSUME status # "Playing" PROVE mpv.pos = None
    BY DEF SilentUnlessPlaying
  <2>1. mpv.list = <<>> /\ MpvOK(mpv)
    BY DEF OnAir, Streamed, Unloaded, Inv, TypeOK
  <2>2. Len(mpv.list) = 0
    BY <2>1
  <2> QED BY <2>1, <2>2 DEF MpvOK, None
<1>2. PreloadedIsNext
  BY DEF OnAir, Streamed, NextIsPreloaded, IsNext, PreloadedIsNext, PreloadShown,
         next_position, wraps
<1> QED BY <1>1, <1>2

(* Where songs are streamed, the preload is the queue's next song and      *)
(* nothing plays unless the daemon shows Playing, for every queue, batch   *)
(* and mode.  (A buffered start's task preloads for the position it was    *)
(* dispatched with, which an edit during its download makes stale.)        *)
THEOREM PreloadIsNextAndSilent ==
    ASSUME StreamOnStart
    PROVE  Spec => [](PreloadedIsNext /\ SilentUnlessPlaying)
<1>1. Init => Inv /\ OnAir
  BY InitInv, InitIsOnAir
<1>2. Inv /\ OnAir /\ [Next]_vars => (Inv /\ OnAir)'
  BY NextInv, NextIsOnAir
<1>3. Inv /\ OnAir => PreloadedIsNext /\ SilentUnlessPlaying
  BY OnAirSuffices
<1> QED BY <1>1, <1>2, <1>3, PTL DEF Spec

(***************************************************************************)
(* The sessions of MCPlayQueue: a streamed one is PlayQueue itself.        *)
(***************************************************************************)
StreamedSession == session = "streamed" => Inv /\ OnAir

LEMMA SessionInductive ==
    ASSUME StreamOnStart
    PROVE  /\ SessionInit => StreamedSession
           /\ StreamedSession /\ [SessionNext]_<<session, vars>> => StreamedSession'
<1>1. SessionInit => StreamedSession
  BY InitInv, InitIsOnAir DEF SessionInit, StreamedSession
<1>2. ASSUME StreamedSession, [SessionNext]_<<session, vars>>, session' = "streamed"
      PROVE  (Inv /\ OnAir)'
  <2>1. session = "streamed" /\ [Next]_vars
    BY <1>2 DEF SessionNext
  <2>2. Inv /\ OnAir
    BY <1>2, <2>1 DEF StreamedSession
  <2> QED BY <2>1, <2>2, NextInv, NextIsOnAir
<1> QED BY <1>1, <1>2 DEF StreamedSession

(* While songs are streamed, a gapless advance plays what the queue shows  *)
(* next (resync_gapless_preload, try_gapless_advance).                     *)
THEOREM StreamedPreloadFollowsQueue ==
    ASSUME StreamOnStart
    PROVE  SessionSpec => []StreamedIsNext
<1>1. StreamedSession => StreamedIsNext
  BY OnAirSuffices DEF StreamedSession, StreamedIsNext
<1> QED BY <1>1, SessionInductive, PTL DEF SessionSpec

(* While songs are streamed and the queue never wraps around, the file mpv *)
(* plays from its first slot is the song shown, and nothing plays unless   *)
(* the daemon shows Playing, for every sequence of edits, skips, file ends *)
(* and deaths of mpv.                                                      *)
THEOREM StreamedPlaysWhatIsShown ==
    ASSUME StreamOnStart, "All" \notin UsedModes
    PROVE  SessionSpec => []StreamedIsShown
<1>1. StreamedSession => StreamedIsShown
  BY OnAirSuffices DEF StreamedSession, StreamedIsShown, OnAir
<1> QED BY <1>1, SessionInductive, PTL DEF SessionSpec
=============================================================================
