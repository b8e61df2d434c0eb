--------------------------- MODULE EventStreamProofs ---------------------------
(* For any jobs, connections, lengths of the channel and numbers of commits: *)
(* what a snapshot filters out it has, and every change of a job is shown,   *)
(* on its way or counted as missed.                                          *)
EXTENDS EventStream, SequenceTheorems, TLAPS

Statuses == {"off", "asked", "answered", "connected", "closed"}
Pcs      == {"idle", "asked", "emitting", "waiting", "answered"}

Elems(s) == {s[i] : i \in 1..Len(s)}

StreamTypeOK ==
    /\ row \in [Jobs -> Records] /\ view \in [Jobs -> Records]
    /\ emitting \in [Jobs -> [Emitters -> [rec : Records, seq : Nat]]]
    /\ sequence \in Nat \ {0}
    /\ channel \in Seq(Events) /\ buffered \in Seq(Events)
    /\ conn \in [Connections -> [status : Statuses, boundary : Nat, rows : [Jobs -> Records],
                                 failed : BOOLEAN]]
    /\ last \in Nat /\ seen \in [Jobs -> Nat] /\ missed \in [Jobs -> Nat]
    /\ call \in [Jobs -> [command : Commands \cup {"none"}, pc : Pcs, rec : Records]]
    /\ lookups \subseteq [job : Jobs, seq : Nat, rec : Records]

(* What the store has is the newest version of a job, of its newest attempt;  *)
(* a version of an earlier attempt is older than the start of the newest.    *)
Version(current, rec) ==
    /\ rec.rev <= current.rev /\ (rec.rev = current.rev => rec = current)
    /\ rec.since <= rec.rev
    /\ rec.since = current.since \/ rec.rev < current.since
Change(current, rec)  == Version(current, rec) /\ rec.state # NotThere

RowsFit == \A j \in Jobs : (row[j].rev = 0 => row[j] = Nothing) /\ row[j].since <= row[j].rev

(* What is shown may mix the state of one version with the attempt of        *)
(* another; when the attempt is the later one, a version of it was missed.   *)
Mixed(current, shown, m) ==
    /\ shown.rev <= current.rev /\ (shown.rev = current.rev => shown.state = current.state)
    /\ shown.since <= current.since
    /\ shown.since <= shown.rev \/ shown.since <= m

QueueVersions ==
    /\ \A j \in Jobs, e \in Emitters : Emits(j, e) => Change(row[j], emitting[j][e].rec)
    /\ \A event \in Elems(channel) : Change(row[event.job], event.rec)

WindowVersions ==
    /\ \A event \in Elems(buffered) : Change(row[event.job], event.rec)
    /\ \A l \in lookups : Version(row[l.job], l.rec)
    /\ \A j \in Jobs : Version(row[j], call[j].rec) /\ Mixed(row[j], view[j], missed[j])
    /\ \A c \in Connections, j \in Jobs : Version(row[j], conn[c].rows[j])
    /\ \A c \in Connections : conn[c].failed => conn[c].rows = [j \in Jobs |-> Nothing]
    /\ \A j \in Jobs : missed[j] <= row[j].rev

(* A number is taken once.                                                   *)
Numbered ==
    /\ \A j \in Jobs, e \in Emitters : emitting[j][e].seq < sequence
    /\ \A event \in Elems(channel) \cup Elems(buffered) : event.seq < sequence
    /\ \A c \in Connections : conn[c].boundary < sequence
    /\ last < sequence /\ \A j \in Jobs : seen[j] < sequence

Covers ==
    \A c \in Connections :
        conn[c].status = "answered" /\ conn[c].boundary > 0 =>
            /\ \A event \in Elems(channel) :
                  event.seq <= conn[c].boundary => event.rec.rev <= conn[c].rows[event.job].rev
            /\ \A j \in Jobs, e \in Emitters :
                  Emits(j, e) /\ emitting[j][e].seq \in 1 .. conn[c].boundary =>
                      emitting[j][e].rec.rev <= conn[c].rows[j].rev

(* The newest version of a job is shown or was denied to the controller, ... *)
Shown(j) == view[j].rev = row[j].rev \/ (missed[j] > 0 /\ missed[j] >= row[j].rev)

(* ... or it is on its way: in an event, in a look-up, in an answer or in    *)
(* the snapshot of a connection; or there is no connection at all.           *)
InQueue(j) ==
    \/ \E e \in Emitters : Emits(j, e) /\ emitting[j][e].rec = row[j]
    \/ \E event \in Elems(channel) : event.job = j /\ event.rec = row[j]

InSnapshot(j) ==
    \E c \in Connections :
        \/ conn[c].status = "asked"
        \/ conn[c].status = "answered" /\ (conn[c].failed \/ conn[c].rows[j] = row[j])

InWindow(j) ==
    \/ \E event \in Elems(buffered) : event.job = j /\ event.rec = row[j]
    \/ row[j].state # NotThere /\ \E l \in lookups : l.job = j /\ l.rec \in {Nothing, row[j]}

InAnswer(j) == call[j].pc = "answered" /\ call[j].rec = row[j]

Unconnected == \A c \in Connections : conn[c].status \in {"off", "closed"}

Accounted ==
    \A j \in Jobs :
        \/ Shown(j) \/ InQueue(j) \/ InSnapshot(j) \/ InWindow(j) \/ InAnswer(j) \/ Unconnected

(* No event tells the number of the attempt: it is shown or was denied to    *)
(* the controller, the answer of the command that began it is still to come, *)
(* or a snapshot brings it.                                                  *)
Begun(j) == view[j].since = row[j].since \/ (missed[j] > 0 /\ missed[j] >= row[j].since)

Called(j) == call[j].pc \in {"emitting", "answered"}

BegunInSnapshot(j) ==
    \E c \in Connections :
        \/ conn[c].status = "asked"
        \/ conn[c].status = "answered"
              /\ (conn[c].failed \/ conn[c].rows[j].since = row[j].since)

AttemptsAccounted ==
    \A j \in Jobs : Begun(j) \/ Called(j) \/ BegunInSnapshot(j) \/ Unconnected

(* A command that emits has not been answered, and the attempt of its answer *)
(* is the newest one.                                                        *)
AnswersWait ==
    \A j \in Jobs :
        /\ Emits(j, "command") => /\ call[j].pc = "emitting"
                                  /\ emitting[j]["command"].rec.since = row[j].since
        /\ call[j].pc = "answered" => call[j].rec.since = row[j].since

StreamInv ==
    /\ StreamTypeOK /\ RowsFit /\ QueueVersions /\ WindowVersions /\ Numbered
    /\ Covers /\ AnswersWait /\ Accounted /\ AttemptsAccounted /\ Len(channel) <= Capacity

-----------------------------------------------------------------------------
(* Sequences of events as sets.                                              *)

LEMMA TailElems ==
    ASSUME NEW S, NEW s \in Seq(S), s # <<>>
    PROVE  /\ Tail(s) \in Seq(S) /\ Len(s) \in Nat /\ Len(Tail(s)) = Len(s) - 1
           /\ Head(s) \in Elems(s) /\ Elems(s) \subseteq S
           /\ Elems(Tail(s)) \subseteq Elems(s)
           /\ Elems(s) \subseteq Elems(Tail(s)) \cup {Head(s)}
<1>1. /\ Len(s) \in Nat /\ Len(s) >= 1 /\ Head(s) = s[1]
      /\ Tail(s) \in Seq(S) /\ Len(Tail(s)) = Len(s) - 1
      /\ \A i \in 1..Len(Tail(s)) : Tail(s)[i] = s[i + 1]
  BY HeadTailProperties, EmptySeq, LenProperties
<1>2. Head(s) \in Elems(s) /\ Elems(s) \subseteq S
  BY <1>1 DEF Elems
<1>3. ASSUME NEW i \in 1..Len(Tail(s)) PROVE Tail(s)[i] \in Elems(s)
  <2>1. i + 1 \in 1..Len(s) /\ Tail(s)[i] = s[i + 1]
    BY <1>1
  <2> QED
    BY <2>1 DEF Elems
<1>4. ASSUME NEW i \in 1..Len(s), i # 1 PROVE s[i] \in Elems(Tail(s))
  <2>1. i - 1 \in 1..Len(Tail(s)) /\ (i - 1) + 1 = i
    BY <1>1, <1>4
  <2>2. Tail(s)[i - 1] = s[i]
    BY <1>1, <2>1
  <2> QED
    BY <2>1, <2>2 DEF Elems
<1>5. Elems(Tail(s)) \subseteq Elems(s)
  BY <1>3 DEF Elems
<1>6. Elems(s) \subseteq Elems(Tail(s)) \cup {Head(s)}
  BY <1>1, <1>4 DEF Elems
<1> QED
  BY <1>1, <1>2, <1>5, <1>6

LEMMA AppendElems ==
    ASSUME NEW S, NEW s \in Seq(S), NEW e \in S
    PROVE  /\ Append(s, e) \in Seq(S) /\ Len(Append(s, e)) = Len(s) + 1 /\ Len(s) \in Nat
           /\ Elems(Append(s, e)) = Elems(s) \cup {e}
<1>1. /\ Append(s, e) \in Seq(S) /\ Len(Append(s, e)) = Len(s) + 1 /\ Len(s) \in Nat
      /\ \A i \in 1..Len(s) : Append(s, e)[i] = s[i]
      /\ Append(s, e)[Len(s) + 1] = e
  BY AppendProperties, LenProperties
<1> DEFINE t == Append(s, e)
<1> HIDE DEF t
<1>2. \A i \in 1..Len(t) : t[i] \in Elems(s) \cup {e}
  BY <1>1 DEF Elems, t
<1>3. \A i \in 1..Len(s) : i \in 1..Len(t) /\ t[i] = s[i]
  BY <1>1 DEF t
<1>4. Len(t) \in 1..Len(t) /\ t[Len(t)] = e
  BY <1>1 DEF t
<1>5. Elems(t) = Elems(s) \cup {e}
  BY <1>2, <1>3, <1>4 DEF Elems
<1> QED
  BY <1>1, <1>5 DEF t

LEMMA NoElems == Elems(<<>>) = {} /\ <<>> \in Seq(Events) /\ Len(<<>>) = 0
  BY EmptySeq DEF Elems

LEMMA ElemsAreEvents ==
    StreamTypeOK => Elems(channel) \subseteq Events /\ Elems(buffered) \subseteq Events
<1> SUFFICES ASSUME StreamTypeOK
             PROVE  Elems(channel) \subseteq Events /\ Elems(buffered) \subseteq Events
  OBVIOUS
<1>1. channel \in Seq(Events) /\ buffered \in Seq(Events)
  BY DEF StreamTypeOK
<1> QED
  BY <1>1 DEF Elems

(* Nothing is older than every row.                                          *)
LEMMA NothingIsOldest ==
    ASSUME StreamTypeOK, RowsFit
    PROVE  Nothing \in Records /\ \A j \in Jobs : Version(row[j], Nothing)
<1>1. Nothing \in Records /\ Nothing.rev = 0 /\ Nothing.since = 0
  BY DEF Nothing, Records, States, NotThere
<1>2. ASSUME NEW j \in Jobs PROVE Version(row[j], Nothing)
  <2>1. /\ row[j].rev \in Nat /\ row[j].since \in Nat /\ row[j].since <= row[j].rev
        /\ row[j].rev = 0 => row[j] = Nothing
    BY DEF StreamTypeOK, RowsFit, Records
  <2> QED
    BY <1>1, <2>1 DEF Version
<1> QED
  BY <1>1, <1>2

(* The attempt of a job stays accounted for when nothing that tells of it    *)
(* goes away.                                                                *)
LEMMA AttemptStays ==
    ASSUME StreamInv, NEW k \in Jobs, row'[k].since = row[k].since,
           \A c \in Connections :
              /\ conn'[c].status = conn[c].status /\ conn'[c].rows = conn[c].rows
              /\ conn'[c].failed = conn[c].failed,
           Begun(k) => Begun(k)', Called(k) => Called(k)' \/ Begun(k)'
    PROVE  (Begun(k) \/ Called(k) \/ BegunInSnapshot(k) \/ Unconnected)'
<1>1. Begun(k) \/ Called(k) \/ BegunInSnapshot(k) \/ Unconnected
  BY DEF StreamInv, AttemptsAccounted
<1>2. BegunInSnapshot(k) => BegunInSnapshot(k)'
  BY DEF BegunInSnapshot
<1>3. Unconnected => Unconnected'
  BY DEF Unconnected
<1> QED
  BY <1>1, <1>2, <1>3

-----------------------------------------------------------------------------
LEMMA StreamInvInit == Init => StreamInv
<1> SUFFICES ASSUME Init PROVE StreamInv
  OBVIOUS
<1> USE DEF Nothing, NotThere, Records, States, AtRest, Terminal
<1>1. row \in [Jobs -> Records] /\ RowsFit
  <2>1. \A j \in Jobs : row[j] \in {Nothing} \cup [state : AtRest, rev : {1}, since : {1}]
    BY DEF Init
  <2>2. row \in [Jobs -> Records]
    BY <2>1 DEF Init
  <2>3. RowsFit
    BY <2>1 DEF RowsFit
  <2> QED
    BY <2>2, <2>3
<1>2. \A j \in Jobs, e \in Emitters : emitting[j][e] = NoEvent
  BY DEF Init
<1>3. \A j \in Jobs : call[j] = NoCall /\ view[j] = Nothing /\ missed[j] = 0 /\ seen[j] = 0
  BY DEF Init
<1>4. \A c \in Connections : conn[c] \in {Off, [Off EXCEPT !.status = "asked"]}
  BY DEF Init
<1>5. StreamTypeOK
  <2>1. emitting \in [Jobs -> [Emitters -> [rec : Records, seq : Nat]]]
    BY DEF Init, NoEvent
  <2>2. conn \in [Connections -> [status : Statuses, boundary : Nat, rows : [Jobs -> Records],
                                  failed : BOOLEAN]]
    BY DEF Init, Off, Statuses
  <2>3. call \in [Jobs -> [command : Commands \cup {"none"}, pc : Pcs, rec : Records]]
    BY DEF Init, NoCall, Pcs
  <2>4. channel \in Seq(Events) /\ buffered \in Seq(Events)
    BY NoElems DEF Init
  <2>5. view \in [Jobs -> Records] /\ seen \in [Jobs -> Nat] /\ missed \in [Jobs -> Nat]
    BY DEF Init
  <2>6. sequence \in Nat \ {0} /\ last \in Nat /\ lookups = {}
    BY DEF Init
  <2> QED
    BY <1>1, <2>1, <2>2, <2>3, <2>4, <2>5, <2>6 DEF StreamTypeOK
<1>6. Elems(channel) = {} /\ Elems(buffered) = {} /\ lookups = {}
  BY NoElems DEF Init
<1>7. QueueVersions
  BY <1>2, <1>6 DEF QueueVersions, Emits
<1>8. WindowVersions
  <2>0. \A j \in Jobs : row[j].rev \in Nat /\ row[j].since \in Nat
    BY <1>1
  <2>1. \A j \in Jobs : Version(row[j], call[j].rec) /\ Mixed(row[j], view[j], missed[j])
    <3>1. \A j \in Jobs : Version(row[j], call[j].rec)
      BY <1>1, <1>3, <1>5, NothingIsOldest DEF NoCall
    <3>2. \A j \in Jobs : Mixed(row[j], view[j], missed[j])
      BY <1>1, <1>3, <2>0 DEF Mixed, RowsFit
    <3> QED
      BY <3>1, <3>2
  <2>2. \A c \in Connections : conn[c].failed = FALSE /\ \A j \in Jobs : conn[c].rows[j] = Nothing
    BY <1>4 DEF Off
  <2>3. \A j \in Jobs : missed[j] <= row[j].rev
    BY <1>1, <1>3
  <2> QED
    BY <1>1, <1>5, <1>6, <2>1, <2>2, <2>3, NothingIsOldest DEF WindowVersions
<1>9. Numbered
  BY <1>2, <1>3, <1>4, <1>6 DEF Numbered, Init, NoEvent, Off
<1>10. Covers
  BY <1>4 DEF Covers, Off
<1>11. Accounted
  <2>1. CASE \E c \in Connections : conn[c].status = "asked"
    BY <2>1 DEF Accounted, InSnapshot
  <2>2. CASE \A c \in Connections : conn[c].status # "asked"
    BY <1>4, <2>2 DEF Accounted, Unconnected, Off
  <2> QED
    BY <2>1, <2>2
<1>12. Len(channel) <= Capacity
  BY NoElems, StreamAssumption DEF Init
<1>13. AnswersWait
  BY <1>2, <1>3 DEF AnswersWait, Emits, Emitters, NoCall
<1>14. AttemptsAccounted
  <2>1. CASE \E c \in Connections : conn[c].status = "asked"
    BY <2>1 DEF AttemptsAccounted, BegunInSnapshot
  <2>2. CASE \A c \in Connections : conn[c].status # "asked"
    BY <1>4, <2>2 DEF AttemptsAccounted, Unconnected, Off
  <2> QED
    BY <2>1, <2>2
<1> QED
  BY <1>1, <1>5, <1>7, <1>8, <1>9, <1>10, <1>11, <1>12, <1>13, <1>14 DEF StreamInv

-----------------------------------------------------------------------------
(* The queue.                                                                *)

(* A commit makes every version that is about an old one.                    *)
LEMMA CommitMakesOld ==
    ASSUME StreamTypeOK, RowsFit, NEW j \in Jobs, NEW rec \in Records,
           rec.rev = row[j].rev + 1, rec.since \in {row[j].since, rec.rev},
           row' = [row EXCEPT ![j] = rec]
    PROVE  /\ row' \in [Jobs -> Records] /\ RowsFit'
           /\ row'[j] = rec /\ \A k \in Jobs : k # j => row'[k] = row[k]
           /\ \A k \in Jobs : row[k].rev <= row'[k].rev /\ row[k].rev \in Nat
           /\ \A k \in Jobs, r \in Records, m \in Nat :
                 Mixed(row[k], r, m) => Mixed(row'[k], r, m)
           /\ \A k \in Jobs, r \in Records :
                 Version(row[k], r) => Version(row'[k], r) /\ (k = j => r # row'[k])
           /\ Version(row'[j], rec)
<1>1. row \in [Jobs -> Records]
  BY DEF StreamTypeOK
<1>2. ASSUME NEW r \in Records PROVE r.rev \in Nat /\ r.since \in Nat
  BY DEF Records
<1>3. \A k \in Jobs : row[k].rev \in Nat /\ row[k].since \in Nat /\ row[k].since <= row[k].rev
  BY <1>1, <1>2 DEF RowsFit
<1>4. /\ row' \in [Jobs -> Records] /\ row'[j] = rec
      /\ \A k \in Jobs : k # j => row'[k] = row[k]
  BY <1>1
<1>5. /\ rec.rev # 0 /\ row[j].rev < rec.rev /\ rec.since <= rec.rev
      /\ row[j].since <= rec.since
  BY <1>3
<1>6. RowsFit'
  BY <1>4, <1>5 DEF RowsFit
<1>7. \A k \in Jobs : row[k].rev <= row'[k].rev
  BY <1>3, <1>4, <1>5
<1>8. ASSUME NEW k \in Jobs, NEW r \in Records, Version(row[k], r)
      PROVE  Version(row'[k], r) /\ (k = j => r # row'[k])
  <2>1. CASE k # j
    BY <1>4, <1>8, <2>1
  <2>2. CASE k = j
    <3>1. /\ r.rev \in Nat /\ r.since \in Nat /\ rec.rev \in Nat /\ rec.since \in Nat
          /\ row[j].rev \in Nat /\ row[j].since \in Nat
      BY <1>2, <1>3
    <3>2. /\ r.rev <= row[j].rev /\ r.since <= r.rev
          /\ r.since = row[j].since \/ r.rev < row[j].since
      BY <1>8, <2>2 DEF Version
    <3>3. r.rev < rec.rev
      BY <1>5, <3>1, <3>2
    <3>4. r.since = rec.since \/ r.rev < rec.since
      BY <3>1, <3>2, <3>3
    <3> QED
      BY <1>4, <2>2, <3>1, <3>2, <3>3, <3>4 DEF Version
  <2> QED
    BY <2>1, <2>2
<1>9. Version(row'[j], rec)
  BY <1>2, <1>4, <1>5 DEF Version
<1>10. ASSUME NEW k \in Jobs, NEW r \in Records, NEW m \in Nat, Mixed(row[k], r, m)
       PROVE  Mixed(row'[k], r, m)
  <2>1. CASE k # j
    BY <1>4, <1>10, <2>1
  <2>2. CASE k = j
    <3>1. /\ r.rev \in Nat /\ r.since \in Nat /\ rec.rev \in Nat /\ rec.since \in Nat
          /\ row[j].rev \in Nat /\ row[j].since \in Nat
      BY <1>2, <1>3
    <3>2. r.rev <= row[j].rev /\ r.since <= row[j].since
      BY <1>10, <2>2 DEF Mixed
    <3>3. r.rev < rec.rev /\ r.since <= rec.since
      BY <1>5, <3>1, <3>2
    <3> QED
      BY <1>4, <1>10, <2>2, <3>1, <3>3 DEF Mixed
  <2> QED
    BY <2>1, <2>2
<1> QED
  BY <1>3, <1>4, <1>6, <1>7, <1>8, <1>9, <1>10

LEMMA CommitKeepsWindow ==
    ASSUME StreamInv, NEW j \in Jobs, NEW rec \in Records,
           rec.rev = row[j].rev + 1, rec.since \in {row[j].since, rec.rev},
           row' = [row EXCEPT ![j] = rec],
           UNCHANGED <<sequence, channel, window>>,
           call' \in [Jobs -> [command : Commands \cup {"none"}, pc : Pcs, rec : Records]],
           \A k \in Jobs : call'[k].rec = call[k].rec \/ (k = j /\ call'[k].rec = rec)
    PROVE  WindowVersions'
<1>1. StreamTypeOK /\ RowsFit /\ WindowVersions
  BY DEF StreamInv
<1>2. /\ \A k \in Jobs : row[k].rev <= row'[k].rev
      /\ \A k \in Jobs, r \in Records : Version(row[k], r) => Version(row'[k], r)
      /\ \A k \in Jobs, r \in Records, m \in Nat :
            Mixed(row[k], r, m) => Mixed(row'[k], r, m)
      /\ Version(row'[j], rec)
      /\ row' \in [Jobs -> Records] /\ row \in [Jobs -> Records] /\ missed \in [Jobs -> Nat]
  BY <1>1, CommitMakesOld DEF StreamTypeOK
<1>3. \A event \in Elems(buffered) : Change(row'[event.job], event.rec)
  BY <1>1, <1>2, ElemsAreEvents DEF WindowVersions, Change, Events
<1>4. \A l \in lookups : Version(row'[l.job], l.rec)
  BY <1>1, <1>2 DEF WindowVersions, StreamTypeOK
<1>5. \A k \in Jobs : Version(row'[k], call'[k].rec) /\ Mixed(row'[k], view[k], missed[k])
  BY <1>1, <1>2 DEF WindowVersions, StreamTypeOK
<1>6. \A c \in Connections, k \in Jobs : Version(row'[k], conn[c].rows[k])
  BY <1>1, <1>2 DEF WindowVersions, StreamTypeOK
<1>7. \A k \in Jobs : missed[k] <= row'[k].rev
  BY <1>1, <1>2 DEF WindowVersions, Records
<1>8. UNCHANGED <<buffered, lookups, view, conn, missed>>
  BY DEF window
<1> QED
  BY <1>1, <1>3, <1>4, <1>5, <1>6, <1>7, <1>8 DEF WindowVersions

(* The commit of another job leaves a job accounted for as it was.           *)
LEMMA CommitKeepsOthers ==
    ASSUME StreamInv, NEW j \in Jobs, NEW k \in Jobs, row'[k] = row[k],
           UNCHANGED <<channel, window>>, emitting'[k] = emitting[k],
           call'[k] = call[k]
    PROVE  (Shown(k) \/ InQueue(k) \/ InSnapshot(k) \/ InWindow(k) \/ InAnswer(k) \/ Unconnected)'
  BY DEF StreamInv, Accounted, Shown, InQueue, InSnapshot, InWindow, InAnswer, Unconnected,
     window, Emits

LEMMA CommitEmitsStep ==
    ASSUME StreamInv, NEW j \in Jobs, NEW e \in Emitters, NEW state \in States \ {NotThere},
           Commit(j, e, state), UNCHANGED <<sequence, channel, window>>,
           \/ e # "command" /\ UNCHANGED call
           \/ call[j].pc = "asked" /\ call' = [call EXCEPT ![j].pc = "emitting"]
    PROVE  StreamInv'
<1> DEFINE rec == [state |-> state, rev |-> row[j].rev + 1,
                   since |-> IF e = "command" /\ state = "queued" THEN row[j].rev + 1
                             ELSE row[j].since]
<1>1. StreamTypeOK /\ RowsFit /\ QueueVersions /\ Numbered /\ Covers
  BY DEF StreamInv
<1>2. /\ rec \in Records /\ rec.rev = row[j].rev + 1 /\ rec.state = state /\ rec # Nothing
      /\ rec.since \in {row[j].since, rec.rev} /\ (e # "command" => rec.since = row[j].since)
  BY <1>1 DEF StreamTypeOK, Records, Nothing
<1>3. /\ row' = [row EXCEPT ![j] = rec] /\ ~Emits(j, e)
      /\ emitting' = [emitting EXCEPT ![j][e] = [rec |-> rec, seq |-> 0]]
  BY DEF Commit
<1> HIDE DEF rec
<1>4. /\ row' \in [Jobs -> Records] /\ RowsFit'
      /\ row'[j] = rec /\ \A k \in Jobs : k # j => row'[k] = row[k]
      /\ \A k \in Jobs, r \in Records : Version(row[k], r) => Version(row'[k], r)
      /\ Version(row'[j], rec)
  BY <1>1, <1>2, <1>3, CommitMakesOld
<1>5. /\ emitting' \in [Jobs -> [Emitters -> [rec : Records, seq : Nat]]]
      /\ emitting'[j][e] = [rec |-> rec, seq |-> 0]
      /\ \A k \in Jobs, f \in Emitters : <<k, f>> # <<j, e>> => emitting'[k][f] = emitting[k][f]
  BY <1>1, <1>2, <1>3 DEF StreamTypeOK
<1>6. /\ call' \in [Jobs -> [command : Commands \cup {"none"}, pc : Pcs, rec : Records]]
      /\ \A k \in Jobs : call'[k].rec = call[k].rec /\ (k # j => call'[k] = call[k])
  <2>1. call \in [Jobs -> [command : Commands \cup {"none"}, pc : Pcs, rec : Records]]
    BY <1>1 DEF StreamTypeOK
  <2>2. CASE call' = [call EXCEPT ![j].pc = "emitting"]
    BY <2>1, <2>2 DEF Pcs
  <2> QED
    BY <2>1, <2>2
<1>7. StreamTypeOK'
  BY <1>1, <1>4, <1>5, <1>6 DEF StreamTypeOK, window
<1>8. WindowVersions'
  BY <1>2, <1>3, <1>6, CommitKeepsWindow
<1>9. QueueVersions'
  <2>1. ASSUME NEW k \in Jobs, NEW f \in Emitters, emitting'[k][f] # NoEvent
        PROVE  Change(row'[k], emitting'[k][f].rec)
    <3>1. CASE k = j /\ f = e
      BY <1>2, <1>4, <1>5, <3>1 DEF Change
    <3>2. CASE <<k, f>> # <<j, e>>
      <4>1. emitting'[k][f] = emitting[k][f] /\ emitting[k][f] # NoEvent
        BY <1>5, <2>1, <3>2
      <4>2. Change(row[k], emitting[k][f].rec)
        BY <1>1, <4>1 DEF QueueVersions, Emits
      <4>3. emitting[k][f].rec \in Records
        BY <1>1 DEF StreamTypeOK
      <4> QED
        BY <1>4, <4>1, <4>2, <4>3 DEF Change
    <3> QED
      BY <3>1, <3>2
  <2>2. \A event \in Elems(channel) : Change(row'[event.job], event.rec)
    BY <1>1, <1>4, ElemsAreEvents DEF QueueVersions, Change, Events
  <2> QED
    BY <2>1, <2>2 DEF QueueVersions, Emits
<1>10. Numbered'
  <2>1. ASSUME NEW k \in Jobs, NEW f \in Emitters PROVE emitting'[k][f].seq < sequence
    <3>1. CASE k = j /\ f = e
      BY <1>1, <1>5, <3>1 DEF StreamTypeOK
    <3> QED
      BY <1>1, <1>5, <3>1 DEF Numbered
  <2> QED
    BY <1>1, <2>1 DEF Numbered, window
<1>11. Covers'
  <2>1. ASSUME NEW c \in Connections, conn[c].status = "answered", conn[c].boundary > 0,
               NEW k \in Jobs, NEW f \in Emitters,
               emitting'[k][f] # NoEvent, emitting'[k][f].seq \in 1 .. conn[c].boundary
        PROVE  emitting'[k][f].rec.rev <= conn[c].rows[k].rev
    <3>1. <<k, f>> # <<j, e>>
      BY <1>5, <2>1
    <3>2. emitting'[k][f] = emitting[k][f]
      BY <1>5, <3>1
    <3> QED
      BY <1>1, <2>1, <3>2 DEF Covers, Emits
  <2> QED
    BY <1>1, <2>1 DEF Covers, window, Emits
<1>12. AnswersWait'
  <2>1. AnswersWait
    BY DEF StreamInv
  <2>2. CASE e # "command" /\ UNCHANGED call
    <3>1. \A k \in Jobs : row'[k].since = row[k].since
      BY <1>2, <1>4, <2>2
    <3>2. \A k \in Jobs : emitting'[k]["command"] = emitting[k]["command"]
      BY <1>5, <2>2 DEF Emitters
    <3> QED
      BY <2>1, <2>2, <3>1, <3>2 DEF AnswersWait, Emits
  <2>3. CASE call[j].pc = "asked" /\ call' = [call EXCEPT ![j].pc = "emitting"]
    <3>1. call'[j].pc = "emitting" /\ ~Emits(j, "command")
      BY <1>1, <2>1, <2>3 DEF AnswersWait, StreamTypeOK
    <3>2. emitting'[j]["command"] \in {emitting[j]["command"], [rec |-> rec, seq |-> 0]}
      BY <1>5 DEF Emitters
    <3>3. emitting'[j]["command"] # NoEvent => emitting'[j]["command"].rec.since = row'[j].since
      BY <1>4, <3>1, <3>2 DEF Emits
    <3>4. ASSUME NEW k \in Jobs, k # j
          PROVE  /\ emitting'[k]["command"] = emitting[k]["command"]
                 /\ row'[k] = row[k] /\ call'[k] = call[k]
      BY <1>4, <1>5, <1>6, <3>4 DEF Emitters
    <3> QED
      BY <2>1, <3>1, <3>3, <3>4 DEF AnswersWait, Emits
  <2> QED
    BY <2>2, <2>3
<1>13. Accounted'
  <2>1. InQueue(j)'
    BY <1>2, <1>4, <1>5 DEF InQueue, Emits, NoEvent
  <2>2. ASSUME NEW k \in Jobs, k # j
        PROVE  (Shown(k) \/ InQueue(k) \/ InSnapshot(k) \/ InWindow(k) \/ InAnswer(k)
                   \/ Unconnected)'
    <3>1. emitting'[k] = emitting[k]
      BY <1>1, <1>3, <2>2 DEF StreamTypeOK
    <3> QED
      BY <1>4, <1>6, <2>2, <3>1, CommitKeepsOthers
  <2> QED
    BY <2>1, <2>2 DEF Accounted
<1>14. AttemptsAccounted'
  <2> SUFFICES ASSUME NEW k \in Jobs
               PROVE  (Begun(k) \/ Called(k) \/ BegunInSnapshot(k) \/ Unconnected)'
    BY DEF AttemptsAccounted
  <2>1. CASE k = j /\ call' = [call EXCEPT ![j].pc = "emitting"]
    BY <1>1, <2>1 DEF Called, StreamTypeOK
  <2>2. CASE k # j \/ (e # "command" /\ UNCHANGED call)
    <3>1. row'[k].since = row[k].since /\ call'[k] = call[k]
      BY <1>2, <1>4, <1>6, <2>2
    <3>2. UNCHANGED <<conn, view, missed>>
      BY DEF window
    <3>3. (Begun(k) => Begun(k)') /\ (Called(k) => Called(k)')
      BY <3>1, <3>2 DEF Begun, Called
    <3> QED
      BY <3>1, <3>2, <3>3, AttemptStays
  <2> QED
    BY <2>1, <2>2
<1>15. Len(channel') <= Capacity
  BY DEF StreamInv
<1> QED
  BY <1>4, <1>7, <1>8, <1>9, <1>10, <1>11, <1>12, <1>13, <1>14, <1>15 DEF StreamInv

LEMMA DeleteStep == ASSUME StreamInv, NEW j \in Jobs, ExecuteDelete(j) PROVE StreamInv'
<1> DEFINE rec == [state |-> NotThere, rev |-> row[j].rev + 1, since |-> row[j].since]
<1>1. StreamTypeOK /\ RowsFit /\ QueueVersions /\ Numbered /\ Covers /\ AnswersWait
  BY DEF StreamInv
<1>2. rec \in Records /\ rec.rev = row[j].rev + 1 /\ rec.since = row[j].since
  BY <1>1 DEF StreamTypeOK, Records, States
<1>3. row' = [row EXCEPT ![j] = rec]
  BY <1>1 DEF ExecuteDelete, StreamTypeOK
<1> HIDE DEF rec
<1>4. /\ row' \in [Jobs -> Records] /\ RowsFit'
      /\ row'[j] = rec /\ \A k \in Jobs : k # j => row'[k] = row[k]
      /\ \A k \in Jobs, r \in Records : Version(row[k], r) => Version(row'[k], r)
  BY <1>1, <1>2, <1>3, CommitMakesOld
<1>5. /\ call' = [call EXCEPT ![j].pc = "answered", ![j].rec = rec] /\ call[j].pc = "asked"
      /\ UNCHANGED <<emitting, sequence, channel, window>>
  BY <1>4 DEF ExecuteDelete
<1>6. /\ call' \in [Jobs -> [command : Commands \cup {"none"}, pc : Pcs, rec : Records]]
      /\ call'[j].pc = "answered" /\ call'[j].rec = rec
      /\ \A k \in Jobs : k # j => call'[k] = call[k]
  BY <1>1, <1>2, <1>5 DEF StreamTypeOK, Pcs
<1>7. StreamTypeOK'
  BY <1>1, <1>4, <1>5, <1>6 DEF StreamTypeOK, window
<1>8. WindowVersions'
  <2>1. UNCHANGED <<sequence, channel, window>>
    BY <1>5
  <2>2. \A k \in Jobs : call'[k].rec = call[k].rec \/ (k = j /\ call'[k].rec = rec)
    BY <1>6
  <2> QED
    BY <1>2, <1>3, <1>6, <2>1, <2>2, CommitKeepsWindow
<1>9. QueueVersions'
  <2>1. ASSUME NEW k \in Jobs, NEW f \in Emitters, emitting[k][f] # NoEvent
        PROVE  Change(row'[k], emitting[k][f].rec)
    BY <1>1, <1>4, <2>1 DEF QueueVersions, StreamTypeOK, Emits, Change
  <2>2. \A event \in Elems(channel) : Change(row'[event.job], event.rec)
    BY <1>1, <1>4, ElemsAreEvents DEF QueueVersions, Change, Events
  <2> QED
    BY <1>5, <2>1, <2>2 DEF QueueVersions, Emits
<1>10. Numbered' /\ Covers' /\ AnswersWait'
  <2>1. Numbered' /\ Covers'
    BY <1>1, <1>5 DEF Numbered, Covers, window, Emits
  <2>2. \A k \in Jobs : row'[k].since = row[k].since
    BY <1>2, <1>4
  <2>3. ~Emits(j, "command")
    BY <1>1, <1>5 DEF AnswersWait
  <2>4. AnswersWait'
    BY <1>1, <1>2, <1>5, <1>6, <2>2, <2>3 DEF AnswersWait, Emits
  <2> QED
    BY <2>1, <2>4
<1>11. Accounted'
  <2>1. InAnswer(j)'
    BY <1>4, <1>6 DEF InAnswer
  <2>2. ASSUME NEW k \in Jobs, k # j
        PROVE  (Shown(k) \/ InQueue(k) \/ InSnapshot(k) \/ InWindow(k) \/ InAnswer(k)
                   \/ Unconnected)'
    BY <1>4, <1>5, <1>6, <2>2, CommitKeepsOthers
  <2> QED
    BY <2>1, <2>2 DEF Accounted
<1>12. Len(channel') <= Capacity
  BY <1>5 DEF StreamInv
<1>13. AttemptsAccounted'
  <2> SUFFICES ASSUME NEW k \in Jobs
               PROVE  (Begun(k) \/ Called(k) \/ BegunInSnapshot(k) \/ Unconnected)'
    BY DEF AttemptsAccounted
  <2>1. row'[k].since = row[k].since /\ UNCHANGED <<conn, view, missed>>
    BY <1>2, <1>4, <1>5 DEF window
  <2>2. (Begun(k) => Begun(k)') /\ (Called(k) => Called(k)')
    BY <1>6, <2>1 DEF Begun, Called
  <2> QED
    BY <2>1, <2>2, AttemptStays
<1> QED
  BY <1>4, <1>7, <1>8, <1>9, <1>10, <1>11, <1>12, <1>13 DEF StreamInv

LEMMA NumberStep ==
    ASSUME StreamInv, NEW j \in Jobs, NEW e \in Emitters, Number(j, e)
    PROVE  StreamInv'
<1>1. StreamTypeOK /\ RowsFit /\ QueueVersions /\ WindowVersions /\ Numbered /\ Covers
      /\ AnswersWait /\ Accounted
  BY DEF StreamInv
<1>2. /\ sequence' = sequence + 1 /\ sequence \in Nat \ {0}
      /\ emitting[j][e] # NoEvent
      /\ UNCHANGED <<row, channel, window, call>>
      /\ UNCHANGED <<conn, buffered, view, last, seen, lookups, missed>>
  BY <1>1 DEF Number, Emits, StreamTypeOK, window
<1>3. /\ emitting' \in [Jobs -> [Emitters -> [rec : Records, seq : Nat]]]
      /\ \A k \in Jobs, f \in Emitters :
            /\ emitting'[k][f].rec = emitting[k][f].rec
            /\ <<k, f>> # <<j, e>> => emitting'[k][f] = emitting[k][f]
      /\ emitting'[j][e].seq = sequence
  <2>1. /\ emitting \in [Jobs -> [Emitters -> [rec : Records, seq : Nat]]] /\ sequence \in Nat
        /\ emitting' = [emitting EXCEPT ![j][e].seq = sequence]
    BY <1>1 DEF Number, StreamTypeOK
  <2>2. emitting[j][e] \in [rec : Records, seq : Nat]
    BY <2>1
  <2>3. [emitting[j][e] EXCEPT !.seq = sequence] \in [rec : Records, seq : Nat]
    BY <2>1, <2>2
  <2>4. emitting' = [emitting EXCEPT ![j] = [emitting[j] EXCEPT ![e] =
                        [emitting[j][e] EXCEPT !.seq = sequence]]]
    BY <2>1
  <2> DEFINE r == [emitting[j][e] EXCEPT !.seq = sequence]
  <2>5. r.rec = emitting[j][e].rec /\ r.seq = sequence
    BY <2>2
  <2> HIDE DEF r
  <2> QED
    BY <2>1, <2>3, <2>4, <2>5 DEF r
<1>4. \A k \in Jobs, f \in Emitters : Emits(k, f)' <=> Emits(k, f)
  <2>1. emitting'[j][e] # NoEvent
    BY <1>2, <1>3 DEF NoEvent
  <2> QED
    BY <1>2, <1>3, <2>1 DEF Emits
<1>5. StreamTypeOK' /\ RowsFit'
  BY <1>1, <1>2, <1>3 DEF StreamTypeOK, RowsFit
<1>6. QueueVersions' /\ WindowVersions' /\ AnswersWait'
  <2>1. QueueVersions'
    BY <1>1, <1>2, <1>3, <1>4 DEF QueueVersions
  <2>2. WindowVersions'
    BY <1>1, <1>2 DEF WindowVersions
  <2>3. AnswersWait'
    <3>1. \A k \in Jobs : /\ Emits(k, "command")' <=> Emits(k, "command")
                          /\ emitting'[k]["command"].rec = emitting[k]["command"].rec
      BY <1>3, <1>4 DEF Emitters
    <3> QED
      BY <1>1, <1>2, <3>1 DEF AnswersWait
  <2> QED
    BY <2>1, <2>2, <2>3
<1>7. Numbered'
  <2>1. ASSUME NEW k \in Jobs, NEW f \in Emitters PROVE emitting'[k][f].seq < sequence + 1
    <3>1. emitting[k][f].seq < sequence /\ emitting[k][f].seq \in Nat
      BY <1>1 DEF Numbered, StreamTypeOK
    <3> QED
      BY <1>2, <1>3, <3>1
  <2>2. \A event \in Elems(channel) \cup Elems(buffered) : event.seq < sequence + 1
    BY <1>1, <1>2, ElemsAreEvents DEF Numbered, Events
  <2>3. /\ \A c \in Connections : conn[c].boundary < sequence + 1
        /\ last < sequence + 1 /\ \A k \in Jobs : seen[k] < sequence + 1
    BY <1>1, <1>2 DEF Numbered, StreamTypeOK
  <2> QED
    BY <1>2, <2>1, <2>2, <2>3 DEF Numbered
<1>8. Covers'
  <2>1. ASSUME NEW c \in Connections, conn[c].status = "answered", conn[c].boundary > 0,
               NEW k \in Jobs, NEW f \in Emitters,
               emitting'[k][f] # NoEvent, emitting'[k][f].seq \in 1 .. conn[c].boundary
        PROVE  emitting'[k][f].rec.rev <= conn[c].rows[k].rev
    <3>1. conn[c].boundary < sequence /\ conn[c].boundary \in Nat
      BY <1>1 DEF Numbered, StreamTypeOK
    <3>2. <<k, f>> # <<j, e>>
      BY <1>2, <1>3, <2>1, <3>1
    <3>3. emitting'[k][f] = emitting[k][f]
      BY <1>3, <3>2
    <3> QED
      BY <1>1, <2>1, <3>3 DEF Covers, Emits
  <2> QED
    BY <1>1, <1>2, <2>1 DEF Covers, Emits
<1>9. Accounted'
  <2> SUFFICES ASSUME NEW k \in Jobs
               PROVE  Shown(k)' \/ InQueue(k)' \/ InSnapshot(k)' \/ InWindow(k)' \/ InAnswer(k)'
                         \/ Unconnected'
    BY DEF Accounted
  <2>1. Shown(k) \/ InQueue(k) \/ InSnapshot(k) \/ InWindow(k) \/ InAnswer(k) \/ Unconnected
    BY DEF StreamInv, Accounted
  <2>2. InQueue(k) => InQueue(k)'
    <3>1. ASSUME NEW f \in Emitters, Emits(k, f), emitting[k][f].rec = row[k]
          PROVE  Emits(k, f)' /\ emitting'[k][f].rec = row'[k]
      <4>1. emitting'[k][f].rec = emitting[k][f].rec
        BY <1>3
      <4> QED
        BY <1>2, <1>4, <3>1, <4>1
    <3> QED
      BY <1>2, <3>1 DEF InQueue
  <2>3. (Shown(k) => Shown(k)') /\ (InAnswer(k) => InAnswer(k)')
    BY <1>2 DEF Shown, InAnswer
  <2>4. (InSnapshot(k) => InSnapshot(k)') /\ (Unconnected => Unconnected')
    BY <1>2 DEF InSnapshot, Unconnected
  <2>5. InWindow(k) => InWindow(k)'
    BY <1>2 DEF InWindow
  <2> QED
    BY <2>1, <2>2, <2>3, <2>4, <2>5
<1>10. Len(channel') <= Capacity
  BY <1>2 DEF StreamInv
<1>11. AttemptsAccounted'
  BY <1>2 DEF StreamInv, AttemptsAccounted, Begun, Called, BegunInSnapshot, Unconnected
<1> QED
  BY <1>5, <1>6, <1>7, <1>8, <1>9, <1>10, <1>11 DEF StreamInv

(* The channel takes an event, and what it drops is counted as missed.       *)
LEMMA SendStep ==
    ASSUME StreamInv, NEW j \in Jobs, NEW e \in Emitters, Send(j, e)
    PROVE  StreamInv'
<1> DEFINE event == [job |-> j, rec |-> emitting[j][e].rec, seq |-> emitting[j][e].seq]
           head == Head(channel)
<1>1. StreamTypeOK /\ RowsFit /\ QueueVersions /\ WindowVersions /\ Numbered /\ Covers
      /\ AnswersWait /\ Accounted /\ Len(channel) <= Capacity
  BY DEF StreamInv
<1>2. /\ event \in Events /\ event.job = j
      /\ event.rec = emitting[j][e].rec /\ event.seq = emitting[j][e].seq
      /\ event.rec \in Records
      /\ emitting[j][e] # NoEvent /\ emitting[j][e].seq > 0
      /\ UNCHANGED <<row, sequence, conn, buffered, view, last, seen, lookups>>
  BY <1>1 DEF Send, Emits, StreamTypeOK, Events
<1>3. /\ emitting' \in [Jobs -> [Emitters -> [rec : Records, seq : Nat]]]
      /\ \A k \in Jobs, f \in Emitters :
            <<k, f>> # <<j, e>> => emitting'[k][f] = emitting[k][f]
      /\ emitting'[j][e] = NoEvent
  <2>1. NoEvent \in [rec : Records, seq : Nat]
    BY DEF NoEvent, Nothing, Records, States, NotThere
  <2> QED
    BY <1>1, <2>1 DEF Send, StreamTypeOK
<1>4. \/ /\ Len(channel) < Capacity /\ channel' = Append(channel, event) /\ UNCHANGED missed
      \/ /\ Len(channel) >= Capacity /\ channel' = Append(Tail(channel), event) /\ Lose(head)
  <2>1. channel \in Seq(Events)
    BY <1>1 DEF StreamTypeOK
  <2>2. Len(channel) \in Nat /\ Capacity \in Nat
    BY <2>1, LenProperties, StreamAssumption
  <2> QED
    BY <2>2 DEF Send
<1>5. /\ call' \in [Jobs -> [command : Commands \cup {"none"}, pc : Pcs, rec : Records]]
      /\ \A k \in Jobs : call'[k].rec = call[k].rec \/ (k = j /\ call'[k].rec = event.rec)
      /\ \A k \in Jobs : call[k].pc = "answered" => call'[k] = call[k]
      /\ \A k \in Jobs :
            \/ call'[k] = call[k]
            \/ /\ k = j /\ e = "command" /\ call'[k].pc = "answered"
               /\ call'[k].rec = event.rec
  <2>1. call \in [Jobs -> [command : Commands \cup {"none"}, pc : Pcs, rec : Records]]
    BY <1>1 DEF StreamTypeOK
  <2>2. CASE e # "command"
    BY <2>1, <2>2 DEF Send
  <2>3. CASE e = "command"
    <3>1. call' = [call EXCEPT ![j].pc = "answered", ![j].rec = event.rec]
      BY <2>3 DEF Send
    <3>2. call[j].pc = "emitting"
      BY <1>1, <1>2, <2>3 DEF AnswersWait, Emits
    <3> HIDE DEF event
    <3>3. call[j] \in [command : Commands \cup {"none"}, pc : Pcs, rec : Records]
      BY <2>1
    <3> DEFINE r == [call[j] EXCEPT !.pc = "answered", !.rec = event.rec]
    <3>4. /\ r \in [command : Commands \cup {"none"}, pc : Pcs, rec : Records]
          /\ r.pc = "answered" /\ r.rec = event.rec
      BY <1>2, <3>3 DEF Pcs
    <3>5. call' = [call EXCEPT ![j] = r]
      BY <3>1
    <3> HIDE DEF r
    <3> QED
      BY <2>1, <2>3, <3>2, <3>4, <3>5
  <2> QED
    BY <2>2, <2>3
<1>6. Change(row[j], event.rec)
  BY <1>1, <1>2 DEF QueueVersions, Emits
<1> HIDE DEF event
<1>7. /\ channel' \in Seq(Events) /\ Len(channel') <= Capacity
      /\ Elems(channel') \subseteq Elems(channel) \cup {event}
      /\ missed' \in [Jobs -> Nat]
      /\ \A k \in Jobs : missed'[k] >= missed[k] /\ missed'[k] <= row[k].rev
      /\ \A other \in Elems(channel) \cup {event} :
            other \in Elems(channel') \/ missed'[other.job] >= other.rec.rev
  <2>1. /\ channel \in Seq(Events) /\ missed \in [Jobs -> Nat] /\ row \in [Jobs -> Records]
        /\ \A k \in Jobs : missed[k] <= row[k].rev
    BY <1>1 DEF StreamTypeOK, WindowVersions
  <2>2. CASE Len(channel) < Capacity /\ channel' = Append(channel, event) /\ UNCHANGED missed
    <3>1. /\ channel' \in Seq(Events) /\ Len(channel') = Len(channel) + 1 /\ Len(channel) \in Nat
          /\ Elems(channel') = Elems(channel) \cup {event}
      BY <1>2, <2>1, <2>2, AppendElems
    <3> QED
      BY <2>1, <2>2, <3>1, StreamAssumption
  <2>3. CASE Len(channel) >= Capacity /\ channel' = Append(Tail(channel), event) /\ Lose(head)
    <3>1. channel # <<>>
      BY <2>3, NoElems, StreamAssumption
    <3>2. /\ Tail(channel) \in Seq(Events) /\ Len(channel) \in Nat
          /\ Len(Tail(channel)) = Len(channel) - 1
          /\ head \in Elems(channel) /\ Elems(channel) \subseteq Events
          /\ Elems(Tail(channel)) \subseteq Elems(channel)
          /\ Elems(channel) \subseteq Elems(Tail(channel)) \cup {head}
      BY <2>1, <3>1, TailElems
    <3>3. /\ channel' \in Seq(Events) /\ Len(channel') = Len(Tail(channel)) + 1
          /\ Elems(channel') = Elems(Tail(channel)) \cup {event}
      <4> DEFINE t == Tail(channel)
      <4>1. t \in Seq(Events) /\ channel' = Append(t, event)
        BY <2>3, <3>2
      <4> HIDE DEF t
      <4>2. /\ channel' \in Seq(Events) /\ Len(channel') = Len(t) + 1
            /\ Elems(channel') = Elems(t) \cup {event}
        BY <1>2, <4>1, AppendElems
      <4> QED
        BY <4>2 DEF t
    <3>4. head \in Events /\ head.job \in Jobs /\ head.rec.rev \in Nat
          /\ head.rec.rev <= row[head.job].rev
      BY <1>1, <3>2 DEF QueueVersions, Change, Version, Events, Records
    <3> HIDE DEF head
    <3>5. missed' = [missed EXCEPT ![head.job] = Larger(@, head.rec.rev)]
      BY <2>3 DEF Lose
    <3>6. /\ missed' \in [Jobs -> Nat]
          /\ \A k \in Jobs : missed'[k] >= missed[k] /\ missed'[k] <= row[k].rev
          /\ missed'[head.job] >= head.rec.rev
      BY <2>1, <3>4, <3>5 DEF Larger, Records
    <3> QED
      BY <1>1, <3>2, <3>3, <3>6
  <2> QED
    BY <1>4, <2>2, <2>3
<1>8. StreamTypeOK' /\ RowsFit'
  BY <1>1, <1>2, <1>3, <1>5, <1>7 DEF StreamTypeOK, RowsFit
<1>9. QueueVersions'
  <2>1. ASSUME NEW k \in Jobs, NEW f \in Emitters, emitting'[k][f] # NoEvent
        PROVE  Change(row[k], emitting'[k][f].rec)
    BY <1>1, <1>3, <2>1 DEF QueueVersions, Emits
  <2>2. \A other \in Elems(channel') : Change(row[other.job], other.rec)
    BY <1>1, <1>2, <1>6, <1>7 DEF QueueVersions
  <2> QED
    BY <1>2, <2>1, <2>2 DEF QueueVersions, Emits
<1>10. WindowVersions'
  <2>1. \A k \in Jobs : Version(row[k], call'[k].rec)
    BY <1>1, <1>5, <1>6 DEF WindowVersions, Change
  <2>2. \A k \in Jobs : Mixed(row[k], view[k], missed'[k])
    <3>1. \A k \in Jobs : /\ missed[k] \in Nat /\ missed'[k] \in Nat /\ view[k].since \in Nat
                          /\ missed'[k] >= missed[k] /\ Mixed(row[k], view[k], missed[k])
      BY <1>1, <1>7 DEF StreamTypeOK, Records, WindowVersions
    <3> QED
      BY <3>1 DEF Mixed
  <2> QED
    BY <1>1, <1>2, <1>7, <2>1, <2>2 DEF WindowVersions
<1>11. Numbered'
  <2>1. \A k \in Jobs, f \in Emitters : emitting'[k][f].seq < sequence
    <3>1. sequence > 0 /\ emitting'[j][e].seq = 0
      BY <1>1, <1>3 DEF NoEvent, StreamTypeOK
    <3> QED
      BY <1>1, <1>3, <3>1 DEF Numbered
  <2>2. event.seq < sequence
    BY <1>1, <1>2 DEF Numbered
  <2>3. \A other \in Elems(channel') \cup Elems(buffered) : other.seq < sequence
    BY <1>1, <1>7, <2>2 DEF Numbered
  <2> QED
    BY <1>1, <1>2, <2>1, <2>3 DEF Numbered
<1>12. Covers'
  <2> SUFFICES ASSUME NEW c \in Connections, conn[c].status = "answered", conn[c].boundary > 0
               PROVE  /\ \A other \in Elems(channel') :
                            other.seq <= conn[c].boundary =>
                               other.rec.rev <= conn[c].rows[other.job].rev
                      /\ \A k \in Jobs, f \in Emitters :
                            emitting'[k][f] # NoEvent
                               /\ emitting'[k][f].seq \in 1 .. conn[c].boundary =>
                            emitting'[k][f].rec.rev <= conn[c].rows[k].rev
    BY <1>2 DEF Covers, Emits
  <2>1. conn[c].boundary \in Nat /\ event.seq \in Nat
    BY <1>1, <1>2 DEF StreamTypeOK, Events
  <2>2. event.seq <= conn[c].boundary => event.rec.rev <= conn[c].rows[j].rev
    BY <1>1, <1>2, <2>1 DEF Covers, Emits
  <2>3. \A other \in Elems(channel') :
           other.seq <= conn[c].boundary => other.rec.rev <= conn[c].rows[other.job].rev
    BY <1>1, <1>2, <1>7, <2>2 DEF Covers
  <2>4. \A k \in Jobs, f \in Emitters :
           emitting'[k][f] # NoEvent /\ emitting'[k][f].seq \in 1 .. conn[c].boundary =>
           emitting'[k][f].rec.rev <= conn[c].rows[k].rev
    <3>1. ASSUME NEW k \in Jobs, NEW f \in Emitters, emitting'[k][f] # NoEvent
          PROVE  emitting'[k][f] = emitting[k][f] /\ Emits(k, f)
      BY <1>3, <3>1 DEF Emits
    <3> QED
      BY <1>1, <3>1 DEF Covers
  <2> QED
    BY <2>3, <2>4
<1>13. AnswersWait'
  <2> SUFFICES ASSUME NEW k \in Jobs
               PROVE  /\ emitting'[k]["command"] # NoEvent =>
                            /\ call'[k].pc = "emitting"
                            /\ emitting'[k]["command"].rec.since = row[k].since
                      /\ call'[k].pc = "answered" => call'[k].rec.since = row[k].since
    BY <1>2 DEF AnswersWait, Emits
  <2>1. CASE k = j /\ e = "command"
    <3>1. emitting'[k]["command"] = NoEvent
      BY <1>3, <2>1
    <3>2. emitting[k]["command"].rec.since = row[k].since
      BY <1>1, <1>2, <2>1 DEF AnswersWait, Emits
    <3>3. call[k].pc = "answered" => call[k].rec.since = row[k].since
      BY <1>1 DEF AnswersWait
    <3> QED
      BY <1>2, <1>5, <2>1, <3>1, <3>2, <3>3
  <2>2. CASE <<k, "command">> # <<j, e>>
    BY <1>1, <1>3, <1>5, <2>2 DEF AnswersWait, Emits, Emitters
  <2> QED
    BY <2>1, <2>2
<1>14. Accounted'
  <2> SUFFICES ASSUME NEW k \in Jobs
               PROVE  (Shown(k) \/ InQueue(k) \/ InSnapshot(k) \/ InWindow(k) \/ InAnswer(k)
                          \/ Unconnected)'
    BY DEF Accounted
  <2>1. ASSUME Shown(k) PROVE Shown(k)'
    <3>1. /\ row' = row /\ view' = view /\ missed'[k] >= missed[k]
          /\ row[k] \in Records /\ missed[k] \in Nat /\ missed'[k] \in Nat
      BY <1>1, <1>2, <1>7 DEF StreamTypeOK
    <3>2. row[k].rev \in Nat
      BY <3>1 DEF Records
    <3>3. missed[k] > 0 /\ missed[k] >= row[k].rev => missed'[k] > 0 /\ missed'[k] >= row[k].rev
      BY <3>1, <3>2
    <3> QED
      BY <2>1, <3>1, <3>3 DEF Shown
  <2>2. ASSUME NEW other \in Elems(channel) \cup {event}, other.job = k, other.rec = row[k]
        PROVE  Shown(k)' \/ InQueue(k)'
    <3>1. CASE other \in Elems(channel')
      BY <1>2, <2>2, <3>1 DEF InQueue
    <3>2. CASE missed'[k] >= row[k].rev
      <4>1. row[k].state # NotThere
        BY <1>1, <1>2, <1>6, <2>2 DEF QueueVersions, Change
      <4>2. row[k].rev > 0 /\ row[k].rev \in Nat /\ missed'[k] \in Nat
        <5>1. row[k].rev # 0
          BY <1>1, <4>1 DEF RowsFit, Nothing
        <5>2. row[k].rev \in Nat /\ missed'[k] \in Nat
          BY <1>1, <1>7 DEF StreamTypeOK, Records
        <5> QED
          BY <5>1, <5>2
      <4> QED
        BY <1>2, <3>2, <4>2 DEF Shown
    <3> QED
      BY <1>7, <2>2, <3>1, <3>2
  <2>3. ASSUME InQueue(k) PROVE Shown(k)' \/ InQueue(k)'
    <3>1. CASE \E f \in Emitters : Emits(k, f) /\ emitting[k][f].rec = row[k]
      <4>1. PICK f \in Emitters : Emits(k, f) /\ emitting[k][f].rec = row[k]
        BY <3>1
      <4>2. CASE k = j /\ f = e
        BY <1>2, <2>2, <4>1, <4>2
      <4>3. CASE <<k, f>> # <<j, e>>
        BY <1>2, <1>3, <4>1, <4>3 DEF InQueue, Emits
      <4> QED
        BY <4>2, <4>3
    <3> QED
      BY <2>2, <2>3, <3>1 DEF InQueue
  <2>4. InSnapshot(k) \/ InWindow(k) \/ InAnswer(k) \/ Unconnected
           => (InSnapshot(k) \/ InWindow(k) \/ InAnswer(k) \/ Unconnected)'
    BY <1>2, <1>5 DEF InSnapshot, InWindow, InAnswer, Unconnected
  <2> QED
    BY <1>1, <2>1, <2>3, <2>4 DEF Accounted
<1>15. AttemptsAccounted'
  <2> SUFFICES ASSUME NEW k \in Jobs
               PROVE  (Begun(k) \/ Called(k) \/ BegunInSnapshot(k) \/ Unconnected)'
    BY DEF AttemptsAccounted
  <2>1. Called(k) => Called(k)'
    BY <1>5 DEF Called
  <2>2. Begun(k) => Begun(k)'
    <3>1. /\ row[k].since \in Nat /\ missed[k] \in Nat /\ missed'[k] \in Nat
          /\ missed'[k] >= missed[k]
      BY <1>1, <1>7 DEF StreamTypeOK, Records
    <3> QED
      BY <1>2, <3>1 DEF Begun
  <2> QED
    BY <1>2, <2>1, <2>2, AttemptStays
<1> QED
  BY <1>7, <1>8, <1>9, <1>10, <1>11, <1>12, <1>13, <1>14, <1>15 DEF StreamInv

(* The calls of a command that change nothing else.                          *)
LEMMA CallStep ==
    ASSUME StreamInv, NEW j \in Jobs, UNCHANGED <<backend, window>>,
           call' \in [Jobs -> [command : Commands \cup {"none"}, pc : Pcs, rec : Records]],
           \A k \in Jobs : k # j => call'[k] = call[k],
           call[j].pc \notin {"emitting", "answered"}, Version(row[j], call'[j].rec),
           call'[j].pc = "answered" => call'[j].rec = row[j]
    PROVE  StreamInv'
<1>1. StreamTypeOK /\ RowsFit /\ QueueVersions /\ WindowVersions /\ Numbered /\ Covers
      /\ AnswersWait /\ Accounted /\ AttemptsAccounted /\ Len(channel) <= Capacity
  BY DEF StreamInv
<1>2. UNCHANGED <<row, emitting, sequence, channel, conn, buffered, view, last, seen, lookups,
                  missed>>
  BY DEF backend, window
<1>3. StreamTypeOK' /\ RowsFit' /\ QueueVersions' /\ Numbered' /\ Covers'
      /\ Len(channel') <= Capacity
  BY <1>1, <1>2 DEF StreamTypeOK, RowsFit, QueueVersions, Numbered, Covers, Emits
<1>4. WindowVersions' /\ AnswersWait'
  <2>1. \A k \in Jobs : Version(row[k], call'[k].rec)
    BY <1>1 DEF WindowVersions
  <2>2. WindowVersions'
    BY <1>1, <1>2, <2>1 DEF WindowVersions
  <2>3. AnswersWait'
    BY <1>1, <1>2 DEF AnswersWait, Emits
  <2> QED
    BY <2>2, <2>3
<1>5. Accounted'
  BY <1>1, <1>2 DEF Accounted, Shown, InQueue, InSnapshot, InWindow, InAnswer, Unconnected, Emits
<1>6. AttemptsAccounted'
  BY <1>1, <1>2 DEF AttemptsAccounted, Begun, Called, BegunInSnapshot, Unconnected
<1> QED
  BY <1>3, <1>4, <1>5, <1>6 DEF StreamInv

LEMMA CommandStep ==
    ASSUME StreamInv, NEW j \in Jobs,
           \/ ExecutePause(j) \/ PauseReturns(j) \/ Refuse(j)
           \/ \E command \in Commands : Call(j, command)
    PROVE  StreamInv'
<1>1. /\ StreamTypeOK /\ RowsFit /\ WindowVersions
      /\ call \in [Jobs -> [command : Commands \cup {"none"}, pc : Pcs, rec : Records]]
      /\ row[j] \in Records /\ Version(row[j], call[j].rec) /\ Version(row[j], row[j])
      /\ Version(row[j], Nothing) /\ Nothing \in Records
  <2>1. StreamTypeOK /\ RowsFit /\ WindowVersions
    BY DEF StreamInv
  <2>2. row[j] \in Records /\ Version(row[j], row[j])
    <3>1. row[j] \in Records /\ row[j].since <= row[j].rev
      BY <2>1 DEF StreamTypeOK, RowsFit
    <3> QED
      BY <3>1 DEF Version, Records
  <2>3. call \in [Jobs -> [command : Commands \cup {"none"}, pc : Pcs, rec : Records]]
    BY <2>1 DEF StreamTypeOK
  <2> QED
    BY <2>1, <2>2, <2>3, NothingIsOldest DEF WindowVersions
<1>2. UNCHANGED <<backend, window>>
  BY DEF ExecutePause, PauseReturns, Refuse, Call
<1> DEFINE Record == [command : Commands \cup {"none"}, pc : Pcs, rec : Records]
<1>3. ASSUME NEW r \in Record, call' = [call EXCEPT ![j] = r], Version(row[j], r.rec),
             call[j].pc \notin {"emitting", "answered"}, r.pc = "answered" => r.rec = row[j]
      PROVE  StreamInv'
  <2>1. /\ call' \in [Jobs -> [command : Commands \cup {"none"}, pc : Pcs, rec : Records]]
        /\ call'[j] = r /\ \A k \in Jobs : k # j => call'[k] = call[k]
    BY <1>1, <1>3
  <2> QED
    BY <1>2, <1>3, <2>1, CallStep
<1>4. CASE ExecutePause(j)
  <2> DEFINE r == [call[j] EXCEPT !.pc = "waiting"]
  <2>1. r \in Record /\ r.rec = call[j].rec /\ r.pc = "waiting"
    BY <1>1 DEF Pcs
  <2>2. call' = [call EXCEPT ![j] = r] /\ call[j].pc = "asked"
    BY <1>4 DEF ExecutePause
  <2> HIDE DEF r
  <2> QED
    BY <1>1, <1>3, <2>1, <2>2
<1>5. CASE PauseReturns(j)
  <2> DEFINE r == [call[j] EXCEPT !.pc = "answered", !.rec = row[j]]
  <2>1. r \in Record /\ r.rec = row[j]
    BY <1>1 DEF Pcs
  <2>2. call' = [call EXCEPT ![j] = r] /\ call[j].pc = "waiting"
    BY <1>5 DEF PauseReturns
  <2> HIDE DEF r
  <2> QED
    BY <1>1, <1>3, <2>1, <2>2
<1>6. CASE Refuse(j)
  <2>1. NoCall \in Record /\ NoCall.rec = Nothing /\ NoCall.pc = "idle"
    BY <1>1 DEF NoCall, Pcs
  <2>2. call' = [call EXCEPT ![j] = NoCall] /\ call[j].pc = "asked"
    BY <1>6 DEF Refuse
  <2> QED
    BY <1>1, <1>3, <2>1, <2>2
<1>7. ASSUME NEW command \in Commands, Call(j, command) PROVE StreamInv'
  <2> DEFINE r == [command |-> command, pc |-> "asked", rec |-> Nothing]
  <2>1. r \in Record /\ r.rec = Nothing /\ r.pc = "asked"
    BY <1>1 DEF Pcs
  <2>2. call' = [call EXCEPT ![j] = r] /\ call[j].pc = "idle"
    BY <1>7 DEF Call, NoCall
  <2> HIDE DEF r
  <2> QED
    BY <1>1, <1>3, <2>1, <2>2
<1> QED
  BY <1>4, <1>5, <1>6, <1>7

(* What the queue and its commands do.                                       *)
LEMMA QueueStep ==
    ASSUME StreamInv, NEW j \in Jobs,
           \/ Claim(j) \/ \E s \in {"running", "paused"} \cup Terminal : Drive(j, s)
           \/ \E e \in Emitters : Number(j, e) \/ Send(j, e)
           \/ Execute(j) \/ ExecuteDelete(j)
    PROVE  StreamInv'
<1>1. CASE Claim(j)
  <2>1. "scheduler" \in Emitters /\ "running" \in States \ {NotThere}
    BY DEF Emitters, States, NotThere
  <2> QED
    BY <1>1, <2>1, CommitEmitsStep DEF Claim
<1>2. ASSUME NEW s \in {"running", "paused"} \cup Terminal, Drive(j, s) PROVE StreamInv'
  <2>1. "driver" \in Emitters /\ s \in States \ {NotThere}
    BY DEF Emitters, States, NotThere, Terminal
  <2> QED
    BY <1>2, <2>1, CommitEmitsStep DEF Drive
<1>3. CASE Execute(j)
  <2> DEFINE s == IF call[j].command = "pause" THEN "paused" ELSE "queued"
  <2>1. "command" \in Emitters /\ s \in States \ {NotThere}
    BY DEF Emitters, States, NotThere
  <2>2. /\ Commit(j, "command", s) /\ UNCHANGED <<sequence, channel, window>>
        /\ call[j].pc = "asked" /\ call' = [call EXCEPT ![j].pc = "emitting"]
    BY <1>3 DEF Execute
  <2> HIDE DEF s
  <2> QED
    BY <2>1, <2>2, CommitEmitsStep
<1> QED
  BY <1>1, <1>2, <1>3, NumberStep, SendStep, DeleteStep

-----------------------------------------------------------------------------
(* The window.                                                               *)

ViewKeeps ==
    /\ view' \in [Jobs -> Records] /\ missed' \in [Jobs -> Nat]
    /\ \A k \in Jobs : Mixed(row[k], view'[k], missed'[k]) /\ missed'[k] <= row[k].rev
    /\ \A k \in Jobs : (Shown(k) => Shown(k)') /\ (Begun(k) => Begun(k)')

LEMMA ViewStays ==
    ASSUME StreamInv, UNCHANGED <<row, view, missed>>
    PROVE  ViewKeeps
  BY DEF StreamInv, StreamTypeOK, WindowVersions, ViewKeeps, Shown, Begun

(* What the controller may take: a version, or what an event makes of the    *)
(* job that is shown.                                                        *)
Taken(j, rec) ==
    \/ Version(row[j], rec)
    \/ /\ rec.rev <= row[j].rev /\ (rec.rev = row[j].rev => rec.state = row[j].state)
       /\ rec.since = view[j].since

(* A version that is shown or dropped leaves the newest one shown, or counts *)
(* it as missed.                                                             *)
LEMMA ShowOrDrop ==
    ASSUME StreamInv, UNCHANGED row, NEW j \in Jobs, NEW rec \in Records,
           Taken(j, rec), Show(j, rec) \/ Drop(j, rec)
    PROVE  /\ ViewKeeps
           /\ rec.rev = row[j].rev => Shown(j)'
           /\ rec.since = row[j].since => Begun(j)'
<1>1. /\ view \in [Jobs -> Records] /\ missed \in [Jobs -> Nat] /\ row \in [Jobs -> Records]
      /\ \A k \in Jobs : Mixed(row[k], view[k], missed[k]) /\ missed[k] <= row[k].rev
  BY DEF StreamInv, StreamTypeOK, WindowVersions
<1>2. /\ view[j] \in Records /\ row[j] \in Records /\ missed[j] \in Nat
      /\ missed[j] <= row[j].rev
  BY <1>1
<1>3. /\ rec.rev \in Nat /\ rec.since \in Nat /\ view[j].rev \in Nat /\ view[j].since \in Nat
      /\ row[j].rev \in Nat /\ row[j].since \in Nat
  BY <1>2 DEF Records
<1>4. /\ view[j].rev <= row[j].rev
      /\ view[j].rev = row[j].rev => view[j].state = row[j].state
      /\ view[j].since <= row[j].since
      /\ view[j].since <= view[j].rev \/ view[j].since <= missed[j]
  BY <1>1 DEF Mixed
<1>5. /\ rec.rev <= row[j].rev /\ (rec.rev = row[j].rev => rec.state = row[j].state)
      /\ \/ rec.since = view[j].since
         \/ rec.since <= rec.rev /\ (rec.since = row[j].since \/ rec.rev < row[j].since)
  BY DEF Taken, Version
<1>6. PICK m \in Nat :
         /\ missed' = [missed EXCEPT ![j] = m] /\ m >= missed[j] /\ m <= row[j].rev
         /\ \/ view' = [view EXCEPT ![j] = rec] /\ (rec.rev < view[j].rev => m >= view[j].rev)
            \/ view' = view
                  /\ (rec.rev > view[j].rev \/ rec.since # view[j].since => m >= rec.rev)
  <2>1. missed = [missed EXCEPT ![j] = missed[j]]
    BY <1>1
  <2>2. CASE Show(j, rec) /\ rec.rev < view[j].rev
    <3>1. /\ Larger(missed[j], view[j].rev) \in Nat
          /\ Larger(missed[j], view[j].rev) >= missed[j]
          /\ Larger(missed[j], view[j].rev) >= view[j].rev
          /\ Larger(missed[j], view[j].rev) <= row[j].rev
      BY <1>2, <1>3, <1>4 DEF Larger
    <3>2. missed' = [missed EXCEPT ![j] = Larger(missed[j], view[j].rev)]
      BY <2>2 DEF Show
    <3> QED
      BY <2>2, <3>1, <3>2 DEF Show
  <2>3. CASE Show(j, rec) /\ ~(rec.rev < view[j].rev)
    <3>1. missed' = missed /\ view' = [view EXCEPT ![j] = rec]
      BY <2>3 DEF Show
    <3> QED
      BY <1>2, <1>3, <2>1, <2>3, <3>1
  <2>4. CASE Drop(j, rec) /\ (rec.rev > view[j].rev \/ rec.since # view[j].since)
    <3>1. /\ Larger(missed[j], rec.rev) \in Nat
          /\ Larger(missed[j], rec.rev) >= missed[j] /\ Larger(missed[j], rec.rev) >= rec.rev
          /\ Larger(missed[j], rec.rev) <= row[j].rev
      BY <1>2, <1>3, <1>5 DEF Larger
    <3>2. missed' = [missed EXCEPT ![j] = Larger(missed[j], rec.rev)] /\ view' = view
      BY <2>4 DEF Drop
    <3> QED
      BY <3>1, <3>2
  <2>5. CASE Drop(j, rec) /\ ~(rec.rev > view[j].rev \/ rec.since # view[j].since)
    <3>1. missed' = missed /\ view' = view
      BY <2>5 DEF Drop
    <3> QED
      BY <1>2, <1>3, <2>1, <2>5, <3>1
  <2> QED
    BY <2>2, <2>3, <2>4, <2>5
<1>7. /\ view' \in [Jobs -> Records] /\ missed' \in [Jobs -> Nat] /\ missed'[j] = m
      /\ \A k \in Jobs : k # j => view'[k] = view[k] /\ missed'[k] = missed[k]
      /\ \/ view'[j] = rec /\ (rec.rev < view[j].rev => m >= view[j].rev)
         \/ view'[j] = view[j]
               /\ (rec.rev > view[j].rev \/ rec.since # view[j].since => m >= rec.rev)
  BY <1>1, <1>6
<1> DEFINE shown == view[j]
           after == view'[j]
           now   == row[j]
           old   == missed[j]
<1>a. /\ Shown(j)' <=> after.rev = now.rev \/ (m > 0 /\ m >= now.rev)
      /\ Shown(j) <=> shown.rev = now.rev \/ (old > 0 /\ old >= now.rev)
      /\ Begun(j)' <=> after.since = now.since \/ (m > 0 /\ m >= now.since)
      /\ Begun(j) <=> shown.since = now.since \/ (old > 0 /\ old >= now.since)
      /\ Mixed(row[j], view'[j], m) <=>
            /\ after.rev <= now.rev /\ (after.rev = now.rev => after.state = now.state)
            /\ after.since <= now.since
            /\ after.since <= after.rev \/ after.since <= m
  BY <1>7 DEF Shown, Begun, Mixed
<1>b. ASSUME after = rec /\ (rec.rev < shown.rev => m >= shown.rev)
      PROVE  /\ Mixed(row[j], view'[j], m) /\ (Shown(j) => Shown(j)') /\ (Begun(j) => Begun(j)')
             /\ rec.rev = row[j].rev => Shown(j)'
             /\ rec.since = row[j].since => Begun(j)'
  <2>1. (Shown(j) => Shown(j)') /\ (rec.rev = now.rev => Shown(j)')
        /\ (rec.since = now.since => Begun(j)')
    <3> HIDE DEF shown, after, now, old
    <3> QED
      BY <1>2, <1>3, <1>4, <1>5, <1>6, <1>a, <1>b DEF shown, now, old
  <2>2. Mixed(row[j], view'[j], m)
    BY <1>2, <1>3, <1>4, <1>5, <1>6, <1>a, <1>b
  <2>3. Begun(j) => Begun(j)'
    BY <1>2, <1>3, <1>4, <1>5, <1>6, <1>a, <1>b
  <2> QED
    BY <2>1, <2>2, <2>3
<1>c. ASSUME after = shown /\ (rec.rev > shown.rev \/ rec.since # shown.since => m >= rec.rev)
      PROVE  /\ Mixed(row[j], view'[j], m) /\ (Shown(j) => Shown(j)') /\ (Begun(j) => Begun(j)')
             /\ rec.rev = row[j].rev => Shown(j)'
             /\ rec.since = row[j].since => Begun(j)'
  <2>1. (Shown(j) => Shown(j)') /\ (rec.rev = now.rev => Shown(j)')
        /\ (rec.since = now.since => Begun(j)')
    BY <1>2, <1>3, <1>4, <1>5, <1>6, <1>a, <1>c
  <2>2. Mixed(row[j], view'[j], m)
    BY <1>2, <1>3, <1>4, <1>5, <1>6, <1>a, <1>c
  <2>3. Begun(j) => Begun(j)'
    BY <1>2, <1>3, <1>4, <1>5, <1>6, <1>a, <1>c
  <2> QED
    BY <2>1, <2>2, <2>3
<1>8. /\ Mixed(row[j], view'[j], m) /\ (Shown(j) => Shown(j)') /\ (Begun(j) => Begun(j)')
      /\ rec.rev = row[j].rev => Shown(j)'
      /\ rec.since = row[j].since => Begun(j)'
  BY <1>7, <1>b, <1>c
<1>9. \A k \in Jobs :
         /\ Mixed(row[k], view'[k], missed'[k]) /\ missed'[k] <= row[k].rev
         /\ (Shown(k) => Shown(k)') /\ (Begun(k) => Begun(k)')
  <2> TAKE k \in Jobs
  <2>1. CASE k = j
    BY <1>6, <1>7, <1>8, <2>1
  <2>2. CASE k # j
    BY <1>1, <1>7, <2>2 DEF Shown, Begun
  <2> QED
    BY <2>1, <2>2
<1> QED
  BY <1>7, <1>8, <1>9 DEF ViewKeeps

LEMMA ReplaceShowsOrDrops ==
    ASSUME NEW j, NEW rec, NEW b, ReplaceJob(j, rec, b)
    PROVE  Show(j, rec) \/ Drop(j, rec)
  BY DEF ReplaceJob

(* A connection, and what the listener of the window changes of it.          *)
Conns == [status : Statuses, boundary : Nat, rows : [Jobs -> Records], failed : BOOLEAN]

HandleKeeps ==
    /\ ViewKeeps
    /\ conn' \in [Connections -> Conns]
    /\ \A d \in Connections :
          /\ conn'[d].status = conn[d].status /\ conn'[d].rows = conn[d].rows
          /\ conn'[d].failed = conn[d].failed /\ conn'[d].boundary < sequence
          /\ conn[d].status # "connected" => conn'[d] = conn[d]
    /\ last' \in Nat /\ last' < sequence
    /\ seen' \in [Jobs -> Nat] /\ \A k \in Jobs : seen'[k] < sequence
    /\ lookups \subseteq lookups' /\ lookups' \subseteq [job : Jobs, seq : Nat, rec : Records]
    /\ \A l \in lookups' : l \in lookups \/ l.rec = Nothing

(* An event that is handled is shown, looked up or counted as missed.        *)
LEMMA HandleStep ==
    ASSUME StreamInv, UNCHANGED <<row, sequence>>, NEW c \in Connections,
           conn[c].status = "connected", NEW event \in Events, event.seq < sequence,
           Change(row[event.job], event.rec), Handle(c, event)
    PROVE  /\ HandleKeeps
           /\ event.rec = row[event.job] =>
                 \/ Shown(event.job)'
                 \/ \E l \in lookups' : l.job = event.job /\ l.rec = Nothing
<1>1. /\ StreamTypeOK /\ RowsFit /\ WindowVersions /\ Numbered /\ event.job \in Jobs
      /\ event.seq \in Nat /\ event.rec \in Records /\ Version(row[event.job], event.rec)
      /\ Nothing \in Records
  BY NothingIsOldest DEF StreamInv, Events, Change
<1>2. /\ conn \in [Connections -> Conns] /\ \A d \in Connections : conn[d].boundary < sequence
      /\ last \in Nat /\ last < sequence
      /\ seen \in [Jobs -> Nat] /\ \A k \in Jobs : seen[k] < sequence
      /\ lookups \subseteq [job : Jobs, seq : Nat, rec : Records]
  BY <1>1 DEF StreamTypeOK, Numbered, Conns
<1>3. /\ conn' \in [Connections -> Conns]
      /\ \A d \in Connections :
            /\ conn'[d].status = conn[d].status /\ conn'[d].rows = conn[d].rows
            /\ conn'[d].failed = conn[d].failed /\ conn'[d].boundary < sequence
            /\ conn[d].status # "connected" => conn'[d] = conn[d]
  <2>1. CASE conn' = conn
    BY <1>2, <2>1
  <2>2. CASE conn' = [conn EXCEPT ![c].boundary = event.seq]
    <3> DEFINE r == [conn[c] EXCEPT !.boundary = event.seq]
    <3>1. /\ r \in Conns /\ r.status = conn[c].status /\ r.rows = conn[c].rows
          /\ r.failed = conn[c].failed /\ r.boundary = event.seq
      BY <1>1, <1>2 DEF Conns
    <3>2. conn' = [conn EXCEPT ![c] = r]
      BY <2>2
    <3> HIDE DEF r
    <3> QED
      BY <1>2, <3>1, <3>2
  <2> QED
    BY <2>1, <2>2 DEF Handle
<1> DEFINE merged == Merged(event)
<1>a. /\ merged \in Records /\ Taken(event.job, merged)
      /\ event.rec = row[event.job] => merged.rev = row[event.job].rev
  <2>1. event.rec \in [state : States, rev : Nat, since : Nat] /\ view[event.job].since \in Nat
    BY <1>1 DEF StreamTypeOK, Records
  <2>2. /\ merged \in [state : States, rev : Nat, since : Nat]
        /\ merged.state = event.rec.state /\ merged.rev = event.rec.rev
        /\ merged.since = view[event.job].since
    BY <2>1 DEF Merged
  <2>3. /\ event.rec.rev <= row[event.job].rev
        /\ event.rec.rev = row[event.job].rev => event.rec = row[event.job]
    BY <1>1 DEF Version
  <2> QED
    BY <2>2, <2>3 DEF Taken, Records
<1> HIDE DEF merged
<1>4. CASE Drop(event.job, merged) /\ UNCHANGED <<last, seen, lookups>>
  BY <1>1, <1>2, <1>3, <1>4, <1>a, ShowOrDrop DEF HandleKeeps
<1>5. CASE last' = event.seq /\ seen' = [seen EXCEPT ![event.job] = event.seq]
           /\ UNCHANGED <<view, missed>>
           /\ lookups' = lookups \cup {[job |-> event.job, seq |-> event.seq, rec |-> Nothing]}
  <2> DEFINE l == [job |-> event.job, seq |-> event.seq, rec |-> Nothing]
  <2>1. l \in [job : Jobs, seq : Nat, rec : Records] /\ l.rec = Nothing /\ l.job = event.job
    BY <1>1
  <2>2. lookups' = lookups \cup {l}
    BY <1>5
  <2>3. seen' \in [Jobs -> Nat] /\ \A k \in Jobs : seen'[k] < sequence
    BY <1>1, <1>2, <1>5
  <2>4. ViewKeeps
    BY <1>5, ViewStays
  <2> HIDE DEF l
  <2> QED
    BY <1>1, <1>2, <1>3, <1>5, <2>1, <2>2, <2>3, <2>4 DEF HandleKeeps
<1>6. CASE last' = event.seq /\ seen' = [seen EXCEPT ![event.job] = event.seq]
           /\ ReplaceJob(event.job, merged, FALSE) /\ UNCHANGED lookups
  <2>1. Show(event.job, merged) \/ Drop(event.job, merged)
    BY <1>6, ReplaceShowsOrDrops
  <2>2. ViewKeeps /\ (event.rec = row[event.job] => Shown(event.job)')
    BY <1>1, <1>a, <2>1, ShowOrDrop
  <2>3. seen' \in [Jobs -> Nat] /\ \A k \in Jobs : seen'[k] < sequence
    BY <1>1, <1>2, <1>6
  <2> QED
    BY <1>1, <1>2, <1>3, <1>6, <2>2, <2>3 DEF HandleKeeps
<1> QED
  BY <1>4, <1>5, <1>6 DEF Handle, ApplyEvent, merged

(* A step of the window, which leaves the store and the emitters alone.      *)
LEMMA WindowStep ==
    ASSUME StreamInv, UNCHANGED <<row, emitting, sequence>>, ViewKeeps,
           conn' \in [Connections -> Conns],
           \A c \in Connections :
              /\ conn'[c].boundary < sequence
              /\ \A j \in Jobs : Version(row[j], conn'[c].rows[j])
              /\ conn'[c].failed => conn'[c].rows = [j \in Jobs |-> Nothing]
              /\ conn'[c].status = "answered" =>
                    conn'[c] = conn[c] \/ conn'[c].rows = row \/ conn'[c].boundary = 0,
           channel' \in Seq(Events), Elems(channel') \subseteq Elems(channel),
           Len(channel') <= Capacity,
           buffered' \in Seq(Events),
           Elems(buffered') \subseteq Elems(channel) \cup Elems(buffered),
           lookups' \subseteq [job : Jobs, seq : Nat, rec : Records],
           \A l \in lookups' : Version(row[l.job], l.rec),
           last' \in Nat, last' < sequence,
           seen' \in [Jobs -> Nat], \A j \in Jobs : seen'[j] < sequence,
           call' \in [Jobs -> [command : Commands \cup {"none"}, pc : Pcs, rec : Records]],
           \A j \in Jobs :
              /\ Version(row[j], call'[j].rec) /\ (call[j].pc = "emitting" => call'[j] = call[j])
              /\ call'[j].pc = "answered" => call'[j] = call[j],
           Accounted', AttemptsAccounted'
    PROVE  StreamInv'
<1>1. StreamTypeOK /\ RowsFit /\ QueueVersions /\ WindowVersions /\ Numbered /\ Covers
      /\ AnswersWait
  BY DEF StreamInv
<1>2. StreamTypeOK' /\ RowsFit'
  BY <1>1 DEF StreamTypeOK, RowsFit, ViewKeeps, Conns
<1>3. QueueVersions' /\ AnswersWait'
  BY <1>1 DEF QueueVersions, AnswersWait, Emits
<1>4. WindowVersions'
  <2>1. \A event \in Elems(buffered') : Change(row[event.job], event.rec)
    BY <1>1 DEF QueueVersions, WindowVersions
  <2> QED
    BY <1>1, <2>1 DEF WindowVersions, ViewKeeps
<1>5. Numbered'
  BY <1>1 DEF Numbered
<1>6. Covers'
  <2> SUFFICES ASSUME NEW c \in Connections, conn'[c].status = "answered", conn'[c].boundary > 0
               PROVE  /\ \A event \in Elems(channel') :
                            event.seq <= conn'[c].boundary =>
                               event.rec.rev <= conn'[c].rows[event.job].rev
                      /\ \A j \in Jobs, e \in Emitters :
                            Emits(j, e) /\ emitting[j][e].seq \in 1 .. conn'[c].boundary =>
                            emitting[j][e].rec.rev <= conn'[c].rows[j].rev
    BY DEF Covers, Emits
  <2>1. CASE conn'[c] = conn[c]
    BY <1>1, <2>1 DEF Covers
  <2>2. CASE conn'[c].rows = row
    BY <1>1, <2>2 DEF QueueVersions, Change, Version
  <2> QED
    BY <2>1, <2>2
<1> QED
  BY <1>2, <1>3, <1>4, <1>5, <1>6 DEF StreamInv

(* What the hypotheses of WindowStep say of the variables a step leaves      *)
(* alone.                                                                    *)
LEMMA NothingMoved ==
    ASSUME StreamInv
    PROVE  /\ row \in [Jobs -> Records] /\ sequence \in Nat \ {0}
           /\ \A j \in Jobs : Version(row[j], row[j])
           /\ conn \in [Connections -> Conns]
           /\ \A c \in Connections :
                 /\ conn[c].boundary < sequence
                 /\ \A j \in Jobs : Version(row[j], conn[c].rows[j])
                 /\ conn[c].failed => conn[c].rows = [j \in Jobs |-> Nothing]
           /\ channel \in Seq(Events) /\ Len(channel) <= Capacity
           /\ buffered \in Seq(Events)
           /\ lookups \subseteq [job : Jobs, seq : Nat, rec : Records]
           /\ \A l \in lookups : Version(row[l.job], l.rec)
           /\ last \in Nat /\ last < sequence
           /\ seen \in [Jobs -> Nat] /\ \A j \in Jobs : seen[j] < sequence
           /\ call \in [Jobs -> [command : Commands \cup {"none"}, pc : Pcs, rec : Records]]
           /\ \A j \in Jobs : Version(row[j], call[j].rec)
           /\ Nothing \in Records /\ \A j \in Jobs : Version(row[j], Nothing)
<1>1. StreamTypeOK /\ RowsFit /\ WindowVersions /\ Numbered /\ Len(channel) <= Capacity
  BY DEF StreamInv
<1>2. row \in [Jobs -> Records] /\ \A j \in Jobs : Version(row[j], row[j])
  <2>1. row \in [Jobs -> Records] /\ \A j \in Jobs : row[j].since <= row[j].rev
    BY <1>1 DEF StreamTypeOK, RowsFit
  <2> QED
    BY <2>1 DEF Version, Records
<1> QED
  BY <1>1, <1>2, NothingIsOldest DEF StreamTypeOK, WindowVersions, Numbered, Conns

LEMMA BootstrapStep ==
    ASSUME StreamInv, NEW c \in Connections, Bootstrap(c)
    PROVE  StreamInv'
<1>1. /\ UNCHANGED <<backend, buffered, view, last, seen, lookups, missed, call>>
      /\ UNCHANGED <<row, emitting, sequence, channel>>
  BY DEF Bootstrap, backend
<1>2. PICK r \in Conns :
         /\ conn' = [conn EXCEPT ![c] = r] /\ r.status = "answered"
         /\ r.boundary < sequence
         /\ \/ ~r.failed /\ r.rows = row
            \/ r.failed /\ r.boundary = 0 /\ r.rows = [j \in Jobs |-> Nothing]
  <2>1. sequence - 1 \in Nat /\ sequence - 1 < sequence /\ 0 < sequence
    BY NothingMoved
  <2> DEFINE r1 == [status |-> "answered", boundary |-> sequence - 1, rows |-> row,
                    failed |-> FALSE]
             r2 == [Off EXCEPT !.status = "answered", !.failed = TRUE]
  <2>2. r1 \in Conns
    BY <2>1, NothingMoved DEF Conns, Statuses
  <2>3. r2 \in Conns /\ r2.status = "answered" /\ r2.failed = TRUE /\ r2.boundary = 0
        /\ r2.rows = [j \in Jobs |-> Nothing]
    BY NothingMoved DEF Conns, Statuses, Off
  <2>4. conn' = [conn EXCEPT ![c] = r1] \/ conn' = [conn EXCEPT ![c] = r2]
    BY DEF Bootstrap
  <2>5. r1.status = "answered" /\ r1.boundary = sequence - 1 /\ r1.rows = row /\ r1.failed = FALSE
    OBVIOUS
  <2> HIDE DEF r1, r2
  <2> QED
    BY <2>1, <2>2, <2>3, <2>4, <2>5
<1>3. /\ conn' \in [Connections -> Conns] /\ conn'[c] = r
      /\ \A d \in Connections : d # c => conn'[d] = conn[d]
  BY <1>2, NothingMoved
<1>4. \A d \in Connections :
         /\ conn'[d].boundary < sequence
         /\ \A j \in Jobs : Version(row[j], conn'[d].rows[j])
         /\ conn'[d].failed => conn'[d].rows = [j \in Jobs |-> Nothing]
         /\ conn'[d].status = "answered" =>
               conn'[d] = conn[d] \/ conn'[d].rows = row \/ conn'[d].boundary = 0
  BY <1>2, <1>3, NothingMoved
<1>5. Accounted'
  <2>1. \A j \in Jobs : InSnapshot(j)'
    BY <1>1, <1>2, <1>3 DEF InSnapshot
  <2> QED
    BY <2>1 DEF Accounted
<1>6. AttemptsAccounted'
  <2>1. \A j \in Jobs : BegunInSnapshot(j)'
    BY <1>1, <1>2, <1>3 DEF BegunInSnapshot
  <2> QED
    BY <2>1 DEF AttemptsAccounted
<1> QED
  BY <1>1, <1>3, <1>4, <1>5, <1>6, NothingMoved, ViewStays, WindowStep

LEMMA ConnectStep ==
    ASSUME StreamInv, NEW c \in Connections, Connect(c)
    PROVE  StreamInv'
<1>1. /\ UNCHANGED <<backend, view, last, seen, lookups, missed, call>>
      /\ UNCHANGED <<row, emitting, sequence, channel>> /\ buffered' = <<>>
  BY DEF Connect, backend
<1> DEFINE asked  == [Off EXCEPT !.status = "asked"]
           closed == [Off EXCEPT !.status = "closed"]
<1>2. /\ asked \in Conns /\ closed \in Conns
      /\ asked.status = "asked" /\ closed.status = "closed"
      /\ \A r \in {asked, closed} :
            r.boundary = 0 /\ ~r.failed /\ r.rows = [j \in Jobs |-> Nothing]
  BY NothingMoved DEF Conns, Statuses, Off
<1>3. conn' = [d \in Connections |->
                  IF d = c THEN asked ELSE IF d < c THEN closed ELSE conn[d]]
  BY DEF Connect
<1> HIDE DEF asked, closed
<1>4. /\ conn' \in [Connections -> Conns] /\ conn'[c] = asked
      /\ \A d \in Connections : conn'[d] \in {asked, closed, conn[d]}
  BY <1>2, <1>3, NothingMoved
<1>5. \A d \in Connections :
         /\ conn'[d].boundary < sequence
         /\ \A j \in Jobs : Version(row[j], conn'[d].rows[j])
         /\ conn'[d].failed => conn'[d].rows = [j \in Jobs |-> Nothing]
         /\ conn'[d].status = "answered" =>
               conn'[d] = conn[d] \/ conn'[d].rows = row \/ conn'[d].boundary = 0
  <2> TAKE d \in Connections
  <2>1. CASE conn'[d] = conn[d]
    BY <2>1, NothingMoved
  <2>2. CASE conn'[d] \in {asked, closed}
    BY <1>2, <2>2, NothingMoved
  <2> QED
    BY <1>4, <2>1, <2>2
<1>6. Accounted'
  <2>1. \A j \in Jobs : InSnapshot(j)'
    BY <1>2, <1>4 DEF InSnapshot
  <2> QED
    BY <2>1 DEF Accounted
<1>7. AttemptsAccounted'
  <2>1. \A j \in Jobs : BegunInSnapshot(j)'
    BY <1>2, <1>4 DEF BegunInSnapshot
  <2> QED
    BY <2>1 DEF AttemptsAccounted
<1> QED
  BY <1>1, <1>4, <1>5, <1>6, <1>7, NoElems, NothingMoved, ViewStays, WindowStep

(* The snapshot replaces what is shown, and what it takes away is missed.    *)
LEMMA ApplySnapshotStep ==
    ASSUME StreamInv, NEW c \in Connections, ApplySnapshot(c)
    PROVE  StreamInv'
<1>1. /\ UNCHANGED <<row, emitting, sequence, channel, buffered, lookups, call>>
      /\ conn[c].status = "answered"
      /\ view' = conn[c].rows /\ last' = conn[c].boundary /\ missed' = MissedIn(c)
  BY DEF ApplySnapshot, backend
<1>2. /\ view \in [Jobs -> Records] /\ missed \in [Jobs -> Nat]
      /\ \A k \in Jobs : Mixed(row[k], view[k], missed[k]) /\ missed[k] <= row[k].rev
  BY DEF StreamInv, StreamTypeOK, WindowVersions
<1>3. conn[c] \in Conns /\ conn[c].rows \in [Jobs -> Records] /\ conn[c].boundary \in Nat
  BY NothingMoved DEF Conns
<1>4. \A k \in Jobs :
         missed'[k] = IF conn[c].failed THEN Larger(missed[k], row[k].rev)
                      ELSE IF conn[c].rows[k].rev < view[k].rev
                           THEN Larger(missed[k], view[k].rev) ELSE missed[k]
  BY <1>1 DEF MissedIn
<1>5. \A k \in Jobs :
         /\ missed'[k] \in Nat /\ missed'[k] >= missed[k] /\ missed'[k] <= row[k].rev
         /\ conn[c].failed => missed'[k] >= row[k].rev
         /\ ~conn[c].failed /\ conn[c].rows[k].rev < view[k].rev => missed'[k] >= view[k].rev
  <2> TAKE k \in Jobs
  <2>1. /\ row[k].rev \in Nat /\ view[k].rev \in Nat /\ missed[k] \in Nat
        /\ view[k].rev <= row[k].rev /\ missed[k] <= row[k].rev
    BY <1>2, NothingMoved DEF Mixed, Records
  <2> QED
    BY <1>4, <2>1 DEF Larger
<1>6. missed' \in [Jobs -> Nat]
  BY <1>1, <1>5 DEF MissedIn
<1>7. ASSUME NEW k \in Jobs, Shown(k) \/ conn[c].failed \/ conn[c].rows[k] = row[k]
      PROVE  Shown(k)'
  <2>1. /\ row[k].rev \in Nat /\ view[k].rev \in Nat /\ conn[c].rows[k].rev \in Nat
        /\ missed[k] \in Nat
    BY <1>2, <1>3, NothingMoved DEF Records
  <2>2. CASE conn[c].rows[k] = row[k]
    BY <1>1, <2>2 DEF Shown
  <2>3. CASE conn[c].failed
    <3>1. row[k].rev = 0 => row[k] = Nothing
      BY DEF StreamInv, RowsFit
    <3>2. conn[c].rows[k] = Nothing
      BY <2>3, NothingMoved
    <3>3. CASE row[k].rev = 0
      BY <2>2, <3>1, <3>2, <3>3
    <3> QED
      BY <1>1, <1>5, <2>1, <2>3, <3>3 DEF Shown
  <2>4. CASE ~conn[c].failed /\ missed[k] > 0 /\ missed[k] >= row[k].rev
    BY <1>1, <1>5, <2>1, <2>4 DEF Shown
  <2>5. CASE ~conn[c].failed /\ view[k].rev = row[k].rev /\ conn[c].rows[k] # row[k]
    <3>1. conn[c].rows[k].rev < view[k].rev
      BY <2>1, <2>5, NothingMoved DEF Version
    <3> QED
      BY <1>1, <1>5, <2>1, <2>5, <3>1 DEF Shown
  <2> QED
    BY <1>7, <2>2, <2>3, <2>4, <2>5 DEF Shown
<1>a. ASSUME NEW k \in Jobs,
             Begun(k) \/ conn[c].failed \/ conn[c].rows[k].since = row[k].since
      PROVE  Begun(k)'
  <2> DEFINE new == conn[c].rows[k]
             m   == missed'[k]
  <2>1. /\ row[k].rev \in Nat /\ view[k].rev \in Nat /\ new.rev \in Nat /\ missed[k] \in Nat
        /\ row[k].since \in Nat /\ view[k].since \in Nat /\ new.since \in Nat /\ m \in Nat
        /\ row[k].since <= row[k].rev
    BY <1>2, <1>3, <1>5, NothingMoved DEF Records, StreamInv, RowsFit
  <2>2. /\ new.since <= new.rev /\ (new.since = row[k].since \/ new.rev < row[k].since)
        /\ view[k].since <= view[k].rev \/ view[k].since <= missed[k]
    BY <1>2, NothingMoved DEF Version, Mixed
  <2>3. /\ m >= missed[k] /\ (conn[c].failed => m >= row[k].rev)
        /\ ~conn[c].failed /\ new.rev < view[k].rev => m >= view[k].rev
    BY <1>5
  <2>4. /\ Begun(k)' <=> new.since = row[k].since \/ (m > 0 /\ m >= row[k].since)
        /\ Begun(k) <=> view[k].since = row[k].since
                           \/ (missed[k] > 0 /\ missed[k] >= row[k].since)
    BY <1>1 DEF Begun
  <2> HIDE DEF new, m
  <2>5. CASE new.since # row[k].since
    <3>1. new.rev < row[k].since /\ row[k].since > 0
      BY <2>1, <2>2, <2>5
    <3>2. CASE conn[c].failed
      BY <2>1, <2>3, <2>4, <3>1, <3>2
    <3>3. CASE ~conn[c].failed /\ view[k].since = row[k].since
      BY <2>1, <2>2, <2>3, <2>4, <3>1, <3>3
    <3>4. CASE missed[k] > 0 /\ missed[k] >= row[k].since
      BY <2>1, <2>3, <2>4, <3>4
    <3> QED
      BY <1>a, <2>4, <2>5, <3>2, <3>3, <3>4 DEF new
  <2> QED
    BY <2>4, <2>5
<1>b. \A k \in Jobs : Mixed(row[k], conn[c].rows[k], missed'[k])
  <2> TAKE k \in Jobs
  <2>1. /\ row[k].rev \in Nat /\ row[k].since \in Nat /\ conn[c].rows[k].rev \in Nat
        /\ conn[c].rows[k].since \in Nat
    BY <1>3, NothingMoved DEF Records
  <2>2. Version(row[k], conn[c].rows[k])
    BY NothingMoved
  <2> QED
    BY <2>1, <2>2 DEF Version, Mixed
<1>8. ViewKeeps
  BY <1>1, <1>3, <1>5, <1>6, <1>7, <1>a, <1>b DEF ViewKeeps
<1>9. /\ conn' \in [Connections -> Conns] /\ conn'[c].status = "connected"
      /\ conn'[c].rows = conn[c].rows /\ conn'[c].boundary = conn[c].boundary
      /\ conn'[c].failed = conn[c].failed
      /\ \A d \in Connections : d # c => conn'[d] = conn[d]
  <2> DEFINE r == [conn[c] EXCEPT !.status = "connected"]
  <2>1. /\ r \in Conns /\ r.status = "connected" /\ r.rows = conn[c].rows
        /\ r.boundary = conn[c].boundary /\ r.failed = conn[c].failed
    BY <1>3 DEF Conns, Statuses
  <2>2. conn' = [conn EXCEPT ![c] = r]
    BY DEF ApplySnapshot
  <2> HIDE DEF r
  <2> QED
    BY <2>1, <2>2, NothingMoved
<1>10. \A d \in Connections :
         /\ conn'[d].boundary < sequence
         /\ \A j \in Jobs : Version(row[j], conn'[d].rows[j])
         /\ conn'[d].failed => conn'[d].rows = [j \in Jobs |-> Nothing]
         /\ conn'[d].status = "answered" =>
               conn'[d] = conn[d] \/ conn'[d].rows = row \/ conn'[d].boundary = 0
  BY <1>9, NothingMoved
<1>11. seen' \in [Jobs -> Nat] /\ \A k \in Jobs : seen'[k] < sequence
  BY <1>3, NothingMoved DEF ApplySnapshot
<1>12. Accounted'
  <2> SUFFICES ASSUME NEW k \in Jobs
               PROVE  (Shown(k) \/ InQueue(k) \/ InSnapshot(k) \/ InWindow(k) \/ InAnswer(k)
                          \/ Unconnected)'
    BY DEF Accounted
  <2>1. Shown(k) => Shown(k)'
    BY <1>7
  <2>2. InSnapshot(k) => Shown(k)' \/ InSnapshot(k)'
    BY <1>1, <1>7, <1>9 DEF InSnapshot
  <2>3. ~Unconnected
    BY <1>1 DEF Unconnected
  <2>4. InQueue(k) \/ InWindow(k) \/ InAnswer(k) => (InQueue(k) \/ InWindow(k) \/ InAnswer(k))'
    BY <1>1 DEF InQueue, InWindow, InAnswer, Emits
  <2> QED
    BY <2>1, <2>2, <2>3, <2>4 DEF StreamInv, Accounted
<1>13. last' \in Nat /\ last' < sequence
  BY <1>1, <1>3, NothingMoved
<1>14. AttemptsAccounted'
  <2> SUFFICES ASSUME NEW k \in Jobs
               PROVE  (Begun(k) \/ Called(k) \/ BegunInSnapshot(k) \/ Unconnected)'
    BY DEF AttemptsAccounted
  <2>1. (Begun(k) => Begun(k)') /\ (Called(k) => Called(k)')
    BY <1>1, <1>a DEF Called
  <2>2. BegunInSnapshot(k) => Begun(k)' \/ BegunInSnapshot(k)'
    BY <1>1, <1>a, <1>9 DEF BegunInSnapshot
  <2>3. ~Unconnected
    BY <1>1 DEF Unconnected
  <2> QED
    BY <2>1, <2>2, <2>3 DEF StreamInv, AttemptsAccounted
<1> QED
  BY <1>1, <1>8, <1>9, <1>10, <1>11, <1>12, <1>13, <1>14, NothingMoved, WindowStep

(* The first event that waits, in the channel or after the snapshot, is      *)
(* handled: every job stays accounted for.                                   *)
LEMMA HandledAccounts ==
    ASSUME StreamInv, HandleKeeps, UNCHANGED <<row, emitting, sequence, call>>,
           NEW event,
           event.rec = row[event.job] =>
              \/ Shown(event.job)'
              \/ \E l \in lookups' : l.job = event.job /\ l.rec = Nothing,
           event.rec.state # NotThere,
           Elems(channel) \subseteq Elems(channel') \cup {event},
           Elems(buffered) \subseteq Elems(buffered') \cup {event}
    PROVE  Accounted'
<1> SUFFICES ASSUME NEW k \in Jobs
             PROVE  (Shown(k) \/ InQueue(k) \/ InSnapshot(k) \/ InWindow(k) \/ InAnswer(k)
                        \/ Unconnected)'
  BY DEF Accounted
<1>1. Shown(k) => Shown(k)'
  BY DEF HandleKeeps, ViewKeeps
<1>2. event.job = k /\ event.rec = row[k] => Shown(k)' \/ InWindow(k)'
  BY DEF InWindow
<1>3. InQueue(k) => InQueue(k)' \/ Shown(k)' \/ InWindow(k)'
  BY <1>2 DEF InQueue, Emits
<1>4. InWindow(k) => InWindow(k)' \/ Shown(k)'
  BY <1>2 DEF InWindow, HandleKeeps
<1>5. InSnapshot(k) => InSnapshot(k)'
  BY DEF InSnapshot, HandleKeeps
<1>6. InAnswer(k) \/ Unconnected => (InAnswer(k) \/ Unconnected)'
  BY DEF InAnswer, Unconnected, HandleKeeps
<1> QED
  BY <1>1, <1>3, <1>4, <1>5, <1>6 DEF StreamInv, Accounted

LEMMA AttemptsKept ==
    ASSUME StreamInv, ViewKeeps, UNCHANGED row,
           \A c \in Connections :
              /\ conn'[c].status = conn[c].status /\ conn'[c].rows = conn[c].rows
              /\ conn'[c].failed = conn[c].failed,
           \A k \in Jobs : Called(k) => Called(k)' \/ Begun(k)'
    PROVE  AttemptsAccounted'
<1> SUFFICES ASSUME NEW k \in Jobs
             PROVE  (Begun(k) \/ Called(k) \/ BegunInSnapshot(k) \/ Unconnected)'
  BY DEF AttemptsAccounted
<1>1. Begun(k) => Begun(k)'
  BY DEF ViewKeeps
<1> QED
  BY <1>1, AttemptStays

LEMMA HandledKeeps ==
    ASSUME StreamInv, HandleKeeps, UNCHANGED <<row, emitting, sequence, call>>,
           channel' \in Seq(Events), Elems(channel') \subseteq Elems(channel),
           Len(channel') <= Capacity,
           buffered' \in Seq(Events),
           Elems(buffered') \subseteq Elems(channel) \cup Elems(buffered),
           Accounted'
    PROVE  StreamInv'
<1>1. \A c \in Connections :
         /\ conn'[c].boundary < sequence
         /\ \A j \in Jobs : Version(row[j], conn'[c].rows[j])
         /\ conn'[c].failed => conn'[c].rows = [j \in Jobs |-> Nothing]
         /\ conn'[c].status = "answered" =>
               conn'[c] = conn[c] \/ conn'[c].rows = row \/ conn'[c].boundary = 0
  BY NothingMoved DEF HandleKeeps
<1>2. \A l \in lookups' : Version(row[l.job], l.rec)
  BY NothingMoved DEF HandleKeeps
<1>3. /\ ViewKeeps /\ conn' \in [Connections -> Conns]
      /\ lookups' \subseteq [job : Jobs, seq : Nat, rec : Records]
      /\ last' \in Nat /\ last' < sequence
      /\ seen' \in [Jobs -> Nat] /\ \A k \in Jobs : seen'[k] < sequence
  BY DEF HandleKeeps
<1>4. AttemptsAccounted'
  BY AttemptsKept DEF HandleKeeps, Called
<1> QED
  BY <1>1, <1>2, <1>3, <1>4, NothingMoved, WindowStep

LEMMA HandleBufferedStep ==
    ASSUME StreamInv, NEW c \in Connections, HandleBuffered(c)
    PROVE  StreamInv'
<1> DEFINE head == Head(buffered)
<1>1. /\ UNCHANGED <<row, emitting, sequence, channel, call>>
      /\ conn[c].status = "connected" /\ buffered # <<>> /\ buffered' = Tail(buffered)
      /\ Handle(c, head)
  BY DEF HandleBuffered, backend
<1>0. /\ buffered' \in Seq(Events) /\ head \in Elems(buffered) /\ head \in Events
      /\ Elems(buffered') \subseteq Elems(buffered)
      /\ Elems(buffered) \subseteq Elems(buffered') \cup {head}
  BY <1>1, NothingMoved, TailElems
<1> HIDE DEF head
<1>2. PICK event \in Events :
         /\ event \in Elems(buffered) /\ Handle(c, event)
         /\ Elems(buffered) \subseteq Elems(buffered') \cup {event}
  BY <1>0, <1>1
<1>3. event.seq < sequence /\ Change(row[event.job], event.rec)
  BY <1>2 DEF StreamInv, Numbered, WindowVersions
<1>4. /\ HandleKeeps
      /\ event.rec = row[event.job] =>
            \/ Shown(event.job)'
            \/ \E l \in lookups' : l.job = event.job /\ l.rec = Nothing
  BY <1>1, <1>2, <1>3, HandleStep
<1>5. Accounted'
  BY <1>1, <1>2, <1>3, <1>4, HandledAccounts DEF Change
<1> QED
  BY <1>0, <1>1, <1>4, <1>5, NothingMoved, HandledKeeps

LEMMA ForwardStep == ASSUME StreamInv, Forward PROVE StreamInv'
<1> DEFINE head == Head(channel)
<1>1. /\ UNCHANGED <<row, emitting, sequence, call>>
      /\ channel # <<>> /\ channel' = Tail(channel)
  BY DEF Forward
<1>2. /\ channel' \in Seq(Events) /\ head \in Elems(channel) /\ head \in Events
      /\ Elems(channel') \subseteq Elems(channel)
      /\ Elems(channel) \subseteq Elems(channel') \cup {head}
      /\ Len(channel') <= Capacity
  <2>1. /\ channel' \in Seq(Events) /\ head \in Elems(channel) /\ Elems(channel) \subseteq Events
        /\ Elems(channel') \subseteq Elems(channel)
        /\ Elems(channel) \subseteq Elems(channel') \cup {head}
        /\ Len(channel) \in Nat /\ Len(channel') = Len(channel) - 1
    BY <1>1, NothingMoved, TailElems
  <2> QED
    BY <2>1, NothingMoved, StreamAssumption
<1>3. CASE /\ \E c \in Connections : conn[c].status \in {"asked", "answered"}
           /\ buffered' = Append(buffered, head)
           /\ UNCHANGED <<conn, view, last, seen, lookups, missed>>
  <2> HIDE DEF head
  <2>1. buffered' \in Seq(Events) /\ Elems(buffered') = Elems(buffered) \cup {head}
    BY <1>2, <1>3, NothingMoved, AppendElems
  <2>2. Accounted'
    <3> SUFFICES ASSUME NEW k \in Jobs
                 PROVE  (Shown(k) \/ InQueue(k) \/ InSnapshot(k) \/ InWindow(k) \/ InAnswer(k)
                            \/ Unconnected)'
      BY DEF Accounted
    <3>1. InQueue(k) \/ InWindow(k) => (InQueue(k) \/ InWindow(k))'
      BY <1>1, <1>2, <1>3, <2>1 DEF InQueue, InWindow, Emits
    <3>2. Shown(k) \/ InSnapshot(k) \/ InAnswer(k) \/ Unconnected
             => (Shown(k) \/ InSnapshot(k) \/ InAnswer(k) \/ Unconnected)'
      BY <1>1, <1>3 DEF Shown, InSnapshot, InAnswer, Unconnected
    <3> QED
      BY <3>1, <3>2 DEF StreamInv, Accounted
  <2>3. Elems(buffered') \subseteq Elems(channel) \cup Elems(buffered)
    BY <1>2, <2>1
  <2>4. ViewKeeps
    BY <1>1, <1>3, ViewStays
  <2>5. AttemptsAccounted'
    BY <1>1, <1>3, <2>4, AttemptsKept DEF Called
  <2> QED
    BY <1>1, <1>2, <1>3, <2>1, <2>2, <2>3, <2>4, <2>5, NothingMoved, WindowStep
<1>4. CASE /\ UNCHANGED buffered
           /\ \E c \in Connections : conn[c].status = "connected" /\ Handle(c, head)
  <2> HIDE DEF head
  <2>1. PICK c \in Connections, event \in Events :
           /\ conn[c].status = "connected" /\ Handle(c, event)
           /\ event \in Elems(channel) /\ Elems(channel) \subseteq Elems(channel') \cup {event}
    BY <1>2, <1>4
  <2>2. event.seq < sequence /\ Change(row[event.job], event.rec)
    BY <2>1 DEF StreamInv, Numbered, QueueVersions
  <2>3. /\ HandleKeeps
        /\ event.rec = row[event.job] =>
              \/ Shown(event.job)'
              \/ \E l \in lookups' : l.job = event.job /\ l.rec = Nothing
    BY <1>1, <2>1, <2>2, HandleStep
  <2>4. Accounted'
    BY <1>1, <1>4, <2>1, <2>2, <2>3, HandledAccounts DEF Change
  <2> QED
    BY <1>1, <1>2, <1>4, <2>3, <2>4, NothingMoved, HandledKeeps
<1>5. CASE /\ ~\E c \in Connections : conn[c].status \in {"asked", "answered"}
           /\ ~Ready /\ ~CatchingUp /\ UNCHANGED window
  <2>1. UNCHANGED <<conn, buffered, view, last, seen, lookups, missed>>
    BY <1>5 DEF window
  <2>2. Unconnected
    <3>1. \A c \in Connections : conn[c].status # "connected"
      BY <1>5 DEF Ready, CatchingUp
    <3>2. \A c \in Connections : conn[c].status \in Statuses
      BY NothingMoved DEF Conns
    <3> QED
      BY <1>5, <3>1, <3>2 DEF Unconnected, Statuses
  <2>3. Accounted'
    BY <2>1, <2>2 DEF Accounted, Unconnected
  <2>4. ViewKeeps
    BY <1>1, <2>1, ViewStays
  <2>5. AttemptsAccounted'
    BY <1>1, <2>1, <2>4, AttemptsKept DEF Called
  <2> QED
    BY <1>1, <1>2, <2>1, <2>3, <2>4, <2>5, NothingMoved, WindowStep
<1>6. \/ /\ \E c \in Connections : conn[c].status \in {"asked", "answered"}
         /\ buffered' = Append(buffered, head)
         /\ UNCHANGED <<conn, view, last, seen, lookups, missed>>
      \/ /\ UNCHANGED buffered
         /\ \E c \in Connections : conn[c].status = "connected" /\ Handle(c, head)
      \/ /\ ~\E c \in Connections : conn[c].status \in {"asked", "answered"}
         /\ ~Ready /\ ~CatchingUp /\ UNCHANGED window
  BY DEF Forward, Ready
<1> QED
  BY <1>3, <1>4, <1>5, <1>6

(* The rest of a step that only looks up or shows a job.                     *)
LEMMA ShowingStep ==
    ASSUME StreamInv, UNCHANGED <<backend, conn, buffered, last, seen>>, ViewKeeps,
           lookups' \subseteq [job : Jobs, seq : Nat, rec : Records],
           \A l \in lookups' : Version(row[l.job], l.rec),
           call' \in [Jobs -> [command : Commands \cup {"none"}, pc : Pcs, rec : Records]],
           \A j \in Jobs :
              /\ Version(row[j], call'[j].rec) /\ (call[j].pc = "emitting" => call'[j] = call[j])
              /\ call'[j].pc = "answered" => call'[j] = call[j],
           \A k \in Jobs :
              /\ InWindow(k) \/ InAnswer(k) => (Shown(k) \/ InWindow(k) \/ InAnswer(k))'
              /\ Called(k) => (Called(k) \/ Begun(k))'
    PROVE  StreamInv'
<1>1. UNCHANGED <<row, emitting, sequence, channel>>
  BY DEF backend
<1>2. Accounted'
  <2> SUFFICES ASSUME NEW k \in Jobs
               PROVE  (Shown(k) \/ InQueue(k) \/ InSnapshot(k) \/ InWindow(k) \/ InAnswer(k)
                          \/ Unconnected)'
    BY DEF Accounted
  <2>1. Shown(k) => Shown(k)'
    BY DEF ViewKeeps
  <2>2. InQueue(k) \/ InSnapshot(k) \/ Unconnected
           => (InQueue(k) \/ InSnapshot(k) \/ Unconnected)'
    BY <1>1 DEF InQueue, InSnapshot, Unconnected, Emits
  <2> QED
    BY <2>1, <2>2 DEF StreamInv, Accounted
<1>3. /\ UNCHANGED <<conn, buffered, last, seen>>
      /\ Elems(channel') \subseteq Elems(channel)
      /\ Elems(buffered') \subseteq Elems(channel) \cup Elems(buffered)
  BY <1>1
<1>4. AttemptsAccounted'
  BY <1>1, <1>3, AttemptsKept
<1> QED
  BY <1>1, <1>2, <1>3, <1>4, NothingMoved, WindowStep

LEMMA LookupReadsStep ==
    ASSUME StreamInv, NEW l \in lookups, LookupReads(l)
    PROVE  StreamInv'
<1> DEFINE read == [l EXCEPT !.rec = row[l.job]]
<1>1. /\ UNCHANGED <<backend, conn, buffered, view, last, seen, missed, call>>
      /\ UNCHANGED row /\ l.rec = Nothing
      /\ lookups' = (lookups \ {l}) \cup IF row[l.job].state = NotThere THEN {} ELSE {read}
  BY DEF LookupReads, backend
<1>2. l \in [job : Jobs, seq : Nat, rec : Records]
  BY NothingMoved
<1>3. /\ read \in [job : Jobs, seq : Nat, rec : Records]
      /\ read.job = l.job /\ read.rec = row[l.job] /\ Version(row[read.job], read.rec)
  BY <1>2, NothingMoved
<1> HIDE DEF read
<1>4. /\ lookups' \subseteq [job : Jobs, seq : Nat, rec : Records]
      /\ \A m \in lookups' : Version(row[m.job], m.rec)
  BY <1>1, <1>3, NothingMoved
<1>5. ASSUME NEW k \in Jobs, InWindow(k) \/ InAnswer(k)
      PROVE  (InWindow(k) \/ InAnswer(k))'
  <2>1. ASSUME row[k].state # NotThere,
               NEW m \in lookups, m.job = k, m.rec \in {Nothing, row[k]}
        PROVE  \E n \in lookups' : n.job = k /\ n.rec \in {Nothing, row[k]}
    <3>1. CASE m # l
      BY <1>1, <2>1, <3>1
    <3>2. CASE m = l
      BY <1>1, <1>3, <2>1, <3>2
    <3> QED
      BY <3>1, <3>2
  <2> QED
    BY <1>1, <1>5, <2>1 DEF InWindow, InAnswer
<1>6. ViewKeeps
  BY <1>1, ViewStays
<1>7. \A k \in Jobs : Called(k) => Called(k)'
  BY <1>1 DEF Called
<1> QED
  BY <1>1, <1>4, <1>5, <1>6, <1>7, NothingMoved, ShowingStep

LEMMA LookupArrivesStep ==
    ASSUME StreamInv, NEW l \in lookups, LookupArrives(l)
    PROVE  StreamInv'
<1>1. /\ UNCHANGED <<backend, conn, buffered, last, seen, call>>
      /\ UNCHANGED row /\ l.rec # Nothing /\ lookups' = lookups \ {l}
      /\ Show(l.job, l.rec) \/ Drop(l.job, l.rec)
  BY ReplaceShowsOrDrops DEF LookupArrives, backend
<1>2. l.job \in Jobs /\ l.rec \in Records /\ Version(row[l.job], l.rec)
  BY NothingMoved
<1>3. ViewKeeps /\ (l.rec = row[l.job] => Shown(l.job)')
  BY <1>1, <1>2, ShowOrDrop DEF Taken
<1>4. /\ lookups' \subseteq [job : Jobs, seq : Nat, rec : Records]
      /\ \A m \in lookups' : Version(row[m.job], m.rec)
  BY <1>1, NothingMoved
<1>5. ASSUME NEW k \in Jobs, InWindow(k) \/ InAnswer(k)
      PROVE  (Shown(k) \/ InWindow(k) \/ InAnswer(k))'
  <2>1. ASSUME row[k].state # NotThere,
               NEW m \in lookups, m.job = k, m.rec \in {Nothing, row[k]}
        PROVE  \/ Shown(k)'
               \/ \E n \in lookups' : n.job = k /\ n.rec \in {Nothing, row[k]}
    <3>1. CASE m # l
      BY <1>1, <2>1, <3>1
    <3>2. CASE m = l
      BY <1>1, <1>3, <2>1, <3>2
    <3> QED
      BY <3>1, <3>2
  <2> QED
    BY <1>1, <1>5, <2>1 DEF InWindow, InAnswer
<1>6. \A k \in Jobs : Called(k) => Called(k)'
  BY <1>1 DEF Called
<1> QED
  BY <1>1, <1>3, <1>4, <1>5, <1>6, NothingMoved, ShowingStep

LEMMA AnswerArrivesStep ==
    ASSUME StreamInv, NEW j \in Jobs, AnswerArrives(j)
    PROVE  StreamInv'
<1>1. /\ UNCHANGED <<backend, conn, buffered, last, seen, lookups>> /\ UNCHANGED row
      /\ call[j].pc = "answered" /\ call' = [call EXCEPT ![j] = NoCall]
      /\ Show(j, call[j].rec) \/ Drop(j, call[j].rec)
  BY ReplaceShowsOrDrops DEF AnswerArrives, backend
<1>2. call[j].rec \in Records /\ Version(row[j], call[j].rec)
  BY NothingMoved
<1>3. ViewKeeps /\ (call[j].rec = row[j] => Shown(j)') /\ Begun(j)'
  <2>1. call[j].rec.since = row[j].since
    BY <1>1 DEF StreamInv, AnswersWait
  <2> QED
    BY <1>1, <1>2, <2>1, ShowOrDrop DEF Taken
<1>4. /\ call' \in [Jobs -> [command : Commands \cup {"none"}, pc : Pcs, rec : Records]]
      /\ call'[j] = NoCall /\ NoCall.rec = Nothing /\ NoCall.pc = "idle"
      /\ \A k \in Jobs : k # j => call'[k] = call[k]
  BY <1>1, NothingMoved DEF NoCall, Pcs
<1>5. \A k \in Jobs :
         /\ Version(row[k], call'[k].rec) /\ (call[k].pc = "emitting" => call'[k] = call[k])
         /\ call'[k].pc = "answered" => call'[k] = call[k]
  BY <1>1, <1>4, NothingMoved
<1>6. ASSUME NEW k \in Jobs, InWindow(k) \/ InAnswer(k)
      PROVE  (Shown(k) \/ InWindow(k) \/ InAnswer(k))'
  <2>1. InWindow(k) => InWindow(k)'
    BY <1>1 DEF InWindow
  <2>2. InAnswer(k) => Shown(k)' \/ InAnswer(k)'
    BY <1>1, <1>3, <1>4 DEF InAnswer
  <2> QED
    BY <1>6, <2>1, <2>2
<1>7. \A k \in Jobs : Called(k) => (Called(k) \/ Begun(k))'
  BY <1>3, <1>4 DEF Called
<1> QED
  BY <1>1, <1>3, <1>4, <1>5, <1>6, <1>7, NothingMoved, ShowingStep

-----------------------------------------------------------------------------
LEMMA StreamInvStep == ASSUME StreamInv, [Next]_vars PROVE StreamInv'
<1>1. CASE UNCHANGED vars
  <2>1. UNCHANGED <<backend, window, call>>
    BY <1>1 DEF vars
  <2>2. UNCHANGED <<conn, buffered, view, last, seen, lookups, missed, call>>
    BY <2>1 DEF window
  <2>3. ViewKeeps
    BY <2>1, <2>2, ViewStays DEF backend
  <2>4. \A k \in Jobs : /\ InWindow(k) \/ InAnswer(k) => (InWindow(k) \/ InAnswer(k))'
                        /\ Called(k) => Called(k)'
    BY <2>1, <2>2 DEF InWindow, InAnswer, Called, backend
  <2> QED
    BY <2>1, <2>2, <2>3, <2>4, NothingMoved, ShowingStep
<1>2. ASSUME NEW j \in Jobs,
             \/ Claim(j) \/ \E s \in {"running", "paused"} \cup Terminal : Drive(j, s)
             \/ \E e \in Emitters : Number(j, e) \/ Send(j, e)
             \/ Execute(j) \/ ExecutePause(j) \/ PauseReturns(j) \/ ExecuteDelete(j) \/ Refuse(j)
             \/ \E command \in Commands : Call(j, command)
             \/ AnswerArrives(j)
      PROVE  StreamInv'
  BY <1>2, QueueStep, CommandStep, AnswerArrivesStep
<1>3. ASSUME NEW c \in Connections,
             Connect(c) \/ Bootstrap(c) \/ ApplySnapshot(c) \/ HandleBuffered(c)
      PROVE  StreamInv'
  BY <1>3, ConnectStep, BootstrapStep, ApplySnapshotStep, HandleBufferedStep
<1>4. ASSUME NEW l \in lookups, LookupReads(l) \/ LookupArrives(l) PROVE StreamInv'
  BY <1>4, LookupReadsStep, LookupArrivesStep
<1> QED
  BY <1>1, <1>2, <1>3, <1>4, ForwardStep DEF Next

LEMMA StreamInvHolds == Spec => []StreamInv
<1>1. StreamInv /\ [Next]_vars => StreamInv'
  BY StreamInvStep
<1> QED
  BY <1>1, StreamInvInit, PTL DEF Spec

(* The variables keep their types, no number is seen before it was taken,    *)
(* the channel holds what it may, and nothing is missed that the store does  *)
(* not have.                                                                 *)
THEOREM StreamTypeCorrect == Spec => []EventTypeOK
<1>1. StreamInv => EventTypeOK
  <2> SUFFICES ASSUME StreamInv PROVE EventTypeOK
    OBVIOUS
  <2>1. StreamTypeOK /\ WindowVersions /\ Numbered /\ Len(channel) <= Capacity
    BY DEF StreamInv
  <2>2. \A i \in DOMAIN channel : channel[i] \in Events /\ channel[i].seq < sequence
    <3>1. channel \in Seq(Events) /\ DOMAIN channel = 1..Len(channel)
      BY <2>1 DEF StreamTypeOK
    <3> QED
      BY <2>1, <3>1, ElemsAreEvents DEF Elems, Numbered
  <2>3. \A j \in Jobs, e \in Emitters :
           emitting[j][e].rec \in Records /\ emitting[j][e].seq < sequence
    BY <2>1 DEF StreamTypeOK, Numbered
  <2>4. \A l \in lookups : l.rec \in Records
    BY <2>1 DEF StreamTypeOK
  <2> QED
    BY <2>1, <2>2, <2>3, <2>4 DEF EventTypeOK, StreamTypeOK, Numbered, WindowVersions
<1> QED
  BY <1>1, StreamInvHolds, PTL

(* For any jobs, connections and capacity of the channel: an event whose     *)
(* number the boundary of a snapshot filters out tells of a change that the  *)
(* snapshot has, which is what snapshot() promises its caller.               *)
THEOREM SnapshotsCoverTheirBoundary == Spec => []SnapshotCovers
<1>1. StreamInv => SnapshotCovers
  <2> SUFFICES ASSUME StreamInv PROVE SnapshotCovers
    OBVIOUS
  <2>1. channel \in Seq(Events) /\ DOMAIN channel = 1..Len(channel) /\ Covers
    BY DEF StreamInv, StreamTypeOK
  <2>2. \A i \in DOMAIN channel : channel[i] \in Elems(channel)
    BY <2>1 DEF Elems
  <2> QED
    BY <2>1, <2>2 DEF SnapshotCovers, Covers
<1> QED
  BY <1>1, StreamInvHolds, PTL

(* When nothing is on its way any more the window shows every job as the     *)
(* store has it, in what events tell and in its attempt, which they do not,  *)
(* except a job of which a version as new was kept from it by the full       *)
(* channel (where desktop-ipc-v1.md:46 promises a new connection and         *)
(* service.rs:283 makes none), a boundary, the guard of ended jobs or an     *)
(* older answer: every change is accounted for until the controller has      *)
(* taken or lost it.                                                         *)
THEOREM TheViewCatchesUp == Spec => []ViewIsCurrent
<1>1. StreamInv => ViewIsCurrent
  <2> SUFFICES ASSUME StreamInv, Quiet, NEW j \in Jobs
               PROVE  /\ \/ view[j].state = row[j].state
                               /\ (row[j].state = NotThere \/ view[j].rev = row[j].rev)
                         \/ missed[j] > 0 /\ missed[j] >= row[j].rev
                      /\ \/ row[j].state = NotThere \/ view[j].since = row[j].since
                         \/ missed[j] > 0 /\ missed[j] >= row[j].since
    BY DEF ViewIsCurrent
  <2>1. ~InQueue(j)
    BY NoElems DEF Quiet, InQueue
  <2>2. ~InSnapshot(j) /\ ~BegunInSnapshot(j) /\ ~Unconnected
    BY DEF Quiet, Ready, InSnapshot, BegunInSnapshot, Unconnected
  <2>3. ~InWindow(j)
    BY NoElems DEF Quiet, Ready, InWindow
  <2>4. ~InAnswer(j) /\ ~Called(j)
    BY DEF Quiet, InAnswer, Called, NoCall
  <2>5. Shown(j)
    BY <2>1, <2>2, <2>3, <2>4 DEF StreamInv, Accounted
  <2>6. Begun(j)
    BY <2>2, <2>4 DEF StreamInv, AttemptsAccounted
  <2>7. view[j].rev = row[j].rev => view[j].state = row[j].state
    BY DEF StreamInv, WindowVersions, Mixed
  <2> QED
    BY <2>5, <2>6, <2>7 DEF Shown, Begun
<1> QED
  BY <1>1, StreamInvHolds, PTL
=============================================================================
