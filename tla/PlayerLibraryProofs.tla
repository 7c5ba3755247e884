------------------------ MODULE PlayerLibraryProofs ------------------------
(***************************************************************************)
(* Theorems about PlayerLibrary, for every set of entries and every bound: *)
(* nothing unseen leaves the library, the window shows it, evidence that   *)
(* was accepted is stored, and the deleted stays deleted.                  *)
(*                                                                         *)
(* Commands and results form one pipeline, from the window through the     *)
(* worker and back.  The invariant is stated of a disk, a store, a window, *)
(* the entries being removed and the deleted ones, so that the parts of a  *)
(* handler can be taken one after the other.                               *)
(***************************************************************************)
EXTENDS PlayerLibrary, SequenceTheorems, TLAPS

-----------------------------------------------------------------------------
(* The inductive invariant                                                 *)

LibraryOf(d) == IF d.db # None THEN d.db ELSE IF d.prior # None THEN d.prior ELSE d.ini
Deleted == {e \in Entries : mark[e] = "deleted"}

HeadIsA(s, kinds) == s # <<>> /\ s[1].kind \in kinds
HeadOk(R, kinds) == R # <<>> /\ R[1].ok /\ R[1].kind \in kinds
Apart(X, S) == \A e \in X : e \notin S
ApartAll(X, p) == \A i \in 1..Len(p) : Apart(X, p[i])
NotAdded(X, q) == \A i \in 1..Len(q) : q[i].kind \in {"save"} \cup Adds => Apart(X, q[i].lib)
NotFound(X, R) == \A i \in 1..Len(R) : R[i].ok => Apart(X, R[i].lib)

\* Whatever removes something waits for an empty pipeline, and goes through it first.
FirstOK(q, R) ==
    /\ \A i \in 1..Len(q) : q[i].kind \notin Adds => i = 1 /\ R = <<>>
    /\ \A i \in 1..Len(R) : R[i].kind \notin Adds => i = 1

\* The evidence that is sent is in the pipeline, once, and stored when that is answered.
HasMatch(s) == \E i \in 1..Len(s) : s[i].kind = "match"
MatchOnce(s) == \A i, j \in 1..Len(s) : s[i].kind = "match" /\ s[j].kind = "match" => i = j
MatchesOK(q, R, act, lib) ==
    /\ \A i \in 1..Len(q) : q[i].kind = "match" => q[i].lib = act
    /\ HasMatch(q) \/ HasMatch(R) <=> act # None
    /\ MatchOnce(q) /\ MatchOnce(R) /\ ~(HasMatch(q) /\ HasMatch(R))
    /\ \A i \in 1..Len(R) : R[i].kind = "match" /\ R[i].ok => act \subseteq lib
FlushedOK(w) == w.exit = "done" /\ w.ready => w.pending = <<>> /\ w.active = None
DoneOK(lib, R, done) == done # None => done \subseteq lib \/ HeadOk(R, Removals)

\* What is published and the last result are what the database has.
StoredOK(d, st, w) ==
    /\ st.open => /\ d.db # None
                  /\ st.published = [lib |-> d.db, rev |-> d.rev, persisted |-> TRUE]
                  /\ \A i \in 1..Len(st.queue) : st.queue[i].kind # "init"
                  /\ \A i \in 1..Len(st.results) : st.results[i].persisted
                  /\ st.results # <<>> => /\ st.results[Len(st.results)].lib = d.db
                                          /\ st.results[Len(st.results)].rev = d.rev
                  /\ ~w.ready => HeadOk(st.results, {"init"})
    /\ ~st.open => /\ ~w.ready /\ ~st.published.persisted /\ st.aside = None
                   /\ \A i \in 1..Len(st.results) : ~st.results[i].persisted /\ ~st.results[i].ok
    /\ w.ready /\ st.results = <<>> =>
          w.committed = d.db /\ w.rev = d.rev /\ (st.queue = <<>> => w.view = d.db)
    /\ st.aside # None => HeadIsA(st.queue, {"reset"}) /\ d.config = {}

\* A removal is made from what the database has.
RemovalsOK(q, w) ==
    \A i \in 1..Len(q) : q[i].kind \in Removals =>
        w.ready /\ q[i].base = IF q[i].kind = "delete" THEN q[i].lib ELSE w.committed

\* What is being removed is gone once that is done.
AskedOK(d, q, R, w, a) ==
    /\ a \subseteq w.committed
    /\ a # {} => HeadIsA(q, Removals) \/ HeadIsA(R, Removals)
    /\ NotAdded(a, q) /\ ApartAll(a, w.pending)
    /\ \A i \in 1..Len(q) : q[i].kind = "delete" => a \subseteq q[i].lib
    /\ HeadOk(R, Removals) =>
          Apart(a, LibraryOf(d)) /\ NotFound(a, R) /\ (a # {} => R[1].rev # w.rev)

\* What is deleted is nowhere but in what a reset left behind.
DeletedOK(d, st, w, D) ==
    /\ Apart(D, LibraryOf(d)) /\ NotAdded(D, st.queue) /\ ApartAll(D, w.pending)
    /\ NotFound(D, st.results)
    /\ \A e \in D :
          /\ e \in w.roster \ w.excluded =>
                d.cleared /\ (~w.ready \/ HeadOk(st.results, {"reset"}))
          /\ e \in d.config \/ (st.aside # None /\ e \in st.aside) => d.cleared \/ w.unwritten

\* players_config has players of the match only, but after a reset that failed.
ConfigOK(d, q, R, w) ==
    /\ w.excluded # {} => d.cleared
    /\ ~w.unwritten /\ ~HeadIsA(q, {"reset"}) /\ ~HeadIsA(R, {"reset"}) => d.config \subseteq w.roster
    /\ HeadOk(R, {"reset"}) => d.cleared /\ d.config = {}

Waits(w) == w.pending # <<>> => w.active # None
Typed(d, st, w, a, D) == d \in Disks /\ st \in Stores /\ w \in Windows /\ a \in Sets /\ D \in Sets
Good(d, st, w, a, D) ==
    /\ Typed(d, st, w, a, D)
    /\ FirstOK(st.queue, st.results)
    /\ MatchesOK(st.queue, st.results, w.active, LibraryOf(d))
    /\ FlushedOK(w)
    /\ DoneOK(LibraryOf(d), st.results, w.done)
    /\ StoredOK(d, st, w)
    /\ RemovalsOK(st.queue, w)
    /\ AskedOK(d, st.queue, st.results, w, a)
    /\ DeletedOK(d, st, w, D)
    /\ ConfigOK(d, st.queue, st.results, w)
StateOK ==
    /\ disk \in Disks /\ store \in Stores /\ win \in Windows
    /\ page \in [rev : Nat, roster : Sets] /\ asked \in Sets
    /\ mark \in [Entries -> {"no", "deleted", "shown"}]
    /\ spent \in [{"edits", "arrivals", "faults", "starts"} -> Nat]
Inv == StateOK /\ Good(disk, store, win, asked, Deleted) /\ Waits(win)

\* What can be put back is players.
Older == past \in Sets /\ synced \in [before : Sets, after : Sets] \cup {None}

-----------------------------------------------------------------------------
(* Sequences and records                                                   *)

\* A sequence holds members of its set, and has a first one unless it is empty.
LEMMA SeqIs ==
    ASSUME NEW S, NEW s \in Seq(S)
    PROVE  /\ Len(s) \in Nat /\ \A i \in 1..Len(s) : s[i] \in S
           /\ s # <<>> => 1 \in 1..Len(s) /\ Head(s) = s[1] /\ Len(s) \in 1..Len(s)
           /\ s = <<>> => Len(s) = 0
  OBVIOUS

\* Appending leaves what was there in its place and adds one at the end.
LEMMA AppendIs ==
    ASSUME NEW S, NEW s \in Seq(S), NEW x \in S, NEW t, t = Append(s, x)
    PROVE  /\ t \in Seq(S) /\ t # <<>> /\ Len(s) \in Nat /\ Len(t) = Len(s) + 1
           /\ \A i \in 1..Len(s) : i \in 1..Len(t) /\ t[i] = s[i]
           /\ t[Len(s) + 1] = x
           /\ \A i \in 1..Len(t) : i \in 1..Len(s) \/ i = Len(s) + 1
           /\ s # <<>> => t[1] = s[1]
           /\ s = <<>> => t[1] = x /\ Len(t) = 1
  <1>1. /\ t \in Seq(S) /\ Len(s) \in Nat /\ Len(t) = Len(s) + 1
        /\ \A i \in 1..Len(s) : t[i] = s[i]
        /\ t[Len(s) + 1] = x
    OBVIOUS
  <1>2. s = <<>> => Len(s) = 0
    OBVIOUS
  <1>3. s # <<>> => 1 \in 1..Len(s)
    OBVIOUS
  <1> QED
    BY <1>1, <1>2, <1>3

\* Taking the first moves every other one place up.
LEMMA TailIs ==
    ASSUME NEW S, NEW s \in Seq(S), s # <<>>, NEW t, t = Tail(s)
    PROVE  /\ t \in Seq(S) /\ Len(t) = Len(s) - 1 /\ Len(t) \in Nat
           /\ \A i \in 1..Len(t) : i + 1 \in 1..Len(s) /\ i + 1 # 1 /\ t[i] = s[i + 1]
           /\ \A i \in 1..Len(s) : i = 1 \/ (i - 1 \in 1..Len(t) /\ t[i - 1] = s[i])
           /\ t # <<>> => t[Len(t)] = s[Len(s)]
           /\ t = <<>> => Len(s) = 1
  <1>1. /\ t \in Seq(S) /\ Len(s) \in Nat /\ Len(s) >= 1 /\ Len(t) = Len(s) - 1
        /\ \A i \in 1..(Len(s) - 1) : t[i] = s[i + 1]
    OBVIOUS
  <1>2. t # <<>> => Len(t) # 0
    BY <1>1
  <1>3. t = <<>> => Len(t) = 0
    OBVIOUS
  <1> QED
    BY <1>1, <1>2, <1>3

\* What is sent goes to the end of the queue.
LEMMA SentIs ==
    ASSUME NEW st \in Stores, NEW c \in Commands, NEW t, t = Sent(st, c)
    PROVE  /\ t \in Stores /\ t.queue = Append(st.queue, c) /\ t.results = st.results
           /\ t.published = st.published /\ t.open = st.open /\ t.aside = st.aside
  <1>1. st.queue \in Seq(Commands)
    BY DEF Stores
  <1>2. PICK q : q = Append(st.queue, c)
    OBVIOUS
  <1>3. q \in Seq(Commands)
    BY <1>1, <1>2
  <1>4. t = [st EXCEPT !.queue = q]
    BY <1>2 DEF Sent
  <1> QED
    BY <1>2, <1>3, <1>4 DEF Stores

-----------------------------------------------------------------------------
(* What the parts of the handlers do to the invariant                      *)

\* A command of the window, but for evidence.
LEMMA SendOK ==
    ASSUME NEW d, NEW st, NEW w, NEW a, NEW D, Good(d, st, w, a, D),
           NEW c \in Commands, c.kind \notin {"match", "init"},
           c.kind \notin Adds => /\ st.queue = <<>> /\ st.results = <<>>
                                 /\ w.ready /\ w.pending = <<>>
                                 /\ c.base = IF c.kind = "delete" THEN c.lib ELSE w.committed,
           NEW b \in Sets, b \subseteq a \/ (c.kind \in Removals /\ b \subseteq w.committed),
           c.kind \in {"save"} \cup Adds => Apart(D, c.lib) /\ Apart(b, c.lib),
           c.kind = "delete" => b \subseteq c.lib,
           NEW t, t = Sent(st, c)
    PROVE  Good(d, t, w, b, D)
  <1> DEFINE q == st.queue
             R == st.results
  <1>1. Typed(d, st, w, a, D) /\ q \in Seq(Commands) /\ R \in Seq(Results)
    BY DEF Good, Typed, Stores
  <1>2. /\ t \in Stores /\ t.queue = Append(q, c) /\ t.results = R
        /\ t.published = st.published /\ t.open = st.open /\ t.aside = st.aside
    <2>1. st \in Stores
      BY <1>1 DEF Typed
    <2> QED
      BY <2>1, SentIs
  <1>3. /\ Len(q) \in Nat /\ Len(t.queue) = Len(q) + 1 /\ t.queue # <<>>
        /\ \A i \in 1..Len(q) : i \in 1..Len(t.queue) /\ t.queue[i] = q[i]
        /\ t.queue[Len(q) + 1] = c
        /\ \A i \in 1..Len(t.queue) : i \in 1..Len(q) \/ i = Len(q) + 1
        /\ q # <<>> => t.queue[1] = q[1]
        /\ q = <<>> => t.queue[1] = c /\ Len(q) = 0
    <2>1. PICK p : p = Append(q, c)
      OBVIOUS
    <2>2. q = <<>> => Len(q) = 0
      OBVIOUS
    <2> QED
      BY <1>1, <1>2, <2>1, <2>2, AppendIs
  <1> HIDE DEF q, R
  <1>4. Typed(d, t, w, b, D)
    BY <1>1, <1>2 DEF Typed
  <1>5. FirstOK(t.queue, t.results)
    BY <1>2, <1>3 DEF Good, FirstOK, q, R
  <1>6. MatchesOK(t.queue, t.results, w.active, LibraryOf(d))
    <2>1. HasMatch(t.queue) <=> HasMatch(q)
      BY <1>3 DEF HasMatch
    <2>2. MatchOnce(t.queue) <=> MatchOnce(q)
      <3>1. \A i \in 1..Len(t.queue) :
              t.queue[i].kind = "match" => i \in 1..Len(q) /\ q[i].kind = "match"
        BY <1>3
      <3>2. \A i \in 1..Len(q) : i \in 1..Len(t.queue) /\ t.queue[i].kind = q[i].kind
        BY <1>3
      <3> QED
        BY <3>1, <3>2 DEF MatchOnce
    <2> QED
      BY <1>2, <1>3, <2>1, <2>2 DEF Good, MatchesOK, q, R
  <1>7. StoredOK(d, t, w)
    <2>1. st.aside # None => HeadIsA(t.queue, {"reset"})
      BY <1>3 DEF Good, StoredOK, HeadIsA, q
    <2> QED
      BY <1>2, <1>3, <2>1 DEF Good, StoredOK, q, R
  <1>8. RemovalsOK(t.queue, w)
    <2>1. c.kind \in Removals =>
            w.ready /\ c.base = IF c.kind = "delete" THEN c.lib ELSE w.committed
      BY DEF Removals, Adds
    <2>2. \A i \in 1..Len(q) : q[i].kind \in Removals =>
            w.ready /\ q[i].base = IF q[i].kind = "delete" THEN q[i].lib ELSE w.committed
      BY DEF Good, RemovalsOK, q
    <2> QED
      BY <1>3, <2>1, <2>2 DEF RemovalsOK
  <1>9. b # {} => HeadIsA(t.queue, Removals) \/ HeadIsA(t.results, Removals)
    BY <1>2, <1>3 DEF Good, AskedOK, HeadIsA, Removals, Adds, q, R
  <1>10. AskedOK(d, t.queue, t.results, w, b)
    <2>1. b \subseteq w.committed
      BY DEF Good, AskedOK
    <2>2. NotAdded(b, t.queue) /\ \A i \in 1..Len(t.queue) : t.queue[i].kind = "delete" => b \subseteq t.queue[i].lib
      <3>1. \A i \in 1..Len(q) : b \subseteq a
        BY <1>3 DEF Removals, Adds, q
      <3>2. \A i \in 1..Len(q) :
              /\ q[i].kind \in {"save"} \cup Adds => Apart(b, q[i].lib)
              /\ q[i].kind = "delete" => b \subseteq q[i].lib
        BY <3>1 DEF Good, AskedOK, NotAdded, Apart, q
      <3> QED
        BY <1>3, <3>2 DEF NotAdded
    <2>3. ApartAll(b, w.pending)
      BY DEF Good, AskedOK, ApartAll, Apart, Removals, Adds
    <2>4. HeadOk(R, Removals) =>
            Apart(b, LibraryOf(d)) /\ NotFound(b, R) /\ (b # {} => R[1].rev # w.rev)
      BY DEF Good, AskedOK, HeadOk, NotFound, Apart, Removals, Adds, R
    <2> QED
      BY <1>2, <1>9, <2>1, <2>2, <2>3, <2>4 DEF AskedOK
  <1>11. DeletedOK(d, t, w, D)
    <2>1. NotAdded(D, t.queue)
      BY <1>3 DEF Good, DeletedOK, NotAdded, q
    <2> QED
      BY <1>2, <2>1 DEF Good, DeletedOK, R
  <1>12. ConfigOK(d, t.queue, t.results, w)
    BY <1>2, <1>3 DEF Good, ConfigOK, HeadIsA, q, R
  <1> QED
    BY <1>2, <1>4, <1>5, <1>6, <1>7, <1>8, <1>10, <1>11, <1>12 DEF Good, R

\* Evidence that waits is sent (PumpSyncedPlayerLibrary).
Pumped(w) == [w EXCEPT !.active = Head(w.pending), !.pending = Tail(@)]

\* PumpMatches sends the first pending evidence and keeps everything good.
LEMMA PumpOK ==
    ASSUME NEW d, NEW st, NEW w, NEW a, NEW D, Good(d, st, w, a, D),
           w.active = None, w.pending # <<>>,
           NEW c \in Commands, c.kind = "match", c.lib = Head(w.pending),
           NEW t, t = Sent(st, c),
           NEW x, x = Pumped(w)
    PROVE  Good(d, t, x, a, D) /\ x.active # None
  <1> DEFINE q == st.queue
             R == st.results
  <1>1. /\ Typed(d, st, w, a, D) /\ q \in Seq(Commands) /\ R \in Seq(Results)
        /\ w \in Windows /\ w.pending \in Seq(Sets)
    BY DEF Good, Typed, Stores, Windows
  <1>2. /\ t \in Stores /\ t.queue = Append(q, c) /\ t.results = R
        /\ t.published = st.published /\ t.open = st.open /\ t.aside = st.aside
    <2>1. st \in Stores
      BY <1>1 DEF Typed
    <2> QED
      BY <2>1, SentIs
  <1>3. /\ Len(q) \in Nat /\ Len(t.queue) = Len(q) + 1 /\ t.queue # <<>>
        /\ \A i \in 1..Len(q) : i \in 1..Len(t.queue) /\ t.queue[i] = q[i]
        /\ Len(q) + 1 \in 1..Len(t.queue) /\ t.queue[Len(q) + 1] = c
        /\ \A i \in 1..Len(t.queue) : i \in 1..Len(q) \/ i = Len(q) + 1
        /\ q # <<>> => t.queue[1] = q[1]
        /\ q = <<>> => t.queue[1] = c /\ Len(q) = 0
    <2>1. PICK p : p = Append(q, c)
      OBVIOUS
    <2>2. q = <<>> => Len(q) = 0
      OBVIOUS
    <2> QED
      BY <1>1, <1>2, <2>1, <2>2, AppendIs
  <1> HIDE DEF q, R
  <1>4. PICK s, p : s = Head(w.pending) /\ p = Tail(w.pending)
    OBVIOUS
  <1>5. /\ s \in Sets /\ s # None /\ s = w.pending[1] /\ 1 \in 1..Len(w.pending)
        /\ p \in Seq(Sets)
        /\ \A i \in 1..Len(p) : i + 1 \in 1..Len(w.pending) /\ p[i] = w.pending[i + 1]
    BY <1>1, <1>4, SeqIs, TailIs, NoneAssumption DEF Sets
  <1>6. x = [w EXCEPT !.active = s, !.pending = p]
    BY <1>4 DEF Pumped
  <1>7. /\ x \in Windows /\ x.active = s /\ x.pending = p
        /\ x.ready = w.ready /\ x.view = w.view /\ x.committed = w.committed /\ x.rev = w.rev
        /\ x.roster = w.roster /\ x.excluded = w.excluded /\ x.done = w.done
        /\ x.exit = w.exit /\ x.unwritten = w.unwritten
    BY <1>1, <1>5, <1>6 DEF Windows, Maybe
  <1>8. Typed(d, t, x, a, D)
    BY <1>1, <1>2, <1>7 DEF Typed
  <1>9. FirstOK(t.queue, t.results)
    BY <1>2, <1>3 DEF Good, FirstOK, Adds, q, R
  <1>10. ~HasMatch(q) /\ ~HasMatch(R)
    BY DEF Good, MatchesOK, q, R
  <1>11. MatchesOK(t.queue, t.results, x.active, LibraryOf(d))
    <2>1. HasMatch(t.queue)
      BY <1>3 DEF HasMatch
    <2>2. \A i \in 1..Len(t.queue) : t.queue[i].kind = "match" => i = Len(q) + 1
      BY <1>3, <1>10 DEF HasMatch
    <2>3. MatchOnce(t.queue) /\ MatchOnce(R) /\ \A i \in 1..Len(R) : R[i].kind # "match"
      BY <1>10, <2>2 DEF HasMatch, MatchOnce
    <2>4. \A i \in 1..Len(t.queue) : t.queue[i].kind = "match" => t.queue[i].lib = s
      BY <1>3, <1>4, <2>2
    <2> QED
      BY <1>2, <1>5, <1>7, <1>10, <2>1, <2>3, <2>4 DEF MatchesOK
  <1>12. FlushedOK(x)
    BY <1>7 DEF Good, FlushedOK
  <1>13. StoredOK(d, t, x)
    <2>1. st.aside # None => HeadIsA(t.queue, {"reset"})
      BY <1>3 DEF Good, StoredOK, HeadIsA, q
    <2> QED
      BY <1>2, <1>3, <1>7, <2>1 DEF Good, StoredOK, q, R
  <1>14. RemovalsOK(t.queue, x)
    <2>1. \A i \in 1..Len(q) : q[i].kind \in Removals =>
            w.ready /\ q[i].base = IF q[i].kind = "delete" THEN q[i].lib ELSE w.committed
      BY DEF Good, RemovalsOK, q
    <2>2. c.kind \notin Removals
      BY DEF Removals
    <2> QED
      BY <1>3, <1>7, <2>1, <2>2 DEF RemovalsOK
  <1>15. ASSUME NEW X, NotAdded(X, q), ApartAll(X, w.pending)
         PROVE  NotAdded(X, t.queue) /\ ApartAll(X, p)
    <2>1. Apart(X, s) /\ ApartAll(X, p)
      BY <1>5, <1>15 DEF ApartAll
    <2>2. Apart(X, c.lib)
      BY <1>4, <2>1
    <2> QED
      BY <1>3, <1>15, <2>1, <2>2 DEF NotAdded
  <1>16. AskedOK(d, t.queue, t.results, x, a)
    <2>1. /\ NotAdded(a, t.queue) /\ ApartAll(a, p)
          /\ \A i \in 1..Len(t.queue) : t.queue[i].kind = "delete" => a \subseteq t.queue[i].lib
      BY <1>3, <1>15 DEF Good, AskedOK, q
    <2>2. a # {} => HeadIsA(t.queue, Removals) \/ HeadIsA(R, Removals)
      BY <1>3 DEF Good, AskedOK, HeadIsA, q, R
    <2> QED
      BY <1>2, <1>7, <2>1, <2>2 DEF Good, AskedOK, R
  <1>17. DeletedOK(d, t, x, D)
    <2>1. NotAdded(D, t.queue) /\ ApartAll(D, p)
      BY <1>15 DEF Good, DeletedOK, q
    <2> QED
      BY <1>2, <1>7, <2>1 DEF Good, DeletedOK, R
  <1>18. ConfigOK(d, t.queue, t.results, x)
    BY <1>2, <1>3, <1>7 DEF Good, ConfigOK, HeadIsA, q, R
  <1> QED
    BY <1>2, <1>5, <1>7, <1>8, <1>9, <1>11, <1>12, <1>13, <1>14, <1>16, <1>17, <1>18 DEF Good, R

\* Evidence waits to be sent (Enqueue).
LEMMA EnqueueOK ==
    ASSUME NEW d, NEW st, NEW w, NEW a, NEW D, Good(d, st, w, a, D),
           NEW s \in Sets, w.exit # "done", Apart(D, s), NEW b \in Sets, b \subseteq a, Apart(b, s),
           NEW x, x = [w EXCEPT !.pending = Append(@, s)]
    PROVE  Good(d, st, x, b, D)
  <1>1. w \in Windows /\ w.pending \in Seq(Sets)
    BY DEF Good, Typed, Windows
  <1>2. PICK p : p = Append(w.pending, s)
    OBVIOUS
  <1>3. /\ p \in Seq(Sets) /\ Len(w.pending) \in Nat
        /\ \A i \in 1..Len(w.pending) : p[i] = w.pending[i]
        /\ p[Len(w.pending) + 1] = s
        /\ \A i \in 1..Len(p) : i \in 1..Len(w.pending) \/ i = Len(w.pending) + 1
    BY <1>1, <1>2, AppendIs
  <1>4. x = [w EXCEPT !.pending = p]
    BY <1>2
  <1>5. /\ x \in Windows /\ x.active = w.active /\ x.pending = p
        /\ x.ready = w.ready /\ x.view = w.view /\ x.committed = w.committed /\ x.rev = w.rev
        /\ x.roster = w.roster /\ x.excluded = w.excluded /\ x.done = w.done
        /\ x.exit = w.exit /\ x.unwritten = w.unwritten
    BY <1>1, <1>3, <1>4 DEF Windows
  <1>6. Typed(d, st, x, b, D)
    BY <1>5 DEF Good, Typed
  <1>7. FlushedOK(x)
    BY <1>5 DEF FlushedOK
  <1>8. StoredOK(d, st, x) /\ RemovalsOK(st.queue, x)
    BY <1>5 DEF Good, StoredOK, RemovalsOK
  <1>9. AskedOK(d, st.queue, st.results, x, b)
    <2>1. ApartAll(b, p)
      BY <1>3 DEF Good, AskedOK, ApartAll, Apart
    <2>2. NotAdded(b, st.queue) /\ (NotFound(a, st.results) => NotFound(b, st.results))
      BY DEF Good, AskedOK, NotAdded, NotFound, Apart
    <2>3. Apart(a, LibraryOf(d)) => Apart(b, LibraryOf(d))
      BY DEF Apart
    <2> QED
      BY <1>5, <2>1, <2>2, <2>3 DEF Good, AskedOK
  <1>10. DeletedOK(d, st, x, D)
    <2>1. ApartAll(D, p)
      BY <1>3 DEF Good, DeletedOK, ApartAll
    <2> QED
      BY <1>5, <2>1 DEF Good, DeletedOK
  <1>11. ConfigOK(d, st.queue, st.results, x)
    BY <1>5 DEF Good, ConfigOK
  <1> QED
    BY <1>5, <1>6, <1>7, <1>8, <1>9, <1>10, <1>11 DEF Good

\* Fewer are asked to leave, or deleted.
LEMMA LessOK ==
    ASSUME NEW d, NEW st, NEW w, NEW a, NEW D, Good(d, st, w, a, D),
           NEW b \in Sets, b \subseteq a, NEW E \in Sets, E \subseteq D
    PROVE  Good(d, st, w, b, E)
  <1>1. \A S : /\ Apart(a, S) => Apart(b, S)
               /\ Apart(D, S) => Apart(E, S)
    BY DEF Apart
  <1>2. Typed(d, st, w, b, E)
    BY DEF Good, Typed
  <1>3. AskedOK(d, st.queue, st.results, w, b)
    <2>1. NotAdded(b, st.queue) /\ (NotFound(a, st.results) => NotFound(b, st.results))
      BY <1>1 DEF Good, AskedOK, NotAdded, NotFound
    <2>2. ApartAll(b, w.pending)
      BY <1>1 DEF Good, AskedOK, ApartAll
    <2> QED
      BY <1>1, <2>1, <2>2 DEF Good, AskedOK
  <1>4. DeletedOK(d, st, w, E)
    BY <1>1 DEF Good, DeletedOK, NotAdded, NotFound, ApartAll
  <1> QED
    BY <1>2, <1>3, <1>4 DEF Good

\* The program ends, or will; a public library is on its way or no longer.
Flagged(w, e, p) == [w EXCEPT !.exit = e, !.pulling = p]

\* The window may be told to exit, and begin or end a pull, once nothing pending is lost by it.
LEMMA FlagsOK ==
    ASSUME NEW d, NEW st, NEW w, NEW a, NEW D, Good(d, st, w, a, D),
           NEW e \in {"no", "pending", "done"}, NEW p \in BOOLEAN,
           e = "done" /\ w.ready => w.pending = <<>> /\ w.active = None,
           NEW x, x = Flagged(w, e, p)
    PROVE  Good(d, st, x, a, D) /\ x.pending = w.pending /\ x.active = w.active
  <1>1. w \in Windows
    BY DEF Good, Typed
  <1>2. /\ x \in Windows /\ x.active = w.active /\ x.pending = w.pending
        /\ x.ready = w.ready /\ x.view = w.view /\ x.committed = w.committed /\ x.rev = w.rev
        /\ x.roster = w.roster /\ x.excluded = w.excluded /\ x.done = w.done
        /\ x.exit = e /\ x.unwritten = w.unwritten
    BY <1>1 DEF Windows, Flagged
  <1> QED
    BY <1>2 DEF Good, Typed, FlushedOK, StoredOK, RemovalsOK, AskedOK, DeletedOK, ConfigOK

\* The window and the disk after an edit of the players of the match.
Edited(w, roster, view) == [w EXCEPT !.roster = roster, !.view = view]
WithConfig(d, roster) == [d EXCEPT !.config = roster]
Writes(d, e, st, w, roster) ==
    /\ e = d \/ e = WithConfig(d, roster)
    /\ HeadIsA(st.queue, {"reset"}) \/ HeadIsA(st.results, {"reset"}) => e = d
    /\ \/ e.config = roster \/ w.roster \subseteq roster
       \/ HeadIsA(st.queue, {"reset"}) \/ HeadIsA(st.results, {"reset"})

\* The players of the match change, and with them the file of the players.
LEMMA EditOK ==
    ASSUME NEW d, NEW st, NEW w, NEW a, NEW D, Good(d, st, w, a, D),
           NEW roster \in Sets, NEW view \in Sets,
           NEW e, Writes(d, e, st, w, roster), NEW x, x = Edited(w, roster, view),
           D \cap roster \subseteq w.roster,
           w.ready /\ st.queue = <<>> /\ st.results = <<>> => view = d.db
    PROVE  Good(e, st, x, a, D) /\ x.pending = w.pending /\ x.active = w.active
  <1> /\ e = d \/ e = WithConfig(d, roster)
      /\ HeadIsA(st.queue, {"reset"}) \/ HeadIsA(st.results, {"reset"}) => e = d
      /\ \/ e.config = roster \/ w.roster \subseteq roster
         \/ HeadIsA(st.queue, {"reset"}) \/ HeadIsA(st.results, {"reset"})
    BY DEF Writes
  <1>1. w \in Windows /\ d \in Disks
    BY DEF Good, Typed
  <1>2. /\ x \in Windows /\ x.active = w.active /\ x.pending = w.pending
        /\ x.ready = w.ready /\ x.view = view /\ x.committed = w.committed /\ x.rev = w.rev
        /\ x.roster = roster /\ x.excluded = w.excluded /\ x.done = w.done
        /\ x.exit = w.exit /\ x.unwritten = w.unwritten
    BY <1>1 DEF Windows, Edited
  <1>3. /\ e \in Disks /\ e.db = d.db /\ e.prior = d.prior /\ e.ini = d.ini /\ e.rev = d.rev
        /\ e.cleared = d.cleared /\ (e.config = d.config \/ e.config = roster)
    BY <1>1 DEF Disks, WithConfig
  <1>4. LibraryOf(e) = LibraryOf(d)
    BY <1>3 DEF LibraryOf
  <1>5. Typed(e, st, x, a, D)
    BY <1>2, <1>3 DEF Good, Typed
  <1>6. StoredOK(e, st, x)
    <2>1. st.aside # None => HeadIsA(st.queue, {"reset"}) /\ d.config = {} /\ e = d
      BY DEF Good, StoredOK
    <2> QED
      BY <1>2, <1>3, <2>1 DEF Good, StoredOK
  <1>7. AskedOK(e, st.queue, st.results, x, a)
    BY <1>2, <1>4 DEF Good, AskedOK
  <1>8. DeletedOK(e, st, x, D)
    <2>1. ASSUME NEW z \in D, z \in roster
          PROVE  z \in w.roster /\ d.cleared
      BY <2>1 DEF Good, DeletedOK, ConfigOK
    <2>2. ASSUME NEW z \in D, z \in roster \ w.excluded
          PROVE  d.cleared /\ (~w.ready \/ HeadOk(st.results, {"reset"}))
      BY <2>1, <2>2 DEF Good, DeletedOK
    <2>3. ASSUME NEW z \in D, z \in e.config \/ (st.aside # None /\ z \in st.aside)
          PROVE  d.cleared \/ w.unwritten
      BY <1>3, <2>1, <2>3 DEF Good, DeletedOK
    <2> QED
      BY <1>2, <1>3, <1>4, <2>2, <2>3 DEF Good, DeletedOK
  <1>9. ConfigOK(e, st.queue, st.results, x)
    <2>1. HeadOk(st.results, {"reset"}) => HeadIsA(st.results, {"reset"})
      BY DEF HeadOk, HeadIsA
    <2> QED
      BY <1>2, <1>3, <2>1 DEF Good, ConfigOK
  <1>10. FlushedOK(x) /\ RemovalsOK(st.queue, x)
    BY <1>2 DEF Good, FlushedOK, RemovalsOK
  <1> QED
    BY <1>2, <1>4, <1>5, <1>6, <1>7, <1>8, <1>9, <1>10 DEF Good

-----------------------------------------------------------------------------
(* What the worker does to the invariant                                   *)

\* The first command leaves the queue, and its result r comes.
Popped(st, t, r) ==
    /\ st.queue # <<>> /\ t \in Stores /\ t.queue = Tail(st.queue)
    /\ t.results = Append(st.results, r) /\ t.aside = None

\* What the worker leaves of its queues when it answers a command.
LEMMA PoppedIs ==
    ASSUME NEW st \in Stores, NEW r \in Results, NEW t, Popped(st, t, r)
    PROVE  /\ Len(st.queue) \in Nat /\ Len(t.queue) \in Nat /\ 1 \in 1..Len(st.queue)
           /\ Head(st.queue) = st.queue[1] /\ st.queue[1] \in Commands
           /\ \A i \in 1..Len(t.queue) :
                 i + 1 \in 1..Len(st.queue) /\ i + 1 # 1 /\ t.queue[i] = st.queue[i + 1]
           /\ \A i \in 1..Len(st.queue) : i = 1 \/ (i - 1 \in 1..Len(t.queue) /\ t.queue[i - 1] = st.queue[i])
           /\ t.results # <<>> /\ Len(st.results) \in Nat /\ Len(t.results) = Len(st.results) + 1
           /\ \A i \in 1..Len(st.results) : i \in 1..Len(t.results) /\ t.results[i] = st.results[i]
           /\ Len(t.results) \in 1..Len(t.results) /\ t.results[Len(t.results)] = r
           /\ \A i \in 1..Len(t.results) : i \in 1..Len(st.results) \/ i = Len(t.results)
           /\ st.results # <<>> => t.results[1] = st.results[1] /\ Len(t.results) # 1
           /\ st.results = <<>> => t.results[1] = r /\ Len(t.results) = 1
  <1>1. st.queue \in Seq(Commands) /\ st.results \in Seq(Results)
    BY DEF Stores
  <1>2. PICK q, R : q = Tail(st.queue) /\ R = Append(st.results, r)
    OBVIOUS
  <1>3. /\ Len(st.queue) \in Nat /\ 1 \in 1..Len(st.queue)
        /\ Head(st.queue) = st.queue[1] /\ st.queue[1] \in Commands
    BY <1>1, SeqIs DEF Popped
  <1>4. /\ Len(q) \in Nat
        /\ \A i \in 1..Len(q) : i + 1 \in 1..Len(st.queue) /\ i + 1 # 1 /\ q[i] = st.queue[i + 1]
        /\ \A i \in 1..Len(st.queue) : i = 1 \/ (i - 1 \in 1..Len(q) /\ q[i - 1] = st.queue[i])
    BY <1>1, <1>2, TailIs DEF Popped
  <1>5. /\ R # <<>> /\ Len(st.results) \in Nat /\ Len(R) = Len(st.results) + 1
        /\ \A i \in 1..Len(st.results) : i \in 1..Len(R) /\ R[i] = st.results[i]
        /\ R[Len(st.results) + 1] = r
        /\ \A i \in 1..Len(R) : i \in 1..Len(st.results) \/ i = Len(st.results) + 1
        /\ st.results # <<>> => R[1] = st.results[1]
        /\ st.results = <<>> => R[1] = r /\ Len(R) = 1
    BY <1>1, <1>2, AppendIs
  <1>6. st.results # <<>> => Len(st.results) # 0
    BY <1>1
  <1>7. Len(R) \in 1..Len(R) /\ (st.results # <<>> => Len(R) # 1)
    BY <1>5, <1>6
  <1> QED
    BY <1>2, <1>3, <1>4, <1>5, <1>7 DEF Popped

\* The pipeline keeps its order, and the evidence in it.
LEMMA PoppedOK ==
    ASSUME NEW st \in Stores, NEW act, NEW lib, NEW lib2, NEW r \in Results,
           NEW t, Popped(st, t, r),
           FirstOK(st.queue, st.results), MatchesOK(st.queue, st.results, act, lib),
           r.kind = st.queue[1].kind, act # None => lib \subseteq lib2 \/ st.results = <<>>,
           r.kind = "match" /\ r.ok => act \subseteq lib2
    PROVE  /\ FirstOK(t.queue, t.results) /\ MatchesOK(t.queue, t.results, act, lib2)
           /\ \A i \in 1..Len(t.queue) : t.queue[i].kind \in Adds
  <1>a. \A i \in 1..Len(t.queue) :
           i + 1 \in 1..Len(st.queue) /\ i + 1 # 1 /\ t.queue[i] = st.queue[i + 1]
    BY PoppedIs
  <1>b. \A i \in 1..Len(st.queue) :
           i = 1 \/ (i - 1 \in 1..Len(t.queue) /\ t.queue[i - 1] = st.queue[i])
    BY PoppedIs
  <1>c. 1 \in 1..Len(st.queue) /\ Len(t.queue) \in Nat /\ Len(t.results) \in 1..Len(t.results)
    BY PoppedIs
  <1>d. /\ \A i \in 1..Len(st.results) : i \in 1..Len(t.results) /\ t.results[i] = st.results[i]
        /\ t.results[Len(t.results)] = r
        /\ \A i \in 1..Len(t.results) : i \in 1..Len(st.results) \/ i = Len(t.results)
    BY PoppedIs
  <1>1. \A i \in 1..Len(t.queue) : t.queue[i].kind \in Adds
    BY PoppedIs DEF FirstOK
  <1>2. FirstOK(t.queue, t.results)
    <2>1. \A i \in 1..Len(t.results) : t.results[i].kind \notin Adds => i = 1
      <3>1. r.kind \notin Adds => st.results = <<>>
        BY PoppedIs DEF FirstOK
      <3>2. \A i \in 1..Len(st.results) : t.results[i].kind \notin Adds => i = 1
        BY PoppedIs DEF FirstOK
      <3> QED
        BY <3>1, <3>2, PoppedIs
    <2> QED
      BY <1>1, <2>1 DEF FirstOK
  <1>3. \A i \in 1..Len(t.queue) : t.queue[i].kind = "match" => t.queue[i].lib = act
    BY <1>a DEF MatchesOK
  <1>4. HasMatch(st.queue) <=> HasMatch(t.queue) \/ r.kind = "match"
    <2>1. ASSUME NEW i \in 1..Len(st.queue), st.queue[i].kind = "match"
          PROVE  HasMatch(t.queue) \/ r.kind = "match"
      <3>1. CASE i = 1
        BY <2>1, <3>1
      <3>2. CASE i - 1 \in 1..Len(t.queue) /\ t.queue[i - 1] = st.queue[i]
        BY <2>1, <3>2 DEF HasMatch
      <3> QED
        BY <1>b, <3>1, <3>2
    <2>2. HasMatch(t.queue) => HasMatch(st.queue)
      BY <1>a DEF HasMatch
    <2>3. r.kind = "match" => HasMatch(st.queue)
      BY <1>c DEF HasMatch
    <2> QED
      BY <2>1, <2>2, <2>3 DEF HasMatch
  <1>5. HasMatch(t.results) <=> HasMatch(st.results) \/ r.kind = "match"
    BY <1>c, <1>d DEF HasMatch
  <1>6. HasMatch(t.queue) => r.kind # "match"
    <2>1. MatchOnce(st.queue)
      BY DEF MatchesOK
    <2>2. ASSUME NEW i \in 1..Len(t.queue), t.queue[i].kind = "match", r.kind = "match" PROVE FALSE
      <3>1. /\ i + 1 \in 1..Len(st.queue) /\ i + 1 # 1 /\ st.queue[i + 1].kind = "match"
            /\ 1 \in 1..Len(st.queue) /\ st.queue[1].kind = "match"
        BY <1>a, <1>c, <2>2
      <3> QED
        BY <2>1, <3>1 DEF MatchOnce
    <2> QED
      BY <2>2 DEF HasMatch
  <1>7. MatchOnce(t.queue)
    <2>1. ASSUME NEW i \in 1..Len(t.queue), NEW j \in 1..Len(t.queue),
                 t.queue[i].kind = "match", t.queue[j].kind = "match"
          PROVE  i + 1 = j + 1
      BY <1>a, <2>1 DEF MatchOnce, MatchesOK
    <2> QED
      BY <1>c, <2>1 DEF MatchOnce
  <1>8. MatchOnce(t.results)
    <2>1. r.kind = "match" => \A i \in 1..Len(st.results) : st.results[i].kind # "match"
      BY <1>4 DEF MatchesOK, HasMatch
    <2>2. \A i \in 1..Len(t.results) : t.results[i].kind = "match" =>
            \/ i = Len(t.results) /\ r.kind = "match"
            \/ i \in 1..Len(st.results) /\ st.results[i].kind = "match"
      BY PoppedIs
    <2> QED
      BY <2>1, <2>2 DEF MatchesOK, MatchOnce
  <1>9. ASSUME NEW i \in 1..Len(t.results), t.results[i].kind = "match", t.results[i].ok
        PROVE  act \subseteq lib2
    <2>1. CASE i = Len(t.results)
      BY <1>9, <2>1, PoppedIs
    <2>2. CASE i \in 1..Len(st.results)
      <3>1. act \subseteq lib /\ act # None
        <4>1. st.results[i].kind = "match" /\ st.results[i].ok
          BY <1>d, <1>9, <2>2
        <4>2. HasMatch(st.results)
          BY <2>2, <4>1 DEF HasMatch
        <4> QED
          BY <2>2, <4>1, <4>2 DEF MatchesOK
      <3>2. st.results # <<>>
        BY <2>2
      <3> QED
        BY <3>1, <3>2
    <2> QED
      BY <2>1, <2>2, PoppedIs
  <1> QED
    BY <1>1, <1>2, <1>3, <1>4, <1>5, <1>6, <1>7, <1>8, <1>9 DEF MatchesOK

\* The result r of the first command tells what is published.
Answered(st, t, r) ==
    /\ r \in Results /\ Popped(st, t, r) /\ r.kind = st.queue[1].kind
    /\ r.lib = t.published.lib /\ r.rev = t.published.rev /\ r.persisted = t.published.persisted

\* A command fails; a reset puts the file of the players back.
LEMMA FailOK ==
    ASSUME NEW d, NEW st, NEW w, NEW a, NEW D, Good(d, st, w, a, D),
           NEW r, NEW t, Answered(st, t, r), ~r.ok, t.open = st.open,
           t.published = st.published \/ (~st.open /\ ~t.published.persisted),
           NEW e, e = d \/ (st.aside # None /\ e = [d EXCEPT !.config = st.aside])
    PROVE  Good(e, t, w, a, D)
  <1> r \in Results /\ Popped(st, t, r) /\ r.kind = st.queue[1].kind
    BY DEF Answered
  <1> r.lib = t.published.lib /\ r.rev = t.published.rev /\ r.persisted = t.published.persisted
    BY DEF Answered
  <1>1. Typed(d, st, w, a, D) /\ d \in Disks /\ st \in Stores /\ st.aside \in Maybe
    BY DEF Good, Typed, Stores
  <1>2. /\ e \in Disks /\ e.db = d.db /\ e.prior = d.prior /\ e.ini = d.ini /\ e.rev = d.rev
        /\ e.cleared = d.cleared /\ (e = d \/ (st.aside # None /\ e.config = st.aside))
    <2>1. st.aside # None => st.aside \in Sets
      BY <1>1 DEF Maybe
    <2>2. CASE e = d
      BY <1>1, <2>2
    <2>3. CASE st.aside # None /\ e = [d EXCEPT !.config = st.aside]
      BY <1>1, <2>1, <2>3 DEF Disks
    <2> QED
      BY <2>2, <2>3
  <1>3. LibraryOf(e) = LibraryOf(d)
    BY <1>2 DEF LibraryOf
  <1>4. Typed(e, t, w, a, D)
    BY <1>1, <1>2 DEF Typed, Popped
  <1>5. /\ FirstOK(t.queue, t.results) /\ MatchesOK(t.queue, t.results, w.active, LibraryOf(e))
        /\ \A i \in 1..Len(t.queue) : t.queue[i].kind \in Adds
    BY <1>1, <1>3, PoppedOK DEF Good
  <1>6. /\ st.results # <<>> => t.results # <<>> /\ t.results[1] = st.results[1]
        /\ st.results = <<>> => t.results # <<>> /\ t.results[1] = r
    BY <1>1, PoppedIs
  <1>7. \A kinds : HeadOk(t.results, kinds) <=> HeadOk(st.results, kinds)
    BY <1>6 DEF HeadOk
  <1>8. \A kinds : HeadIsA(st.results, kinds) => HeadIsA(t.results, kinds)
    BY <1>6 DEF HeadIsA
  <1>9. \A i \in 1..Len(t.results) : (i \in 1..Len(st.results) /\ t.results[i] = st.results[i])
                                     \/ t.results[i] = r
    BY <1>1, PoppedIs
  <1>10. HeadIsA(st.queue, Removals) => HeadIsA(t.results, Removals)
    <2>1. HeadIsA(st.queue, Removals) => st.results = <<>>
      BY <1>1, PoppedIs DEF Good, FirstOK, HeadIsA, Removals, Adds
    <2> QED
      BY <1>6, <2>1 DEF HeadIsA
  <1>11. DoneOK(LibraryOf(e), t.results, w.done)
    BY <1>3, <1>7 DEF Good, DoneOK
  <1>12. StoredOK(e, t, w)
    <2>1. st.open => st.queue[1].kind # "init"
      BY <1>1, PoppedIs DEF Good, StoredOK
    <2>2. \A i \in 1..Len(t.queue) : t.queue[i].kind # "init"
      BY <1>5 DEF Adds
    <2>3. t.results[Len(t.results)] = r /\ t.results # <<>> /\ t.aside = None
      BY <1>1, PoppedIs DEF Popped
    <2>4. CASE st.open
      <3>1. /\ d.db # None /\ r.lib = d.db /\ r.rev = d.rev /\ r.persisted
            /\ t.published = [lib |-> d.db, rev |-> d.rev, persisted |-> TRUE]
        BY <2>4 DEF Good, StoredOK
      <3>2. \A i \in 1..Len(t.results) : t.results[i].persisted
        BY <1>9, <2>4, <3>1 DEF Good, StoredOK
      <3>3. ~w.ready => HeadOk(t.results, {"init"})
        BY <1>7, <2>4 DEF Good, StoredOK
      <3> QED
        BY <1>2, <2>2, <2>3, <2>4, <3>1, <3>2, <3>3 DEF StoredOK
    <2>5. CASE ~st.open
      <3>1. ~w.ready /\ ~t.published.persisted
        BY <2>5 DEF Good, StoredOK
      <3>2. \A i \in 1..Len(t.results) : ~t.results[i].persisted /\ ~t.results[i].ok
        BY <1>9, <2>5, <3>1 DEF Good, StoredOK
      <3> QED
        BY <2>3, <2>5, <3>1, <3>2 DEF StoredOK
    <2> QED
      BY <2>4, <2>5
  <1>13. RemovalsOK(t.queue, w)
    BY <1>5 DEF RemovalsOK, Removals, Adds
  <1>14. ASSUME NEW X
         PROVE  /\ NotAdded(X, st.queue) => NotAdded(X, t.queue)
                /\ NotFound(X, st.results) => NotFound(X, t.results)
    <2>1. NotFound(X, st.results) => NotFound(X, t.results)
      BY <1>9 DEF NotFound
    <2>2. \A i \in 1..Len(t.queue) : i + 1 \in 1..Len(st.queue) /\ t.queue[i] = st.queue[i + 1]
      BY <1>1, PoppedIs
    <2> QED
      BY <2>1, <2>2 DEF NotAdded
  <1>15. AskedOK(e, t.queue, t.results, w, a)
    <2>1. a # {} => HeadIsA(t.results, Removals)
      BY <1>8, <1>10 DEF Good, AskedOK
    <2>2. \A i \in 1..Len(t.queue) : t.queue[i].kind # "delete"
      BY <1>5 DEF Adds
    <2>3. HeadOk(t.results, Removals) =>
            Apart(a, LibraryOf(e)) /\ NotFound(a, t.results) /\ (a # {} => t.results[1].rev # w.rev)
      BY <1>3, <1>6, <1>7, <1>14 DEF Good, AskedOK, HeadOk
    <2> QED
      BY <1>14, <2>1, <2>2, <2>3 DEF Good, AskedOK
  <1>16. DeletedOK(e, t, w, D)
    <2>1. t.aside = None
      BY DEF Popped
    <2>2. \A z \in D : z \in e.config => d.cleared \/ w.unwritten
      BY <1>2 DEF Good, DeletedOK
    <2> QED
      BY <1>2, <1>3, <1>7, <1>14, <2>1, <2>2 DEF Good, DeletedOK
  <1>17. ConfigOK(e, t.queue, t.results, w)
    <2>1. HeadIsA(st.queue, {"reset"}) => HeadIsA(t.results, {"reset"})
      <3>1. HeadIsA(st.queue, {"reset"}) => st.results = <<>>
        BY <1>1, PoppedIs DEF Good, FirstOK, HeadIsA, Adds
      <3> QED
        BY <1>6, <3>1 DEF HeadIsA
    <2>2. st.aside # None => HeadIsA(t.results, {"reset"}) /\ ~HeadOk(t.results, {"reset"})
      <3>1. st.aside # None => HeadIsA(st.queue, {"reset"}) /\ st.results = <<>>
        BY <1>1, PoppedIs DEF Good, StoredOK, FirstOK, HeadIsA, Adds
      <3> QED
        BY <1>6, <2>1, <3>1 DEF HeadOk
    <2>3. CASE e = d
      BY <1>7, <1>8, <2>1, <2>3 DEF Good, ConfigOK
    <2>4. CASE st.aside # None
      BY <1>2, <2>2, <2>4 DEF Good, ConfigOK
    <2> QED
      BY <2>3, <2>4
  <1> QED
    BY <1>4, <1>5, <1>11, <1>12, <1>13, <1>15, <1>16, <1>17 DEF Good

\* The command c makes e of the disk d.
Does(d, e, st, c) ==
    /\ e.config = d.config /\ e.cleared = (d.cleared \/ c.kind = "reset")
    /\ c.kind = "init" => e.db = d.db /\ d.db # None
    /\ c.kind # "init" => st.open
    /\ c.kind \in Adds => e.db = d.db \cup c.lib
    /\ c.kind = "save" => e.db = c.lib
    /\ c.kind = "delete" => e.db = d.db \ c.lib
    /\ c.kind = "reset" => e.db = {} /\ st.aside # None
    /\ e.db # d.db => e.rev # d.rev

\* A command succeeds.
LEMMA SucceedOK ==
    ASSUME NEW d, NEW st, NEW w, NEW a, NEW D, Good(d, st, w, a, D),
           NEW r, NEW t, Answered(st, t, r), r.ok, t.open,
           NEW c, c = st.queue[1], NEW e \in Disks, e.db \in Sets, Does(d, e, st, c),
           t.published = [lib |-> e.db, rev |-> e.rev, persisted |-> TRUE],
           NEW E \in Sets, E = D \/ (c.kind = "reset" /\ E \subseteq D \cup a)
    PROVE  Good(e, t, w, a, E)
  <1> r \in Results /\ Popped(st, t, r) /\ r.kind = c.kind
    BY DEF Answered
  <1> r.lib = e.db /\ r.rev = e.rev /\ r.persisted
    BY DEF Answered
  <1> /\ e.config = d.config /\ e.cleared = (d.cleared \/ c.kind = "reset")
      /\ c.kind = "init" => e.db = d.db /\ d.db # None
      /\ c.kind # "init" => st.open
      /\ c.kind \in Adds => e.db = d.db \cup c.lib
      /\ c.kind = "save" => e.db = c.lib
      /\ c.kind = "delete" => e.db = d.db \ c.lib
      /\ c.kind = "reset" => e.db = {} /\ st.aside # None
      /\ e.db # d.db => e.rev # d.rev
    BY DEF Does
  <1>1. /\ Typed(d, st, w, a, D) /\ d \in Disks /\ st \in Stores /\ w \in Windows
        /\ c \in Commands /\ c.kind \in Kinds /\ c.lib \in Sets
    BY PoppedIs DEF Good, Typed, Commands
  <1>2. LibraryOf(e) = e.db
    BY NoneAssumption DEF LibraryOf, Sets
  <1>3. d.db # None => LibraryOf(d) = d.db
    BY DEF LibraryOf
  <1>4. Typed(e, t, w, a, E)
    BY <1>1 DEF Typed, Popped
  <1>5. /\ st.results # <<>> => t.results # <<>> /\ t.results[1] = st.results[1]
        /\ st.results = <<>> => t.results # <<>> /\ t.results[1] = r
        /\ \A i \in 1..Len(t.results) : (i \in 1..Len(st.results) /\ t.results[i] = st.results[i])
                                        \/ t.results[i] = r
        /\ 1 \in 1..Len(st.queue)
    BY <1>1, PoppedIs
  <1>6. c.kind \notin Adds => st.results = <<>>
    BY <1>5 DEF Good, FirstOK
  <1>7. d.db # None
    BY DEF Good, StoredOK
  <1>8. c.kind \in Adds \cup {"init"} => d.db \subseteq e.db
    BY DEF Adds
  <1>9. /\ FirstOK(t.queue, t.results) /\ MatchesOK(t.queue, t.results, w.active, LibraryOf(e))
        /\ \A i \in 1..Len(t.queue) : t.queue[i].kind \in Adds
    <2>1. LibraryOf(d) \subseteq LibraryOf(e) \/ st.results = <<>>
      BY <1>2, <1>3, <1>6, <1>7, <1>8
    <2>2. r.kind = "match" /\ r.ok => w.active \subseteq LibraryOf(e)
      <3>1. r.kind = "match" => c.lib = w.active /\ e.db = d.db \cup c.lib
        BY <1>5 DEF Good, MatchesOK, Adds
      <3> QED
        BY <1>2, <3>1
    <2> QED
      BY <1>1, <2>1, <2>2, PoppedOK DEF Good
  <1>10. HeadIsA(st.queue, Removals) => c.kind \in Removals
    BY DEF HeadIsA
  <1>11. c.kind \in Removals => HeadOk(t.results, Removals)
    BY <1>5, <1>6 DEF HeadOk, Removals, Adds
  <1>12. \A kinds : HeadOk(st.results, kinds) => HeadOk(t.results, kinds)
    BY <1>5 DEF HeadOk
  <1>13. DoneOK(LibraryOf(e), t.results, w.done)
    <2>1. CASE c.kind \in Removals
      BY <1>11, <2>1 DEF DoneOK
    <2>2. CASE c.kind \in Adds \cup {"init"}
      BY <1>2, <1>3, <1>7, <1>8, <1>12, <2>2 DEF Good, DoneOK
    <2> QED
      BY <1>1, <2>1, <2>2 DEF Kinds
  <1>14. StoredOK(e, t, w)
    <2>1. \A i \in 1..Len(t.queue) : t.queue[i].kind # "init"
      BY <1>9 DEF Adds
    <2>2. t.results[Len(t.results)] = r /\ t.results # <<>> /\ t.aside = None
      BY <1>1, PoppedIs DEF Popped
    <2>3. \A i \in 1..Len(t.results) : t.results[i].persisted
      <3>1. CASE st.open
        BY <1>5, <3>1 DEF Good, StoredOK
      <3>2. CASE c.kind = "init"
        <4>1. st.results = <<>>
          BY <1>6, <3>2 DEF Adds
        <4>2. Len(t.results) = 1 /\ t.results[1] = r
          BY <1>1, <4>1, PoppedIs
        <4> QED
          BY <4>2
      <3> QED
        BY <3>1, <3>2
    <2>4. ~w.ready => HeadOk(t.results, {"init"})
      <3>1. CASE st.open
        BY <1>12, <3>1 DEF Good, StoredOK
      <3>2. CASE c.kind = "init"
        BY <1>5, <1>6, <3>2 DEF HeadOk, Adds
      <3> QED
        BY <3>1, <3>2
    <2>5. e.db # None
      BY NoneAssumption DEF Sets
    <2> QED
      BY <2>1, <2>2, <2>3, <2>4, <2>5 DEF StoredOK
  <1>15. RemovalsOK(t.queue, w)
    BY <1>9 DEF RemovalsOK, Removals, Adds
  <1>16. ASSUME NEW X, NotAdded(X, st.queue) PROVE NotAdded(X, t.queue)
    <2>1. \A i \in 1..Len(t.queue) : i + 1 \in 1..Len(st.queue) /\ t.queue[i] = st.queue[i + 1]
      BY <1>1, PoppedIs
    <2> QED
      BY <1>16, <2>1 DEF NotAdded
  <1>17. ASSUME NEW X, NotFound(X, st.results), Apart(X, e.db) PROVE NotFound(X, t.results)
    BY <1>5, <1>17 DEF NotFound
  <1>18. NotAdded(a, t.queue) /\ ApartAll(a, w.pending) /\ a \subseteq w.committed
    BY <1>16 DEF Good, AskedOK
  <1>19. a # {} => HeadIsA(t.results, Removals)
    <2>1. HeadIsA(st.results, Removals) => HeadIsA(t.results, Removals)
      BY <1>5 DEF HeadIsA
    <2> QED
      BY <1>10, <1>11, <2>1 DEF Good, AskedOK, HeadOk, HeadIsA
  <1>20. HeadOk(t.results, Removals) =>
           Apart(a, e.db) /\ NotFound(a, t.results) /\ (a # {} => t.results[1].rev # w.rev)
    <2>1. CASE st.results = <<>> /\ c.kind \in Removals
      <3>1. Apart(a, e.db)
        BY <1>5, <2>1 DEF Good, AskedOK, NotAdded, Apart, Removals
      <3>2. \A i \in 1..Len(t.results) : t.results[i] = r
        BY <1>5, <2>1
      <3>3. NotFound(a, t.results)
        BY <3>1, <3>2 DEF NotFound
      <3>4. w.ready
        BY <1>5, <2>1 DEF Good, RemovalsOK
      <3>5. w.committed = d.db /\ w.rev = d.rev
        BY <2>1, <3>4 DEF Good, StoredOK
      <3>6. a # {} => e.db # d.db
        BY <1>18, <3>1, <3>5 DEF Apart
      <3> QED
        BY <1>5, <2>1, <3>1, <3>3, <3>5, <3>6
    <2>2. CASE st.results = <<>> /\ c.kind \notin Removals
      BY <1>5, <2>2 DEF HeadOk
    <2>3. CASE st.results # <<>> /\ HeadOk(st.results, Removals)
      <3>1. /\ Apart(a, d.db) /\ NotFound(a, st.results)
            /\ (a # {} => st.results[1].rev # w.rev)
        BY <1>3, <1>7, <2>3 DEF Good, AskedOK
      <3>2. c.kind \in Adds /\ Apart(a, c.lib)
        BY <1>5, <1>6, <2>3 DEF Good, AskedOK, NotAdded
      <3>3. Apart(a, e.db)
        BY <3>1, <3>2 DEF Apart
      <3> QED
        BY <1>5, <1>17, <2>3, <3>1, <3>3
    <2>4. CASE st.results # <<>> /\ ~HeadOk(st.results, Removals)
      BY <1>5, <2>4 DEF HeadOk
    <2> QED
      BY <2>1, <2>2, <2>3, <2>4
  <1>21. AskedOK(e, t.queue, t.results, w, a)
    <2>1. \A i \in 1..Len(t.queue) : t.queue[i].kind # "delete"
      BY <1>9 DEF Adds
    <2> QED
      BY <1>2, <1>18, <1>19, <1>20, <2>1 DEF AskedOK
  <1>22. Apart(D, e.db)
    <2>1. Apart(D, d.db) /\ (c.kind \in {"save"} \cup Adds => Apart(D, c.lib))
      BY <1>3, <1>5, <1>7 DEF Good, DeletedOK, NotAdded
    <2> QED
      BY <1>1, <2>1 DEF Apart, Kinds, Removals
  <1>23. DeletedOK(e, t, w, D)
    <2>1. NotAdded(D, t.queue) /\ ApartAll(D, w.pending) /\ NotFound(D, t.results)
      BY <1>16, <1>17, <1>22 DEF Good, DeletedOK
    <2>2. t.aside = None
      BY DEF Popped
    <2> QED
      BY <1>2, <1>12, <1>22, <2>1, <2>2 DEF Good, DeletedOK
  <1>24. DeletedOK(e, t, w, E)
    <2>1. CASE E = D
      BY <1>23, <2>1
    <2>2. CASE c.kind = "reset" /\ E \subseteq D \cup a
      <3>1. HeadOk(t.results, {"reset"}) /\ HeadOk(t.results, Removals) /\ e.cleared
        BY <1>5, <1>6, <2>2 DEF HeadOk, Removals, Adds
      <3>2. NotAdded(E, t.queue) /\ ApartAll(E, w.pending) /\ NotFound(E, t.results)
        BY <1>18, <1>20, <1>23, <2>2, <3>1 DEF DeletedOK, NotAdded, ApartAll, NotFound, Apart
      <3>3. Apart(E, LibraryOf(e))
        BY <1>2, <2>2 DEF Apart
      <3> QED
        BY <3>1, <3>2, <3>3 DEF DeletedOK
    <2> QED
      BY <2>1, <2>2
  <1>25. ConfigOK(e, t.queue, t.results, w)
    <2>1. HeadIsA(st.queue, {"reset"}) => HeadIsA(t.results, {"reset"})
      BY <1>5, <1>6 DEF HeadIsA, Adds
    <2>2. HeadIsA(st.results, {"reset"}) => HeadIsA(t.results, {"reset"})
      BY <1>5 DEF HeadIsA
    <2>3. HeadOk(t.results, {"reset"}) => e.cleared /\ e.config = {}
      <3>1. CASE c.kind = "reset"
        BY <3>1 DEF Good, StoredOK
      <3>2. CASE c.kind # "reset"
        BY <1>5, <3>2 DEF Good, ConfigOK, HeadOk
      <3> QED
        BY <3>1, <3>2
    <2> QED
      BY <2>1, <2>2, <2>3 DEF Good, ConfigOK
  <1> QED
    BY <1>4, <1>9, <1>13, <1>14, <1>15, <1>21, <1>24, <1>25 DEF Good

\* The upgraded copy takes the place of the database.
LEMMA InstallOK ==
    ASSUME NEW d, NEW st, NEW w, NEW a, NEW D, Good(d, st, w, a, D),
           d.db = None, HeadIsA(st.queue, {"init"}),
           NEW e, e = [d EXCEPT !.db = IF d.prior # None THEN d.prior ELSE d.ini]
    PROVE  Good(e, st, w, a, D) /\ LibraryOf(e) = LibraryOf(d)
  <1>1. d \in Disks /\ st \in Stores /\ ~st.open
    <2>1. 1 \in 1..Len(st.queue)
      BY SeqIs DEF Good, Typed, HeadIsA, Stores
    <2> QED
      BY <2>1 DEF Good, Typed, StoredOK, HeadIsA
  <1>2. PICK s \in Sets : s = IF d.prior # None THEN d.prior ELSE d.ini
    BY <1>1 DEF Disks, Maybe
  <1>3. /\ e \in Disks /\ e.db = s /\ e.rev = d.rev /\ e.config = d.config
        /\ e.cleared = d.cleared
    BY <1>1, <1>2 DEF Disks, Maybe
  <1>4. LibraryOf(e) = LibraryOf(d)
    BY <1>2, <1>3, NoneAssumption DEF LibraryOf, Sets
  <1>5. Typed(e, st, w, a, D)
    BY <1>3 DEF Good, Typed
  <1>6. StoredOK(e, st, w)
    BY <1>1, <1>3 DEF Good, StoredOK
  <1>7. AskedOK(e, st.queue, st.results, w, a) /\ DeletedOK(e, st, w, D)
    BY <1>3, <1>4 DEF Good, AskedOK, DeletedOK
  <1>8. ConfigOK(e, st.queue, st.results, w)
    BY <1>3 DEF Good, ConfigOK
  <1> QED
    BY <1>4, <1>5, <1>6, <1>7, <1>8 DEF Good

\* A reset puts the file of the players aside.
LEMMA ResetFilesOK ==
    ASSUME NEW d, NEW st, NEW w, NEW a, NEW D, Good(d, st, w, a, D),
           HeadIsA(st.queue, {"reset"}), st.open,
           NEW t, t = [st EXCEPT !.aside = d.config], NEW e, e = [d EXCEPT !.config = {}]
    PROVE  Good(e, t, w, a, D) /\ LibraryOf(e) = LibraryOf(d)
  <1>1. d \in Disks /\ st \in Stores /\ d.config \in Sets
    BY DEF Good, Typed, Disks
  <1>2. /\ e \in Disks /\ e.db = d.db /\ e.prior = d.prior /\ e.ini = d.ini /\ e.rev = d.rev
        /\ e.config = {} /\ e.cleared = d.cleared
    BY <1>1 DEF Disks, Sets
  <1>3. /\ t \in Stores /\ t.queue = st.queue /\ t.results = st.results
        /\ t.published = st.published /\ t.open = st.open /\ t.aside = d.config
    BY <1>1 DEF Stores, Maybe
  <1>4. LibraryOf(e) = LibraryOf(d)
    BY <1>2 DEF LibraryOf
  <1>5. Typed(e, t, w, a, D)
    BY <1>2, <1>3 DEF Good, Typed
  <1>6. StoredOK(e, t, w)
    BY <1>2, <1>3 DEF Good, StoredOK
  <1>7. AskedOK(e, t.queue, t.results, w, a)
    BY <1>2, <1>3, <1>4 DEF Good, AskedOK
  <1>8. DeletedOK(e, t, w, D)
    BY <1>2, <1>3, <1>4 DEF Good, DeletedOK
  <1>9. ConfigOK(e, t.queue, t.results, w)
    BY <1>2, <1>3 DEF Good, ConfigOK
  <1> QED
    BY <1>3, <1>4, <1>5, <1>6, <1>7, <1>8, <1>9 DEF Good

\* The process as it starts.
LEMMA StartedIs ==
    ASSUME NEW roster \in Sets
    PROVE  LET w == Started(roster)
               q == StartedStore.queue IN
           /\ StartedStore \in Stores /\ StartedStore.results = <<>> /\ ~StartedStore.open
           /\ StartedStore.published = NoSnapshot /\ StartedStore.aside = None
           /\ Len(q) = 1 /\ q[1].kind = "init"
           /\ w \in Windows /\ w.roster = roster /\ w.excluded = {} /\ w.pending = <<>>
           /\ w.active = None /\ w.done = None /\ ~w.ready /\ w.exit = "no" /\ ~w.unwritten
           /\ w.committed = {}
  <1>1. {} \in Sets /\ <<>> \in Seq(Sets) /\ <<>> \in Seq(Results) /\ NoSnapshot \in [lib : Sets, rev : Nat, persisted : BOOLEAN]
    BY DEF Sets, NoSnapshot
  <1>2. PICK c : c = [kind |-> "init", lib |-> {}, base |-> {}, rev |-> 0]
    OBVIOUS
  <1>3. c \in Commands /\ c.kind = "init"
    BY <1>1, <1>2 DEF Commands, Kinds
  <1>4. PICK q : q = <<c>>
    OBVIOUS
  <1>5. q \in Seq(Commands) /\ Len(q) = 1 /\ q[1] = c
    BY <1>3, <1>4
  <1>6. StartedStore = [queue |-> q, results |-> <<>>, published |-> NoSnapshot, open |-> FALSE,
                        aside |-> None]
    BY <1>2, <1>4 DEF StartedStore
  <1>7. StartedStore \in Stores
    BY <1>1, <1>5, <1>6 DEF Stores, Maybe
  <1>8. Started(roster) \in Windows
    BY <1>1 DEF Started, Windows, Maybe
  <1> QED
    BY <1>3, <1>5, <1>6, <1>7, <1>8 DEF Started

\* A start finds on the disk what the worker committed.
LEMMA StartOK ==
    ASSUME NEW d \in Disks, NEW D \in Sets, Apart(D, LibraryOf(d)),
           \A e \in D : e \in d.config => d.cleared
    PROVE  Good(d, StartedStore, Started(d.config), {}, D)
  <1>1. PICK st, w : st = StartedStore /\ w = Started(d.config)
    OBVIOUS
  <1>2. /\ st \in Stores /\ st.results = <<>> /\ ~st.open /\ Len(st.results) = 0
        /\ st.published = NoSnapshot /\ st.aside = None
        /\ Len(st.queue) = 1 /\ st.queue[1].kind = "init"
        /\ w \in Windows /\ w.roster = d.config /\ w.excluded = {} /\ w.pending = <<>>
        /\ w.active = None /\ w.done = None /\ ~w.ready /\ w.exit = "no" /\ ~w.unwritten
        /\ w.committed = {} /\ Len(w.pending) = 0
    BY <1>1, StartedIs DEF Disks
  <1>3. \A i \in 1..Len(st.queue) : i = 1 /\ st.queue[i].kind = "init"
    BY <1>2
  <1>4. Typed(d, st, w, {}, D)
    BY <1>2 DEF Typed, Sets
  <1>5. /\ FirstOK(st.queue, st.results) /\ MatchesOK(st.queue, st.results, None, LibraryOf(d))
    BY <1>2, <1>3 DEF FirstOK, MatchesOK, HasMatch, MatchOnce
  <1>6. StoredOK(d, st, w)
    BY <1>2 DEF StoredOK, NoSnapshot
  <1>7. RemovalsOK(st.queue, w) /\ FlushedOK(w) /\ DoneOK(LibraryOf(d), st.results, w.done)
    BY <1>2, <1>3 DEF RemovalsOK, FlushedOK, DoneOK, Removals
  <1>8. \A X : NotAdded(X, st.queue) /\ ApartAll(X, w.pending) /\ NotFound(X, st.results)
    BY <1>2, <1>3 DEF NotAdded, ApartAll, NotFound, Adds
  <1>9. AskedOK(d, st.queue, st.results, w, {})
    BY <1>2, <1>3, <1>8 DEF AskedOK, HeadOk
  <1>10. DeletedOK(d, st, w, D)
    BY <1>2, <1>8 DEF DeletedOK
  <1>11. ConfigOK(d, st.queue, st.results, w)
    BY <1>2 DEF ConfigOK, HeadOk
  <1> QED
    BY <1>1, <1>2, <1>4, <1>5, <1>6, <1>7, <1>9, <1>10, <1>11 DEF Good

-----------------------------------------------------------------------------
(* A result reaches the window                                             *)

\* What PollPlayerLibrary makes of the window w: x, with roster the players that
\* ApplyPlayerLibraryDelta leaves.
Polled(d, w, r, roster, x) ==
    /\ x.view = r.lib /\ x.committed = r.lib /\ x.rev = r.rev /\ x.ready = r.persisted
    /\ x.exit = w.exit /\ x.pending = w.pending
    /\ x.active = IF r.kind = "match" THEN None ELSE w.active
    /\ x.done = IF r.kind = "match" /\ r.ok THEN w.active ELSE IF r.ok THEN None ELSE w.done
    /\ IF r.kind = "reset" /\ r.ok THEN x.roster = {} /\ x.excluded = {}
       ELSE /\ x.roster = roster
            /\ x.excluded = IF r.kind = "init" /\ r.ok /\ d.cleared THEN roster ELSE w.excluded
    /\ x.unwritten <=> w.unwritten \/ (r.kind = "reset" /\ ~r.ok /\ roster # d.config)
Left(w, r, roster) ==
    IF ~r.ok \/ r.kind \in {"match", "init"} \/ r.rev = w.rev THEN roster = w.roster
    ELSE \A e \in roster : e \in r.lib \/ (e \in w.roster /\ e \notin w.committed)

\* The store, the disk and what is deleted afterwards.
Taken(st, t) == t = [st EXCEPT !.results = Tail(@)]
Rewritten(d, w, roster, x, e) == e = IF roster # w.roster THEN [d EXCEPT !.config = x.roster] ELSE d
Told(D, a, r, E) == \A z \in E : z \in D \/ (z \in a /\ r.ok /\ r.kind \in Removals)

\* What the poll leaves of the results when it takes the first.
LEMMA TakenIs ==
    ASSUME NEW st \in Stores, st.results # <<>>, NEW t, Taken(st, t),
           NEW R, R = st.results, NEW T, T = t.results
    PROVE  /\ t \in Stores /\ t.queue = st.queue
           /\ t.published = st.published /\ t.open = st.open /\ t.aside = st.aside
           /\ T \in Seq(Results) /\ Len(T) \in Nat /\ Len(R) \in Nat /\ 1 \in 1..Len(R)
           /\ R[1] \in Results
           /\ \A i \in 1..Len(T) : i + 1 \in 1..Len(R) /\ i + 1 # 1 /\ T[i] = R[i + 1]
           /\ \A i \in 1..Len(R) : i = 1 \/ (i - 1 \in 1..Len(T) /\ T[i - 1] = R[i])
           /\ T # <<>> => T[Len(T)] = R[Len(R)] /\ 1 \in 1..Len(T)
           /\ T = <<>> => Len(R) = 1
  <1>1. R \in Seq(Results) /\ R # <<>>
    BY DEF Stores
  <1>2. PICK S : S = Tail(R)
    OBVIOUS
  <1>3. /\ S \in Seq(Results) /\ Len(S) \in Nat
        /\ \A i \in 1..Len(S) : i + 1 \in 1..Len(R) /\ i + 1 # 1 /\ S[i] = R[i + 1]
        /\ \A i \in 1..Len(R) : i = 1 \/ (i - 1 \in 1..Len(S) /\ S[i - 1] = R[i])
        /\ S # <<>> => S[Len(S)] = R[Len(R)]
        /\ S = <<>> => Len(R) = 1
    <2>1. Tail(R) \in Seq(Results) /\ Len(Tail(R)) = Len(R) - 1
      BY <1>1, TailIs
    <2>2. \A i \in 1..(Len(R) - 1) : Tail(R)[i] = R[i + 1]
      BY <1>1
    <2>3. Len(R) \in Nat /\ Len(R) >= 1
      BY <1>1
    <2>4. S # <<>> => Len(S) # 0
      BY <1>2, <2>1
    <2>5. S = <<>> => Len(S) = 0
      OBVIOUS
    <2> QED
      BY <1>2, <2>1, <2>2, <2>3, <2>4, <2>5
  <1>4. Len(R) \in Nat /\ 1 \in 1..Len(R) /\ R[1] \in Results
    BY <1>1, SeqIs
  <1>5. S # <<>> => 1 \in 1..Len(S)
    BY <1>3, SeqIs
  <1>6. t = [st EXCEPT !.results = S]
    BY <1>2 DEF Taken
  <1>7. /\ t \in Stores /\ t.queue = st.queue /\ T = S
        /\ t.published = st.published /\ t.open = st.open /\ t.aside = st.aside
    <2>1. S \in Seq(Results)
      BY <1>3
    <2> QED
      BY <1>6, <2>1 DEF Stores
  <1> QED
    BY <1>3, <1>4, <1>5, <1>7

\* PollPlayerLibrary keeps everything good, whatever ApplyPlayerLibraryDelta leaves.
LEMMA PollOK ==
    ASSUME NEW d, NEW st, NEW w, NEW a, NEW D, Good(d, st, w, a, D),
           st.results # <<>>, NEW r, r = st.results[1], w.exit # "done",
           NEW roster \in Sets, Left(w, r, roster),
           NEW t, Taken(st, t), NEW x \in Windows, Polled(d, w, r, roster, x),
           NEW e, Rewritten(d, w, roster, x, e), NEW E \in Sets, Told(D, a, r, E),
           NEW b, b = IF r.kind \in Removals THEN {} ELSE a
    PROVE  Good(e, t, x, b, E)
  <1> e = IF roster # w.roster THEN [d EXCEPT !.config = x.roster] ELSE d
    BY DEF Rewritten
  <1> \A z \in E : z \in D \/ (z \in a /\ r.ok /\ r.kind \in Removals)
    BY DEF Told
  <1> DEFINE q == st.queue
             R == st.results
             L == LibraryOf(d)
  <1>1. /\ d \in Disks /\ st \in Stores /\ w \in Windows
        /\ q \in Seq(Commands) /\ R \in Seq(Results) /\ x.roster \in Sets
    BY DEF Good, Typed, Stores, Windows
  <1>2. PICK T : T = t.results
    OBVIOUS
  <1>3. /\ T \in Seq(Results) /\ Len(T) \in Nat /\ Len(R) \in Nat /\ 1 \in 1..Len(R) /\ r \in Results
        /\ \A i \in 1..Len(T) : i + 1 \in 1..Len(R) /\ i + 1 # 1 /\ T[i] = R[i + 1]
        /\ \A i \in 1..Len(R) : i = 1 \/ (i - 1 \in 1..Len(T) /\ T[i - 1] = R[i])
        /\ T # <<>> => T[Len(T)] = R[Len(R)] /\ 1 \in 1..Len(T)
        /\ T = <<>> => Len(R) = 1
    BY <1>1, <1>2, TakenIs
  <1>4. /\ t \in Stores /\ t.queue = q /\ t.results = T
        /\ t.published = st.published /\ t.open = st.open /\ t.aside = st.aside
    BY <1>1, <1>2, TakenIs
  <1> HIDE DEF q, R, L
  <1>5. /\ \A i \in 1..Len(q) : q[i].kind \in Adds
        /\ \A i \in 1..Len(T) : T[i].kind \in Adds
    BY <1>3 DEF Good, FirstOK, q, R
  <1>6. \A kinds : kinds \cap Adds = {} => ~HeadIsA(q, kinds) /\ ~HeadIsA(T, kinds) /\ ~HeadOk(T, kinds)
    <2>1. q # <<>> => 1 \in 1..Len(q)
      BY <1>1, SeqIs DEF q
    <2> QED
      BY <1>3, <1>5, <2>1 DEF HeadIsA, HeadOk
  <1>7. Removals \cap Adds = {} /\ {"reset"} \cap Adds = {} /\ {"init"} \cap Adds = {}
    BY DEF Removals, Adds
  <1>8. a # {} => r.kind \in Removals
    BY <1>6, <1>7 DEF Good, AskedOK, HeadIsA, q, R
  <1>9. b = {}
    BY <1>8
  <1>10. st.aside = None
    BY <1>6, <1>7 DEF Good, StoredOK, q
  <1>11. (r.persisted <=> st.open) /\ (r.ok => st.open)
    <2>1. CASE st.open
      BY <1>3, <2>1 DEF Good, StoredOK, R
    <2>2. CASE ~st.open
      BY <1>3, <2>2 DEF Good, StoredOK, R
    <2> QED
      BY <2>1, <2>2
  <1>12. /\ e \in Disks /\ e.db = d.db /\ e.prior = d.prior /\ e.ini = d.ini /\ e.rev = d.rev
         /\ e.cleared = d.cleared
         /\ IF roster # w.roster THEN e.config = x.roster ELSE e.config = d.config
    BY <1>1 DEF Disks
  <1>13. LibraryOf(e) = L
    BY <1>12 DEF LibraryOf, L
  <1>14. Typed(e, t, x, b, E)
    BY <1>4, <1>9, <1>12 DEF Typed, Sets
  <1>15. FirstOK(q, T)
    BY <1>5 DEF FirstOK
  <1>16. MatchesOK(q, T, x.active, L)
    <2>1. ASSUME NEW i \in 1..Len(R), R[i].kind = "match"
          PROVE  HasMatch(T) \/ r.kind = "match"
      <3>1. CASE i = 1
        BY <2>1, <3>1 DEF R
      <3>2. CASE i - 1 \in 1..Len(T) /\ T[i - 1] = R[i]
        BY <2>1, <3>2 DEF HasMatch
      <3> QED
        BY <1>3, <3>1, <3>2
    <2>2. HasMatch(T) \/ r.kind = "match" => HasMatch(R)
      <3>1. \A i \in 1..Len(T) : i + 1 \in 1..Len(R) /\ T[i] = R[i + 1]
        BY <1>3
      <3>2. HasMatch(T) => HasMatch(R)
        BY <3>1 DEF HasMatch
      <3>3. 1 \in 1..Len(R) /\ r = R[1]
        BY <1>3 DEF R
      <3>4. r.kind = "match" => HasMatch(R)
        BY <3>3 DEF HasMatch
      <3> QED
        BY <3>2, <3>4
    <2>3. HasMatch(T) => r.kind # "match"
      <3>1. MatchOnce(R)
        BY DEF Good, MatchesOK, R
      <3>2. ASSUME NEW i \in 1..Len(T), T[i].kind = "match", r.kind = "match" PROVE FALSE
        <4>1. /\ i + 1 \in 1..Len(R) /\ i + 1 # 1 /\ R[i + 1].kind = "match"
              /\ 1 \in 1..Len(R) /\ R[1].kind = "match"
          BY <1>3, <3>2 DEF R
        <4> QED
          BY <3>1, <4>1 DEF MatchOnce
      <3> QED
        BY <3>2 DEF HasMatch
    <2>4. MatchOnce(T)
      <3>1. ASSUME NEW i \in 1..Len(T), NEW j \in 1..Len(T), T[i].kind = "match", T[j].kind = "match"
            PROVE  i + 1 = j + 1
        <4>1. MatchOnce(R)
          BY DEF Good, MatchesOK, R
        <4>2. /\ i + 1 \in 1..Len(R) /\ j + 1 \in 1..Len(R)
              /\ T[i] = R[i + 1] /\ T[j] = R[j + 1]
          BY <1>3
        <4>3. R[i + 1].kind = "match" /\ R[j + 1].kind = "match"
          BY <3>1, <4>2
        <4> QED
          BY <4>1, <4>2, <4>3 DEF MatchOnce
      <3> QED
        BY <1>3, <3>1 DEF MatchOnce
    <2>5. \A i \in 1..Len(T) : T[i].kind = "match" /\ T[i].ok => w.active \subseteq L
      <3>1. \A i \in 1..Len(R) : R[i].kind = "match" /\ R[i].ok => w.active \subseteq L
        BY DEF Good, MatchesOK, R, L
      <3>2. \A i \in 1..Len(T) : i + 1 \in 1..Len(R) /\ T[i] = R[i + 1]
        BY <1>3
      <3> QED
        BY <3>1, <3>2
    <2>6. CASE r.kind = "match"
      <3>1. ~HasMatch(q) /\ ~HasMatch(T) /\ x.active = None
        BY <2>2, <2>3, <2>6 DEF Good, MatchesOK, Polled, q, R
      <3> QED
        BY <3>1 DEF MatchesOK, MatchOnce, HasMatch
    <2>7. CASE r.kind # "match"
      <3>1. x.active = w.active /\ (HasMatch(T) <=> HasMatch(R))
        BY <2>1, <2>2, <2>7 DEF Polled, HasMatch
      <3> QED
        BY <2>4, <2>5, <3>1 DEF Good, MatchesOK, q, R
    <2> QED
      BY <2>6, <2>7
  <1>17. DoneOK(L, T, x.done)
    <2>1. r.kind = "match" /\ r.ok => w.active \subseteq L
      BY <1>3 DEF Good, MatchesOK, R, L
    <2>2. ~r.ok => (w.done # None => w.done \subseteq L)
      BY DEF Good, DoneOK, HeadOk, L
    <2> QED
      BY <2>1, <2>2 DEF Polled, DoneOK
  <1>18. StoredOK(e, t, x)
    <2>1. CASE st.open
      <3>1. /\ d.db # None /\ st.published = [lib |-> d.db, rev |-> d.rev, persisted |-> TRUE]
            /\ R[Len(R)].lib = d.db /\ R[Len(R)].rev = d.rev
            /\ \A i \in 1..Len(R) : R[i].persisted
        BY <2>1 DEF Good, StoredOK, R
      <3>2. \A i \in 1..Len(T) : T[i].persisted
        BY <1>3, <3>1
      <3>3. \A i \in 1..Len(q) : q[i].kind # "init"
        BY <1>5 DEF Adds
      <3>4. x.ready /\ (T = <<>> => x.committed = d.db /\ x.rev = d.rev /\ x.view = d.db)
        BY <1>3, <1>11, <2>1, <3>1 DEF Polled, R
      <3>5. t.results # <<>> => t.results[Len(t.results)].lib = e.db
                                /\ t.results[Len(t.results)].rev = e.rev
        <4>1. T # <<>> => T[Len(T)] = R[Len(R)]
          BY <1>3
        <4>2. T # <<>> => T[Len(T)].lib = d.db /\ T[Len(T)].rev = d.rev
          BY <3>1, <4>1
        <4>3. t.results = T /\ e.db = d.db /\ e.rev = d.rev
          BY <1>4, <1>12
        <4> QED
          BY <4>2, <4>3
      <3>6. e.db # None /\ t.published = [lib |-> e.db, rev |-> e.rev, persisted |-> TRUE]
        BY <1>4, <1>12, <3>1
      <3>7. t.results = <<>> => x.committed = e.db /\ x.rev = e.rev /\ x.view = e.db
        BY <1>4, <1>12, <3>4
      <3> QED
        BY <1>4, <1>10, <2>1, <3>2, <3>3, <3>4, <3>5, <3>6, <3>7 DEF StoredOK
    <2>2. CASE ~st.open
      <3>1. ~x.ready
        BY <1>11, <2>2 DEF Polled
      <3>2. \A i \in 1..Len(T) : ~T[i].persisted /\ ~T[i].ok
        BY <1>3, <2>2 DEF Good, StoredOK, R
      <3> QED
        BY <1>4, <1>10, <2>2, <3>1, <3>2 DEF Good, StoredOK
    <2> QED
      BY <2>1, <2>2
  <1>19. RemovalsOK(q, x)
    BY <1>5 DEF RemovalsOK, Removals, Adds
  <1>20. AskedOK(e, q, T, x, {})
    BY <1>6, <1>7 DEF AskedOK, NotAdded, ApartAll, Apart
  <1>21. ASSUME NEW z \in E
         PROVE  /\ z \notin L
                /\ z \in a /\ z \notin D => /\ z \in w.committed /\ z \notin r.lib /\ r.rev # w.rev
                                            /\ r.ok /\ r.kind \in Removals
                /\ z \in D /\ r.ok => z \notin r.lib
    <2>1. z \in D => z \notin L /\ (r.ok => z \notin r.lib)
      BY <1>3 DEF Good, DeletedOK, NotFound, Apart, R, L
    <2>2. z \notin D => HeadOk(R, Removals) /\ z \in a
      BY DEF HeadOk, R
    <2>3. z \notin D => /\ z \in w.committed /\ z \notin L /\ z \notin r.lib /\ r.rev # w.rev
                        /\ r.ok /\ r.kind \in Removals
      BY <1>3, <2>2 DEF Good, AskedOK, NotFound, Apart, R, L
    <2> QED
      BY <2>1, <2>3
  <1>22. ASSUME NEW z \in E, z \in x.roster
         PROVE  z \in D /\ z \in w.roster /\ d.cleared /\ ~(r.kind = "reset" /\ r.ok)
    <2>1. ~(r.kind = "reset" /\ r.ok) /\ z \in roster
      BY <1>22 DEF Polled
    <2>2. z \in D /\ z \in w.roster
      <3>1. CASE z \in D
        BY <1>21, <2>1, <3>1 DEF Left
      <3>2. CASE z \notin D
        BY <1>21, <2>1, <3>2 DEF Left, Removals
      <3> QED
        BY <3>1, <3>2
    <2>3. d.cleared
      BY <2>2 DEF Good, DeletedOK, ConfigOK
    <2> QED
      BY <2>1, <2>2, <2>3
  <1>23. NotAdded(E, q) /\ ApartAll(E, x.pending) /\ NotFound(E, T)
    <2>1. \A z \in E : z \in D \/ (z \in a /\ HeadOk(R, Removals))
      BY DEF HeadOk, R
    <2>2. NotAdded(D, q) /\ NotAdded(a, q) /\ ApartAll(D, w.pending) /\ ApartAll(a, w.pending)
      BY DEF Good, DeletedOK, AskedOK, q
    <2>3. NotFound(D, T) /\ (HeadOk(R, Removals) => NotFound(a, T))
      BY <1>3 DEF Good, DeletedOK, AskedOK, NotFound, R
    <2>4. NotAdded(E, q)
      BY <2>1, <2>2 DEF NotAdded, Apart
    <2>5. ApartAll(E, w.pending)
      BY <2>1, <2>2 DEF ApartAll, Apart
    <2>6. NotFound(E, T)
      BY <2>1, <2>3 DEF NotFound, Apart
    <2> QED
      BY <2>4, <2>5, <2>6 DEF Polled
  <1>24. ASSUME NEW z \in E, z \in x.roster \ x.excluded PROVE d.cleared /\ ~x.ready
    <2>1. /\ z \in D /\ z \in w.roster /\ d.cleared /\ ~(r.kind = "reset" /\ r.ok)
          /\ x.roster = roster
      BY <1>22, <1>24 DEF Polled
    <2>2. ~(r.kind = "init" /\ r.ok) /\ x.excluded = w.excluded
      BY <1>24, <2>1 DEF Polled
    <2>3. ~w.ready \/ HeadOk(R, {"reset"})
      BY <1>24, <2>1, <2>2 DEF Good, DeletedOK, R
    <2>4. ~w.ready
      BY <2>1, <2>3 DEF HeadOk, R
    <2>5. ~st.open
      BY <2>2, <2>4 DEF Good, StoredOK, HeadOk
    <2> QED
      BY <1>11, <2>1, <2>5 DEF Polled
  <1>25. ASSUME NEW z \in E, z \in e.config PROVE d.cleared \/ x.unwritten
    <2>1. CASE roster # w.roster
      BY <1>12, <1>22, <1>25, <2>1
    <2>2. CASE roster = w.roster /\ z \in D
      BY <1>12, <1>25, <2>2 DEF Good, DeletedOK, Polled
    <2>3. CASE roster = w.roster /\ z \notin D /\ r.kind = "reset"
      <3>1. HeadOk(R, {"reset"})
        BY <1>21, <2>3 DEF HeadOk, R
      <3> QED
        BY <3>1 DEF Good, ConfigOK, R
    <2>4. CASE roster = w.roster /\ z \notin D /\ r.kind # "reset"
      <3>1. z \in d.config /\ x.roster = w.roster /\ (x.unwritten <=> w.unwritten)
        BY <1>12, <1>25, <2>4 DEF Polled
      <3>2. ~HeadIsA(q, {"reset"}) /\ ~HeadIsA(R, {"reset"})
        BY <1>6, <1>7, <2>4 DEF HeadIsA, R
      <3>3. ~w.unwritten => z \in x.roster
        BY <3>1, <3>2 DEF Good, ConfigOK, q, R
      <3> QED
        BY <1>22, <3>1, <3>3
    <2> QED
      BY <2>1, <2>2, <2>3, <2>4
  <1>26. DeletedOK(e, t, x, E)
    BY <1>4, <1>10, <1>12, <1>13, <1>21, <1>23, <1>24, <1>25 DEF DeletedOK, Apart
  <1>27. ConfigOK(e, q, T, x)
    <2>1. x.excluded # {} => d.cleared
      BY DEF Good, ConfigOK, Polled
    <2>2. ASSUME ~x.unwritten PROVE e.config \subseteq x.roster
      <3>1. CASE roster # w.roster
        BY <1>12, <3>1
      <3>2. CASE roster = w.roster /\ r.kind = "reset" /\ r.ok
        <4>1. HeadOk(R, {"reset"})
          BY <3>2 DEF HeadOk, R
        <4> QED
          BY <1>12, <3>2, <4>1 DEF Good, ConfigOK, R
      <3>3. CASE roster = w.roster /\ r.kind = "reset" /\ ~r.ok
        BY <1>12, <2>2, <3>3 DEF Polled
      <3>4. CASE roster = w.roster /\ r.kind # "reset"
        <4>1. x.roster = w.roster /\ ~w.unwritten
          BY <2>2, <3>4 DEF Polled
        <4>2. ~HeadIsA(q, {"reset"}) /\ ~HeadIsA(R, {"reset"})
          BY <1>6, <1>7, <3>4 DEF HeadIsA, R
        <4> QED
          BY <1>12, <3>4, <4>1, <4>2 DEF Good, ConfigOK, q, R
      <3> QED
        BY <3>1, <3>2, <3>3, <3>4
    <2> QED
      BY <1>6, <1>7, <1>12, <2>1, <2>2 DEF ConfigOK
  <1>28. FlushedOK(x)
    BY DEF Polled, FlushedOK
  <1> QED
    BY <1>4, <1>9, <1>13, <1>14, <1>15, <1>16, <1>17, <1>18, <1>19, <1>20, <1>26, <1>27, <1>28
       DEF Good

-----------------------------------------------------------------------------
(* The steps of the worker                                                 *)

\* Everything the invariant says after a step.
LEMMA InvNext ==
    ASSUME Good(disk', store', win', asked', Deleted'), Waits(win'),
           page' \in [rev : Nat, roster : Sets], mark' \in [Entries -> {"no", "deleted", "shown"}],
           spent' \in [{"edits", "arrivals", "faults", "starts"} -> Nat]
    PROVE  Inv'
  BY DEF Inv, StateOK, Good, Typed

\* What is spent of a bound is a natural number.
LEMMA UsesOK ==
    ASSUME spent \in [{"edits", "arrivals", "faults", "starts"} -> Nat],
           NEW what \in {"edits", "arrivals", "faults", "starts"}, Uses(what)
    PROVE  spent' \in [{"edits", "arrivals", "faults", "starts"} -> Nat]
  BY DEF Uses

\* A step of the worker leaves the window and the page alone.
LEMMA WorkerInv ==
    ASSUME Inv, Untouched, Good(disk', store', win, asked, Deleted'),
           mark' = mark \/ mark' = [e \in Entries |-> IF e \in asked THEN "deleted" ELSE mark[e]],
           spent' \in [{"edits", "arrivals", "faults", "starts"} -> Nat]
    PROVE  Inv'
  <1>1. mark' \in [Entries -> {"no", "deleted", "shown"}]
    BY DEF Inv, StateOK
  <1>2. page' \in [rev : Nat, roster : Sets] /\ Waits(win') /\ win' = win /\ asked' = asked
    BY DEF Inv, StateOK, Untouched
  <1> QED
    BY <1>1, <1>2, InvNext

\* The worker installs the first database.
LEMMA InstallKeeps == ASSUME Inv, Install PROVE Inv'
  <1>1. Good(disk, store, win, asked, Deleted)
    BY DEF Inv
  <1>2. HeadIsA(store.queue, {"init"})
    BY SeqIs DEF Install, HeadIs, HeadIsA, Inv, StateOK, Stores
  <1>3. disk' = [disk EXCEPT !.db = IF disk.prior # None THEN disk.prior ELSE disk.ini]
    BY DEF Install, Source
  <1>4. disk.db = None
    BY DEF Install
  <1>5. Good(disk', store, win, asked, Deleted)
    BY <1>1, <1>2, <1>3, <1>4, InstallOK
  <1>6. store' = store /\ Deleted' = Deleted /\ mark' = mark /\ Untouched /\ spent' = spent
    BY DEF Install, Deleted
  <1> QED
    BY <1>5, <1>6, WorkerInv DEF Inv, StateOK

\* ResetLocal empties the players of the match before it commits.
LEMMA ResetFilesKeeps == ASSUME Inv, ResetFiles PROVE Inv'
  <1>1. Good(disk, store, win, asked, Deleted)
    BY DEF Inv
  <1>2. HeadIsA(store.queue, {"reset"})
    BY SeqIs DEF ResetFiles, HeadIs, HeadIsA, Inv, StateOK, Stores
  <1>3. /\ store.open /\ store' = [store EXCEPT !.aside = disk.config]
        /\ disk' = [disk EXCEPT !.config = {}]
    BY DEF ResetFiles
  <1>4. Good(disk', store', win, asked, Deleted)
    BY <1>1, <1>2, <1>3, ResetFilesOK
  <1>5. Deleted' = Deleted /\ mark' = mark /\ Untouched /\ spent' = spent
    BY DEF ResetFiles, Deleted
  <1> QED
    BY <1>4, <1>5, WorkerInv DEF Inv, StateOK

\* The first command is done with result r: p is published, o tells whether the database is open.
Snapshots == [lib : Sets, rev : Nat, persisted : BOOLEAN]
Finished(st, t, p, o, r) ==
    t = [st EXCEPT !.queue = Tail(@), !.published = p, !.open = o, !.aside = None,
                   !.results = Append(@, r)]

\* The store after a command was answered and published.
LEMMA FinishedIs ==
    ASSUME NEW st \in Stores, st.queue # <<>>, NEW p \in Snapshots, NEW o \in BOOLEAN,
           NEW r \in Results, r.kind = st.queue[1].kind,
           r.lib = p.lib, r.rev = p.rev, r.persisted = p.persisted,
           NEW t, Finished(st, t, p, o, r)
    PROVE  Answered(st, t, r) /\ t.open = o /\ t.published = p
  <1>1. st.queue \in Seq(Commands) /\ st.results \in Seq(Results)
    BY DEF Stores
  <1>2. PICK q, R : q = Tail(st.queue) /\ R = Append(st.results, r)
    OBVIOUS
  <1>3. q \in Seq(Commands)
    BY <1>1, <1>2
  <1>4. R \in Seq(Results)
    BY <1>1, <1>2, AppendIs
  <1>5. t = [st EXCEPT !.queue = q, !.published = p, !.open = o, !.aside = None, !.results = R]
    BY <1>2 DEF Finished
  <1>6. t \in Stores /\ t.queue = q /\ t.results = R /\ t.published = p /\ t.open = o /\ t.aside = None
    BY <1>3, <1>4, <1>5 DEF Stores, Maybe, Snapshots
  <1>7. Popped(st, t, r)
    BY <1>2, <1>6 DEF Popped
  <1> QED
    BY <1>6, <1>7 DEF Answered

\* A command that succeeds.
LEMMA SucceedsKeeps ==
    ASSUME Inv, store.queue # <<>>, Succeeds(Head(store.queue)),
           NEW c, c = store.queue[1], disk' \in Disks, disk'.db \in Sets,
           Does(disk, disk', store, c),
           Deleted' = Deleted \/ (c.kind = "reset" /\ Deleted' \subseteq Deleted \cup asked),
           mark' = mark \/ mark' = [e \in Entries |-> IF e \in asked THEN "deleted" ELSE mark[e]],
           spent' = spent, Untouched
    PROVE  Inv'
  <1>1. Good(disk, store, win, asked, Deleted) /\ store \in Stores
    BY DEF Inv, StateOK
  <1>2. PICK p, o : p = Now /\ o = TRUE
    OBVIOUS
  <1>3. /\ p \in Snapshots /\ o \in BOOLEAN
        /\ p = [lib |-> disk'.db, rev |-> disk'.rev, persisted |-> TRUE]
    BY <1>2 DEF Now, Disks, Snapshots
  <1>4. PICK r : r = Result(Head(store.queue), TRUE, p)
    OBVIOUS
  <1>5. Finished(store, store', p, o, r)
    BY <1>2, <1>4 DEF Succeeds, Finished
  <1>6. Head(store.queue) = store.queue[1] /\ store.queue[1] \in Commands
    BY <1>1, SeqIs DEF Stores
  <1>7. /\ r \in Results /\ r.kind = store.queue[1].kind /\ r.ok
        /\ r.lib = p.lib /\ r.rev = p.rev /\ r.persisted = p.persisted
    BY <1>3, <1>4, <1>6 DEF Result, Results, Commands, Snapshots
  <1>8. Answered(store, store', r) /\ store'.open = o /\ store'.published = p
    <2>1. p \in Snapshots /\ o \in BOOLEAN
      BY <1>3
    <2> QED
      BY <1>1, <1>5, <1>7, <2>1, FinishedIs
  <1>9. store'.open /\ store'.published = [lib |-> disk'.db, rev |-> disk'.rev, persisted |-> TRUE]
    BY <1>2, <1>3, <1>8
  <1>10. Deleted' \in Sets
    BY DEF Deleted, Sets
  <1>11. Good(disk', store', win, asked, Deleted')
    BY <1>1, <1>7, <1>8, <1>9, <1>10, SucceedOK
  <1>12. spent' \in [{"edits", "arrivals", "faults", "starts"} -> Nat]
    BY DEF Inv, StateOK
  <1> QED
    BY <1>11, <1>12, WorkerInv

\* The first command, of one of some kinds.
LEMMA HeadCommand ==
    ASSUME Inv, NEW kinds, HeadIs(kinds), NEW c, c = store.queue[1]
    PROVE  /\ store.queue # <<>> /\ c = Head(store.queue) /\ c.kind \in kinds
           /\ c \in Commands /\ c.lib \in Sets
  <1>1. store.queue \in Seq(Commands) /\ store.queue # <<>> /\ Head(store.queue).kind \in kinds
    BY DEF HeadIs, Inv, StateOK, Stores
  <1>2. c = Head(store.queue) /\ c \in Commands
    BY <1>1, SeqIs
  <1> QED
    BY <1>1, <1>2 DEF Commands

\* The worker opens the database.
LEMMA OpenKeeps == ASSUME Inv, Open PROVE Inv'
  <1>1. PICK c : c = store.queue[1]
    OBVIOUS
  <1>2. HeadIs({"init"})
    BY DEF Open
  <1>3. store.queue # <<>> /\ c = Head(store.queue) /\ c.kind = "init"
    BY <1>1, <1>2, HeadCommand
  <1>4. /\ disk' = disk /\ disk.db # None /\ Succeeds(Head(store.queue)) /\ mark' = mark
        /\ spent' = spent /\ Untouched /\ Deleted' = Deleted
    BY DEF Open, Deleted
  <1>5. disk \in Disks /\ disk.db \in Sets /\ disk.cleared \in BOOLEAN
    BY <1>4 DEF Inv, StateOK, Disks, Maybe
  <1>6. Does(disk, disk', store, c)
    BY <1>3, <1>4, <1>5 DEF Does, Adds
  <1> QED
    BY <1>1, <1>3, <1>4, <1>5, <1>6, SucceedsKeeps

\* The worker commits a save, a deletion, the evidence of a match or a pull.
LEMMA ExecuteKeeps == ASSUME Inv, Execute PROVE Inv'
  <1>1. PICK c : c = store.queue[1]
    OBVIOUS
  <1>2. HeadIs({"save", "match", "pull", "delete"})
    BY DEF Execute
  <1>3. /\ store.queue # <<>> /\ c = Head(store.queue) /\ c \in Commands
        /\ c.kind \in {"save", "match", "pull", "delete"} /\ c.lib \in Sets
    BY <1>1, <1>2, HeadCommand
  <1>4. /\ store.open /\ Succeeds(Head(store.queue)) /\ mark' = mark
        /\ spent' = spent /\ Untouched /\ Deleted' = Deleted
    BY DEF Execute, Deleted
  <1>5. disk \in Disks /\ disk.db \in Sets /\ disk.rev \in Nat /\ disk.cleared \in BOOLEAN
    <2>1. disk \in Disks /\ disk.db # None
      BY <1>4 DEF Inv, StateOK, Good, StoredOK
    <2> QED
      BY <2>1 DEF Disks, Maybe
  <1>6. PICK lib : lib = CASE c.kind = "save" -> c.lib
                           [] c.kind = "delete" -> disk.db \ c.lib
                           [] OTHER -> disk.db \cup c.lib
    OBVIOUS
  <1>7. /\ lib \in Sets
        /\ c.kind \in Adds => lib = disk.db \cup c.lib
        /\ c.kind = "save" => lib = c.lib
        /\ c.kind = "delete" => lib = disk.db \ c.lib
    BY <1>3, <1>5, <1>6 DEF Sets, Adds
  <1>8. Committed(lib)
    BY <1>3, <1>6 DEF Execute
  <1>9. PICK n : n = IF lib = disk.db THEN disk.rev ELSE disk.rev + 1
    OBVIOUS
  <1>10. n \in Nat /\ (lib # disk.db => n # disk.rev)
    BY <1>5, <1>9
  <1>11. disk' = [disk EXCEPT !.db = lib, !.rev = n]
    BY <1>8, <1>9 DEF Committed
  <1>12. /\ disk' \in Disks /\ disk'.db = lib /\ disk'.config = disk.config
         /\ disk'.cleared = disk.cleared /\ disk'.rev = n
    BY <1>5, <1>7, <1>10, <1>11 DEF Disks, Maybe
  <1>13. Does(disk, disk', store, c)
    BY <1>3, <1>4, <1>5, <1>7, <1>10, <1>12 DEF Does
  <1> QED
    BY <1>1, <1>3, <1>4, <1>7, <1>12, <1>13, SucceedsKeeps

\* The worker commits an empty database after the files are gone.
LEMMA ResetCommitKeeps == ASSUME Inv, ResetCommit PROVE Inv'
  <1>1. PICK c : c = store.queue[1]
    OBVIOUS
  <1>2. HeadIs({"reset"})
    BY DEF ResetCommit
  <1>3. store.queue # <<>> /\ c = Head(store.queue) /\ c.kind = "reset"
    BY <1>1, <1>2, HeadCommand
  <1>4. /\ disk' = [disk EXCEPT !.db = {}, !.rev = @ + 1, !.cleared = TRUE]
        /\ store.aside # None /\ Succeeds(Head(store.queue)) /\ spent' = spent /\ Untouched
        /\ mark' = [e \in Entries |-> IF e \in asked THEN "deleted" ELSE mark[e]]
    BY DEF ResetCommit
  <1>5. store.open
    BY <1>4 DEF Inv, Good, StoredOK
  <1>6. Deleted' \subseteq Deleted \cup asked
    BY <1>4 DEF Deleted
  <1>7. disk \in Disks /\ disk.rev \in Nat /\ {} \in Sets
    BY DEF Inv, StateOK, Disks, Sets
  <1>8. PICK n : n = disk.rev + 1
    OBVIOUS
  <1>9. n \in Nat /\ n # disk.rev
    BY <1>7, <1>8
  <1>10. disk' = [disk EXCEPT !.db = {}, !.rev = n, !.cleared = TRUE]
    BY <1>4, <1>8
  <1>11. /\ disk' \in Disks /\ disk'.db = {} /\ disk'.db \in Sets /\ disk'.config = disk.config
         /\ disk'.cleared = TRUE /\ disk'.rev = n
    BY <1>7, <1>9, <1>10 DEF Disks, Maybe
  <1>12. Does(disk, disk', store, c)
    BY <1>3, <1>4, <1>5, <1>9, <1>11 DEF Does, Adds
  <1> QED
    BY <1>1, <1>3, <1>4, <1>6, <1>11, <1>12, SucceedsKeeps

\* A command that fails.
LEMMA FailsKeeps ==
    ASSUME Inv, store.queue # <<>>, Fails(Head(store.queue)),
           disk' = disk \/ (store.aside # None /\ disk' = [disk EXCEPT !.config = store.aside]),
           mark' = mark, Untouched,
           spent' \in [{"edits", "arrivals", "faults", "starts"} -> Nat]
    PROVE  Inv'
  <1>1. Good(disk, store, win, asked, Deleted) /\ store \in Stores /\ disk \in Disks
    BY DEF Inv, StateOK
  <1>2. PICK c : c = Head(store.queue)
    OBVIOUS
  <1>3. PICK p, o : p = Fallback(c) /\ o = store.open
    OBVIOUS
  <1>4. store.open => p = store.published
    BY <1>1, <1>3 DEF Fallback, Good, StoredOK
  <1>5. p \in Snapshots /\ o \in BOOLEAN
    BY <1>1, <1>3 DEF Fallback, Stores, Disks, Snapshots
  <1>6. ~store.open => ~p.persisted
    BY <1>1, <1>3 DEF Fallback, Good, StoredOK
  <1>7. PICK r : r = Result(c, FALSE, p)
    OBVIOUS
  <1>8. Finished(store, store', p, o, r)
    <2>1. store' = [store EXCEPT !.queue = Tail(@), !.published = p, !.aside = None,
                                 !.results = Append(@, r)]
      BY <1>2, <1>3, <1>7 DEF Fails
    <2> QED
      BY <1>1, <1>3, <2>1 DEF Stores, Finished
  <1>9. c = store.queue[1] /\ c \in Commands
    BY <1>1, <1>2, SeqIs DEF Stores
  <1>10. /\ r \in Results /\ r.kind = store.queue[1].kind /\ ~r.ok
         /\ r.lib = p.lib /\ r.rev = p.rev /\ r.persisted = p.persisted
    BY <1>5, <1>7, <1>9 DEF Result, Results, Commands, Snapshots
  <1>11. Answered(store, store', r) /\ store'.open = o /\ store'.published = p
    BY <1>1, <1>5, <1>8, <1>10, FinishedIs
  <1>12. /\ store'.open = store.open
         /\ store'.published = store.published \/ (~store.open /\ ~store'.published.persisted)
    BY <1>3, <1>4, <1>6, <1>11
  <1>13. Good(disk', store', win, asked, Deleted)
    BY <1>1, <1>10, <1>11, <1>12, FailOK
  <1>14. Deleted' = Deleted
    BY DEF Deleted
  <1> QED
    BY <1>13, <1>14, WorkerInv

\* The worker refuses a command while no database is open, or for an older revision.
LEMMA RefusedKeeps == ASSUME Inv, Refused PROVE Inv'
  <1>1. /\ store.queue # <<>> /\ Fails(Head(store.queue)) /\ disk' = disk /\ mark' = mark
        /\ Untouched /\ spent' = spent
    BY DEF Refused, HeadIs
  <1>2. spent' \in [{"edits", "arrivals", "faults", "starts"} -> Nat]
    BY <1>1 DEF Inv, StateOK
  <1> QED
    BY <1>1, <1>2, FailsKeeps

\* A command fails, and a reset puts the players of the match back.
LEMMA FaultKeeps == ASSUME Inv, Fault PROVE Inv'
  <1>1. spent' \in [{"edits", "arrivals", "faults", "starts"} -> Nat]
    BY UsesOK DEF Fault, Inv, StateOK
  <1>2. /\ store.queue # <<>> /\ Fails(Head(store.queue)) /\ mark' = mark /\ Untouched
        /\ disk' = disk \/ (store.aside # None /\ disk' = [disk EXCEPT !.config = store.aside])
    BY DEF Fault
  <1> QED
    BY <1>1, <1>2, FailsKeeps

-----------------------------------------------------------------------------
(* The steps of the window                                                 *)

\* The invariant before a handler of the window, and types the handlers use.
LEMMA Before ==
    ASSUME Inv
    PROVE  /\ Good(disk, store, win, asked, Deleted) /\ Waits(win)
           /\ disk \in Disks /\ store \in Stores /\ win \in Windows /\ asked \in Sets
           /\ page.rev \in Nat /\ page.roster \in Sets
           /\ win.ready \in BOOLEAN /\ win.view \in Sets /\ win.committed \in Sets /\ win.rev \in Nat
           /\ win.roster \in Sets /\ win.excluded \in Sets /\ win.pending \in Seq(Sets)
           /\ mark \in [Entries -> {"no", "deleted", "shown"}]
  <1>1. /\ Good(disk, store, win, asked, Deleted) /\ Waits(win)
        /\ disk \in Disks /\ store \in Stores /\ win \in Windows /\ asked \in Sets
        /\ page \in [rev : Nat, roster : Sets] /\ mark \in [Entries -> {"no", "deleted", "shown"}]
    BY DEF Inv, StateOK
  <1> QED
    BY <1>1 DEF Windows

\* What the window sends.
LEMMA CommandIs ==
    ASSUME win.rev \in Nat, NEW kind \in Kinds, NEW lib \in Sets, NEW base \in Sets,
           NEW c, c = Command(kind, lib, base)
    PROVE  c \in Commands /\ c.kind = kind /\ c.lib = lib /\ c.base = base /\ c.rev = win.rev
  BY DEF Command, Commands

\* Pumps sends pending evidence exactly when none is being merged.
LEMMA PumpsOK ==
    ASSUME win.rev \in Nat, NEW d, NEW st, NEW w, NEW a, NEW D, Good(d, st, w, a, D), Pumps(w, st)
    PROVE  Good(d, store', win', a, D) /\ Waits(win')
  <1>1. CASE w.active # None \/ w.pending = <<>>
    <2>1. win' = w /\ store' = st
      BY <1>1 DEF Pumps
    <2> QED
      BY <1>1, <2>1 DEF Waits
  <1>2. CASE w.active = None /\ w.pending # <<>>
    <2>1. w.pending \in Seq(Sets)
      BY DEF Good, Typed, Windows
    <2>2. Head(w.pending) \in Sets
      BY <1>2, <2>1
    <2>3. PICK c : c = Command("match", Head(w.pending), {})
      OBVIOUS
    <2>4. "match" \in Kinds /\ {} \in Sets
      BY DEF Kinds, Adds, Sets
    <2>5. c \in Commands /\ c.kind = "match" /\ c.lib = Head(w.pending)
      BY <2>2, <2>3, <2>4, CommandIs
    <2>6. store' = Sent(st, c) /\ win' = Pumped(w)
      BY <1>2, <2>3 DEF Pumps, Pumped
    <2>7. Good(d, store', win', a, D) /\ win'.active # None
      BY <1>2, <2>5, <2>6, PumpOK
    <2> QED
      BY <2>7 DEF Waits
  <1> QED
    BY <1>1, <1>2

\* Evidence is queued, remembered, or left because it is there; in each case all stays good.
LEMMA EvidenceOK ==
    ASSUME win.rev \in Nat, NEW d, NEW st, NEW w, NEW D, Good(d, st, w, asked, D), w.exit # "done",
           NEW s \in Sets, Apart(D, s), NEW force, Evidence(w, st, s, force)
    PROVE  Good(d, store', win', asked', D) /\ Waits(win')
  <1>1. CASE Enqueued(s, force)
    <2>1. PICK x : x = [w EXCEPT !.pending = Append(@, s)]
      OBVIOUS
    <2>2. Pumps(x, st) /\ asked' = asked \ s
      BY <1>1, <2>1 DEF Evidence
    <2>3. asked' \in Sets /\ asked' \subseteq asked /\ Apart(asked', s)
      BY <2>2 DEF Good, Typed, Sets, Apart
    <2>4. Good(d, st, x, asked', D)
      BY <2>1, <2>3, EnqueueOK
    <2> QED
      BY <2>2, <2>4, PumpsOK
  <1>2. CASE ~Enqueued(s, force)
    <2>1. Pumps(w, st) /\ asked' = asked
      BY <1>2 DEF Evidence
    <2> QED
      BY <2>1, PumpsOK
  <1> QED
    BY <1>1, <1>2

\* A reset that was asked for is the first command, or the first result.
LEMMA AskedReset ==
    ASSUME Inv
    PROVE  Asked("reset") <=> HeadIsA(store.queue, {"reset"}) \/ HeadIsA(store.results, {"reset"})
  <1>1. store.queue \in Seq(Commands) /\ store.results \in Seq(Results) /\ FirstOK(store.queue, store.results)
    BY DEF Inv, StateOK, Stores, Good
  <1>2. DOMAIN store.queue = 1..Len(store.queue) /\ DOMAIN store.results = 1..Len(store.results)
    BY <1>1
  <1>3. /\ store.queue # <<>> => 1 \in 1..Len(store.queue)
        /\ store.results # <<>> => 1 \in 1..Len(store.results)
    BY <1>1, SeqIs
  <1>4. /\ store.queue = <<>> => Len(store.queue) = 0
        /\ store.results = <<>> => Len(store.results) = 0
    OBVIOUS
  <1>5. ASSUME Asked("reset")
        PROVE  HeadIsA(store.queue, {"reset"}) \/ HeadIsA(store.results, {"reset"})
    <2>1. CASE \E i \in 1..Len(store.queue) : store.queue[i].kind = "reset"
      <3>1. 1 \in 1..Len(store.queue) /\ store.queue[1].kind = "reset"
        BY <1>1, <2>1 DEF FirstOK, Adds
      <3> QED
        BY <1>4, <3>1 DEF HeadIsA
    <2>2. CASE \E i \in 1..Len(store.results) : store.results[i].kind = "reset"
      <3>1. 1 \in 1..Len(store.results) /\ store.results[1].kind = "reset"
        BY <1>1, <2>2 DEF FirstOK, Adds
      <3> QED
        BY <1>4, <3>1 DEF HeadIsA
    <2> QED
      BY <1>2, <1>5, <2>1, <2>2 DEF Asked
  <1> QED
    BY <1>2, <1>3, <1>5 DEF Asked, HeadIsA

\* What QueuePlayerLibrarySave makes of the view edited when it would save v.
Saved(s, edited, v) ==
    \/ (~win.ready \/ Asked("reset")) /\ s.view = edited /\ s.store = store
    \/ win.ready /\ v = win.committed /\ s.view = v /\ s.store = store
    \/ win.ready /\ InFlight /\ s.view = win.committed /\ s.store = store
    \/ /\ win.ready /\ ~InFlight /\ v # win.committed /\ s.view = v
       /\ s.store = Sent(store, Command("save", v, win.committed))

\* What SavePlayerLibrary sends, and what the window shows afterwards.
LEMMA SavingIs ==
    ASSUME NEW edited, NEW roster
    PROVE  /\ Saved(Saving(edited, roster, TRUE), edited, edited \cup (roster \ win.excluded))
           /\ Saved(Saving(edited, roster, FALSE), edited, edited)
  <1>1. ASSUME NEW merge, NEW v, v = Merged(edited, roster, merge)
        PROVE  Saved(Saving(edited, roster, merge), edited, v)
    <2>1. PICK s : s = Saving(edited, roster, merge)
      OBVIOUS
    <2>2. CASE ~win.ready \/ Asked("reset")
      <3>1. s.view = edited /\ s.store = store
        BY <1>1, <2>1, <2>2 DEF Saving
      <3> QED
        BY <2>1, <2>2, <3>1 DEF Saved
    <2>3. CASE win.ready /\ ~Asked("reset") /\ v = win.committed
      <3>1. s.view = v /\ s.store = store
        BY <1>1, <2>1, <2>3 DEF Saving
      <3> QED
        BY <2>1, <2>3, <3>1 DEF Saved
    <2>4. CASE win.ready /\ ~Asked("reset") /\ v # win.committed /\ InFlight
      <3>1. s.view = win.committed /\ s.store = store
        BY <1>1, <2>1, <2>4 DEF Saving, MayNotSend
      <3> QED
        BY <2>1, <2>4, <3>1 DEF Saved
    <2>5. CASE win.ready /\ ~Asked("reset") /\ v # win.committed /\ ~InFlight
      <3>1. s.view = v /\ s.store = Sent(store, Command("save", v, win.committed))
        BY <1>1, <2>1, <2>5 DEF Saving, MayNotSend
      <3> QED
        BY <2>1, <2>5, <3>1 DEF Saved
    <2> QED
      BY <2>2, <2>3, <2>4, <2>5
  <1>2. /\ Merged(edited, roster, TRUE) = edited \cup (roster \ win.excluded)
        /\ Merged(edited, roster, FALSE) = edited
    BY DEF Merged
  <1> QED
    BY <1>1, <1>2

\* What is deleted (D) or being removed (b) is not saved, nor among the new players.
Fits(D, b, v, roster) ==
    /\ D \subseteq Deleted /\ D \cap roster \subseteq win.roster
    /\ win.ready /\ ~InFlight => Apart(D, v) /\ Apart(b, v) /\ b \subseteq win.committed
    /\ ~(win.ready /\ ~InFlight) => b \subseteq asked

\* The file of the players is written, or some are added that it does not have yet.
Wrote(e, roster) == e = SavedConfig(roster) \/ (e = disk /\ win.roster \subseteq roster)

\* A handler that changes the players of the match and saves what belongs to the library.
LEMMA SaveOK ==
    ASSUME Inv, NEW edited \in Sets, NEW roster \in Sets, NEW v \in Sets,
           NEW s, Saved(s, edited, v),
           NEW D \in Sets, NEW b \in Sets, Fits(D, b, v, roster),
           NEW e, Wrote(e, roster), NEW x, x = Edited(win, roster, s.view)
    PROVE  Good(e, s.store, x, b, D) /\ x.pending = win.pending /\ x.active = win.active
  <1> e = SavedConfig(roster) \/ (e = disk /\ win.roster \subseteq roster)
    BY DEF Wrote
  <1> /\ D \subseteq Deleted /\ D \cap roster \subseteq win.roster
      /\ win.ready /\ ~InFlight => Apart(D, v) /\ Apart(b, v) /\ b \subseteq win.committed
      /\ ~(win.ready /\ ~InFlight) => b \subseteq asked
    BY DEF Fits
  <1>1. Good(disk, store, win, asked, Deleted) /\ Waits(win) /\ win.committed \in Sets /\ win.rev \in Nat
    BY Before
  <1>2. PICK t, y : t = s.store /\ y = s.view
    OBVIOUS
  <1>3. /\ y \in Sets /\ (win.ready /\ t.queue = <<>> /\ t.results = <<>> => y = disk.db)
        /\ Good(disk, t, win, b, D)
        /\ HeadIsA(t.queue, {"reset"}) \/ HeadIsA(t.results, {"reset"}) <=> Asked("reset")
    <2>1. CASE win.ready /\ ~InFlight /\ v # win.committed
      <3>1. y = v /\ t = Sent(store, Command("save", v, win.committed))
            /\ store.queue = <<>> /\ store.results = <<>>
        BY <1>2, <2>1, AskedReset DEF Saved, InFlight, HeadIsA
      <3>2. PICK c : c = Command("save", v, win.committed)
        OBVIOUS
      <3>3. "save" \in Kinds
        BY DEF Kinds, Removals
      <3>4. c \in Commands /\ c.kind = "save" /\ c.lib = v /\ c.base = win.committed
        BY <1>1, <3>2, <3>3, CommandIs
      <3>5. win.pending = <<>>
        BY <1>1, <3>1 DEF Good, MatchesOK, HasMatch, Waits
      <3>6. Good(disk, store, win, asked, D)
        BY <1>1, LessOK DEF Good, Typed
      <3>7. t = Sent(store, c) /\ Apart(D, c.lib) /\ Apart(b, c.lib) /\ c.kind \in Removals
        BY <2>1, <3>1, <3>2, <3>4 DEF Removals
      <3>8. Good(disk, t, win, b, D)
        BY <2>1, <3>1, <3>4, <3>5, <3>6, <3>7, SendOK
      <3>9. t.queue # <<>> /\ ~HeadIsA(t.queue, {"reset"}) /\ ~HeadIsA(t.results, {"reset"})
        <4>1. t.queue = Append(store.queue, c) /\ t.results = store.results /\ store.queue \in Seq(Commands)
          BY <1>1, <3>4, <3>7, SentIs DEF Good, Typed, Stores
        <4>2. t.queue # <<>> /\ t.queue[1] = c
          <5>1. PICK p : p = Append(store.queue, c)
            OBVIOUS
          <5>2. c \in Commands /\ store.queue \in Seq(Commands) /\ store.queue = <<>>
            BY <3>1, <3>4, <4>1
          <5>3. p # <<>> /\ p[1] = c
            BY <5>1, <5>2, AppendIs
          <5> QED
            BY <4>1, <5>1, <5>3
        <4> QED
          BY <3>1, <3>4, <4>1, <4>2 DEF HeadIsA
      <3> QED
        BY <3>1, <3>8, <3>9, AskedReset DEF HeadIsA
    <2>2. CASE ~(win.ready /\ ~InFlight /\ v # win.committed)
      <3>1. t = store
        BY <1>2, <2>2 DEF Saved
      <3>2. y \in Sets
        BY <1>1, <1>2, <2>2 DEF Saved
      <3>3. b \subseteq asked
        <4>1. CASE win.ready /\ ~InFlight
          BY <2>2, <4>1 DEF Apart
        <4> QED
          BY <4>1
      <3>4. Good(disk, t, win, b, D)
        BY <1>1, <3>1, <3>3, LessOK
      <3>5. ASSUME win.ready, t.queue = <<>>, t.results = <<>> PROVE y = disk.db
        <4>1. ~InFlight /\ ~Asked("reset") /\ win.committed = disk.db
          BY <1>1, <3>1, <3>5, AskedReset DEF InFlight, HeadIsA, Good, StoredOK
        <4> QED
          BY <1>2, <2>2, <3>5, <4>1 DEF Saved
      <3> QED
        BY <3>1, <3>2, <3>4, <3>5, AskedReset
    <2> QED
      BY <2>1, <2>2
  <1>4. e = disk \/ e = WithConfig(disk, roster)
    BY DEF SavedConfig, WithConfig
  <1>5. /\ Asked("reset") => e = disk
        /\ e.config = roster \/ win.roster \subseteq roster \/ Asked("reset")
    <2>1. disk \in Disks
      BY <1>1 DEF Good, Typed
    <2> QED
      BY <2>1 DEF SavedConfig, Disks
  <1>6. x = Edited(win, roster, y)
    BY <1>2
  <1>7. Writes(disk, e, t, win, roster)
    BY <1>3, <1>4, <1>5 DEF Writes
  <1>8. y \in Sets /\ (win.ready /\ t.queue = <<>> /\ t.results = <<>> => y = disk.db)
    BY <1>3
  <1>9. Good(disk, t, win, b, D)
    BY <1>3
  <1>10. Good(e, t, x, b, D) /\ x.pending = win.pending /\ x.active = win.active
    BY <1>6, <1>7, <1>8, <1>9, EditOK
  <1> QED
    BY <1>2, <1>10

\* With no command on its way the window has what the database has, and nothing deleted.
LEMMA Idle ==
    ASSUME Inv, win.ready, ~InFlight
    PROVE  /\ win.view = disk.db /\ win.committed = disk.db /\ win.rev = disk.rev /\ asked = {}
           /\ Apart(Deleted, disk.db) /\ Deleted \cap (win.roster \ win.excluded) = {}
           /\ win.pending = <<>> /\ win.active = None
           /\ LibraryOf(disk) = disk.db
  <1>1. store.queue = <<>> /\ store.results = <<>> /\ Good(disk, store, win, asked, Deleted)
    BY DEF InFlight, Inv
  <1>2. win.view = disk.db /\ win.committed = disk.db /\ win.rev = disk.rev
    BY <1>1 DEF Good, StoredOK
  <1>3. disk.db # None
    <2>1. win.committed \in Sets
      BY Before
    <2> QED
      BY <1>2, <2>1, NoneAssumption DEF Sets
  <1>4. asked = {}
    BY <1>1 DEF Good, AskedOK, HeadIsA
  <1>5. LibraryOf(disk) = disk.db
    BY <1>3 DEF LibraryOf
  <1>6. Apart(Deleted, disk.db) /\ Deleted \cap (win.roster \ win.excluded) = {}
    BY <1>1, <1>5 DEF Good, DeletedOK, HeadOk
  <1>7. win.active = None
    BY <1>1 DEF Good, MatchesOK, HasMatch
  <1>8. win.pending = <<>>
    BY <1>7 DEF Inv, Waits
  <1> QED
    BY <1>2, <1>4, <1>5, <1>6, <1>7, <1>8

\* A handler of SaveOK that leaves the page alone.
LEMMA EditInv ==
    ASSUME Inv, NEW edited \in Sets, NEW roster \in Sets, NEW v \in Sets,
           NEW s, Saved(s, edited, v),
           store' = s.store, win' = Edited(win, roster, s.view),
           disk' = SavedConfig(roster) \/ (disk' = disk /\ win.roster \subseteq roster),
           page' = page, mark' \in [Entries -> {"no", "deleted", "shown"}],
           Deleted' \subseteq Deleted, Deleted' \cap roster \subseteq win.roster, asked' \in Sets,
           win.ready /\ ~InFlight => /\ Apart(Deleted', v) /\ Apart(asked', v)
                                     /\ asked' \subseteq win.committed,
           ~(win.ready /\ ~InFlight) => asked' \subseteq asked,
           spent' \in [{"edits", "arrivals", "faults", "starts"} -> Nat]
    PROVE  Inv'
  <1>1. PICK D, b, e, x : D = Deleted' /\ b = asked' /\ e = disk' /\ x = win'
    OBVIOUS
  <1>2. D \in Sets /\ b \in Sets
    BY <1>1 DEF Deleted, Sets
  <1>3. Good(e, s.store, x, b, D) /\ x.pending = win.pending /\ x.active = win.active
    <2>1. Fits(D, b, v, roster) /\ Wrote(e, roster)
      BY <1>1 DEF Fits, Wrote
    <2> QED
      BY <1>1, <1>2, <2>1, SaveOK
  <1>4. Good(disk', store', win', asked', Deleted')
    BY <1>1, <1>3
  <1>5. Waits(win')
    BY <1>1, <1>3 DEF Inv, Waits
  <1>6. page' \in [rev : Nat, roster : Sets]
    BY DEF Inv, StateOK
  <1> QED
    BY <1>4, <1>5, <1>6, InvNext

\* What somebody names is not deleted.
LEMMA NamedIs ==
    ASSUME Inv, NEW s, Named(s)
    PROVE  /\ mark' \in [Entries -> {"no", "deleted", "shown"}]
           /\ Deleted' \subseteq Deleted /\ Deleted' \cap s = {}
  BY Before DEF Named, Deleted

\* An identifier is added to the match.
LEMMA QuickAddKeeps ==
    ASSUME Inv, NEW e \in Entries, QuickAdd(e),
           spent' \in [{"edits", "arrivals", "faults", "starts"} -> Nat]
    PROVE  Inv'
  <1>1. PICK roster : roster = win.roster \cup {e}
    OBVIOUS
  <1>2. PICK s, v : s = Saving(win.view, roster, TRUE) /\ v = win.view \cup (roster \ win.excluded)
    OBVIOUS
  <1>3. Saved(s, win.view, v)
    BY <1>2, SavingIs
  <1>4. win.view \in Sets /\ roster \in Sets /\ v \in Sets /\ asked \in Sets
    BY <1>1, <1>2, Before DEF Sets
  <1>5. /\ store' = s.store /\ win' = Edited(win, roster, s.view) /\ disk' = disk /\ page' = page
        /\ asked' = asked /\ Named({e}) /\ win.roster \subseteq roster
    BY <1>1, <1>2 DEF QuickAdd, Edited
  <1>6. /\ mark' \in [Entries -> {"no", "deleted", "shown"}]
        /\ Deleted' \subseteq Deleted /\ Deleted' \cap {e} = {}
    BY <1>5, NamedIs
  <1>7. Deleted' \cap roster \subseteq win.roster
    BY <1>1, <1>6
  <1>8. ASSUME win.ready, ~InFlight
        PROVE  Apart(Deleted', v) /\ Apart(asked', v) /\ asked' \subseteq win.committed
    <2>1. /\ win.view = disk.db /\ asked = {} /\ Apart(Deleted, disk.db)
          /\ Deleted \cap (win.roster \ win.excluded) = {}
      BY <1>8, Idle
    <2> QED
      BY <1>2, <1>5, <1>6, <1>7, <2>1 DEF Apart
  <1> QED
    BY <1>3, <1>4, <1>5, <1>6, <1>7, <1>8, EditInv

\* A player is deleted from the roster and from the library.
LEMMA DeleteBothKeeps ==
    ASSUME Inv, NEW e \in Entries, DeleteBoth(e),
           spent' \in [{"edits", "arrivals", "faults", "starts"} -> Nat]
    PROVE  Inv'
  <1>1. PICK roster, edited : roster = win.roster \ {e} /\ edited = win.view \ {e}
    OBVIOUS
  <1>2. PICK s, v : s = Saving(edited, roster, TRUE) /\ v = edited \cup (roster \ win.excluded)
    OBVIOUS
  <1>3. Saved(s, edited, v)
    BY <1>2, SavingIs
  <1>4. /\ edited \in Sets /\ roster \in Sets /\ v \in Sets /\ win.committed \in Sets
        /\ mark \in [Entries -> {"no", "deleted", "shown"}]
    BY <1>1, <1>2, Before DEF Sets
  <1>5. /\ store' = s.store /\ win' = Edited(win, roster, s.view) /\ disk' = SavedConfig(roster)
        /\ page' = page /\ mark' = mark /\ asked' = {e} \cap win.committed /\ win.ready /\ ~InFlight
    BY <1>1, <1>2 DEF DeleteBoth, Editable, Busy, Edited
  <1>6. Deleted' = Deleted /\ Deleted' \cap roster \subseteq win.roster /\ asked' \in Sets
    BY <1>1, <1>4, <1>5 DEF Deleted, Sets
  <1>7. Apart(Deleted', v) /\ Apart(asked', v) /\ asked' \subseteq win.committed
    <2>1. /\ win.view = disk.db /\ Apart(Deleted, disk.db)
          /\ Deleted \cap (win.roster \ win.excluded) = {}
      BY <1>5, Idle
    <2> QED
      BY <1>1, <1>2, <1>5, <1>6, <2>1 DEF Apart
  <1> QED
    BY <1>3, <1>4, <1>5, <1>6, <1>7, EditInv

\* Players are removed from the match only.
LEMMA ApplyKeeps ==
    ASSUME Inv, NEW roster \in Sets, Apply(roster),
           spent' \in [{"edits", "arrivals", "faults", "starts"} -> Nat]
    PROVE  Inv'
  <1>1. PICK s, v : s = Saving(win.view, roster, TRUE) /\ v = win.view \cup (roster \ win.excluded)
    OBVIOUS
  <1>2. Saved(s, win.view, v)
    BY <1>1, SavingIs
  <1>3. /\ win.view \in Sets /\ v \in Sets /\ asked \in Sets
        /\ mark \in [Entries -> {"no", "deleted", "shown"}]
    BY <1>1, Before DEF Sets
  <1>4. /\ store' = s.store /\ win' = Edited(win, roster, s.view) /\ disk' = SavedConfig(roster)
        /\ page' = page /\ mark' = mark /\ asked' = asked /\ roster \subseteq win.roster
    BY <1>1 DEF Apply, Edited
  <1>5. Deleted' = Deleted /\ Deleted' \cap roster \subseteq win.roster
    BY <1>4 DEF Deleted
  <1>6. ASSUME win.ready, ~InFlight
        PROVE  Apart(Deleted', v) /\ Apart(asked', v) /\ asked' \subseteq win.committed
    <2>1. /\ win.view = disk.db /\ asked = {} /\ Apart(Deleted, disk.db)
          /\ Deleted \cap (win.roster \ win.excluded) = {}
      BY <1>6, Idle
    <2> QED
      BY <1>1, <1>4, <1>5, <2>1 DEF Apart
  <1> QED
    BY <1>2, <1>3, <1>4, <1>5, <1>6, EditInv

\* The page sends players of its own.
LEMMA WebRosterKeeps ==
    ASSUME Inv, NEW roster \in Sets, WebRoster(roster),
           spent' \in [{"edits", "arrivals", "faults", "starts"} -> Nat]
    PROVE  Inv'
  <1>1. PICK s : s = Saving(win.view, roster, FALSE)
    OBVIOUS
  <1>2. Saved(s, win.view, win.view)
    BY <1>1, SavingIs
  <1>3. /\ win.view \in Sets /\ asked \in Sets
        /\ mark \in [Entries -> {"no", "deleted", "shown"}]
    BY Before DEF Sets
  <1>4. /\ store' = s.store /\ win' = Edited(win, roster, s.view) /\ disk' = SavedConfig(roster)
        /\ page' = page /\ asked' = asked /\ WebPlayers(roster, page.roster)
    BY <1>1 DEF WebRoster, Edited
  <1>5. /\ mark' \in [Entries -> {"no", "deleted", "shown"}]
        /\ Deleted' \subseteq Deleted /\ Deleted' \cap roster = {}
    <2>1. \A e \in Entries :
            /\ mark'[e] \in {"no", "deleted", "shown"}
            /\ mark'[e] = "deleted" => mark[e] = "deleted" /\ e \notin roster
      BY <1>3, <1>4 DEF WebPlayers
    <2>2. mark' \in [Entries -> {"no", "deleted", "shown"}]
      BY <1>3, <1>4 DEF WebPlayers
    <2> QED
      BY <2>1, <2>2 DEF Deleted
  <1>6. ASSUME win.ready, ~InFlight
        PROVE  Apart(Deleted', win.view) /\ Apart(asked', win.view) /\ asked' \subseteq win.committed
    <2>1. win.view = disk.db /\ asked = {} /\ Apart(Deleted, disk.db)
      BY <1>6, Idle
    <2> QED
      BY <1>4, <1>5, <2>1 DEF Apart
  <1>7. Deleted' \cap roster \subseteq win.roster
    BY <1>5
  <1> QED
    BY <1>2, <1>3, <1>4, <1>5, <1>6, <1>7, EditInv

\* The page sends the players it shows and its library.
LEMMA WebLibraryKeeps ==
    ASSUME Inv, NEW lib \in Sets, WebLibrary(lib),
           spent' \in [{"edits", "arrivals", "faults", "starts"} -> Nat]
    PROVE  Inv'
  <1>1. PICK edited : edited = IF TakesLibrary THEN lib ELSE win.view
    OBVIOUS
  <1>2. PICK s, roster : s = Saving(edited, roster, FALSE) /\ roster = page.roster
    OBVIOUS
  <1>3. Saved(s, edited, edited)
    BY <1>2, SavingIs
  <1>4. /\ edited \in Sets /\ roster \in Sets /\ asked \in Sets /\ win.committed \in Sets
        /\ mark \in [Entries -> {"no", "deleted", "shown"}]
    BY <1>1, <1>2, Before DEF Sets
  <1>5. /\ store' = s.store /\ win' = Edited(win, roster, s.view) /\ disk' = SavedConfig(roster)
        /\ page' = page /\ asked' = IF TakesLibrary THEN win.committed \ lib ELSE asked
        /\ mark' = [e \in Entries |->
                      IF TakesLibrary /\ e \in lib \ win.committed THEN "no"
                      ELSE IF e \in roster /\ mark[e] = "deleted" THEN "shown" ELSE mark[e]]
    BY <1>1, <1>2 DEF WebLibrary, Edited
  <1>6. /\ mark' \in [Entries -> {"no", "deleted", "shown"}]
        /\ Deleted' \subseteq Deleted /\ Deleted' \cap roster = {}
        /\ TakesLibrary => Deleted' \cap (lib \ win.committed) = {}
    <2>1. \A e \in Entries :
            /\ mark'[e] \in {"no", "deleted", "shown"}
            /\ mark'[e] = "deleted" => /\ mark[e] = "deleted" /\ e \notin roster
                                       /\ ~(TakesLibrary /\ e \in lib \ win.committed)
      BY <1>4, <1>5
    <2>2. mark' \in [Entries -> {"no", "deleted", "shown"}]
      BY <1>4, <1>5
    <2> QED
      BY <2>1, <2>2 DEF Deleted
  <1>7. ASSUME win.ready, ~InFlight
        PROVE  Apart(Deleted', edited) /\ Apart(asked', edited) /\ asked' \subseteq win.committed
    <2>1. /\ win.view = disk.db /\ win.committed = disk.db /\ asked = {}
          /\ Apart(Deleted, disk.db)
      BY <1>7, Idle
    <2> QED
      BY <1>1, <1>5, <1>6, <2>1 DEF Apart
  <1>8. ~(win.ready /\ ~InFlight) => asked' \subseteq asked
    BY <1>5 DEF TakesLibrary, Busy
  <1>9. Deleted' \cap roster \subseteq win.roster /\ asked' \in Sets
    BY <1>4, <1>5, <1>6 DEF Sets
  <1> QED
    BY <1>3, <1>4, <1>5, <1>6, <1>7, <1>8, <1>9, EditInv

\* A command of the user that asks for something to be removed.
LEMMA IdentityKeeps ==
    ASSUME Inv, NEW c \in Commands, c.kind \in {"delete", "reset"}, c.base \subseteq win.committed,
           c.base = IF c.kind = "delete" THEN c.lib ELSE win.committed, Identity(c),
           spent' \in [{"edits", "arrivals", "faults", "starts"} -> Nat]
    PROVE  Inv'
  <1>1. /\ store' = Sent(store, c) /\ asked' = c.base /\ disk' = disk /\ win' = win /\ page' = page
        /\ mark' = mark /\ Deleted' = Deleted /\ win.ready /\ ~InFlight
    BY DEF Identity, Editable, Busy, Deleted
  <1>2. Good(disk, store, win, asked, Deleted)
    BY DEF Inv
  <1>3. store.queue = <<>> /\ store.results = <<>> /\ win.pending = <<>>
    BY <1>1, Idle DEF InFlight
  <1>4. c.kind \in Removals /\ c.kind \notin Adds /\ c.base \in Sets
    BY DEF Removals, Adds, Commands
  <1>5. Good(disk, store', win, c.base, Deleted)
    BY <1>1, <1>2, <1>3, <1>4, SendOK
  <1>6. Good(disk', store', win', asked', Deleted')
    BY <1>1, <1>5
  <1> QED
    BY <1>1, <1>6, InvNext DEF Inv, StateOK

\* A player is deleted from the library.
LEMMA DeleteKeeps ==
    ASSUME Inv, NEW e \in Entries, Delete(e),
           spent' \in [{"edits", "arrivals", "faults", "starts"} -> Nat]
    PROVE  Inv'
  <1>1. PICK s : s = {e}
    OBVIOUS
  <1>2. PICK c : c = Command("delete", s, s)
    OBVIOUS
  <1>3. c \in Commands /\ c.kind = "delete" /\ c.lib = s /\ c.base = s
    <2>1. "delete" \in Kinds /\ s \in Sets
      BY <1>1 DEF Kinds, Removals, Sets
    <2> QED
      BY <1>2, <2>1, Before, CommandIs
  <1>4. Identity(c) /\ s \subseteq win.committed
    BY <1>1, <1>2 DEF Delete
  <1> QED
    BY <1>3, <1>4, IdentityKeeps

\* The library is reset.
LEMMA ResetKeeps ==
    ASSUME Inv, Reset, spent' \in [{"edits", "arrivals", "faults", "starts"} -> Nat]
    PROVE  Inv'
  <1>1. PICK c : c = Command("reset", {}, win.committed)
    OBVIOUS
  <1>2. "reset" \in Kinds /\ {} \in Sets /\ win.committed \in Sets
    BY Before DEF Kinds, Removals, Sets
  <1>3. c \in Commands /\ c.kind = "reset" /\ c.base = win.committed
    BY <1>1, <1>2, Before, CommandIs
  <1>4. Identity(c)
    BY <1>1 DEF Reset
  <1> QED
    BY <1>3, <1>4, IdentityKeeps

\* A public library arrives and is imported.
LEMMA TakePublicKeeps ==
    ASSUME Inv, NEW s \in Sets, TakePublic(s),
           spent' \in [{"edits", "arrivals", "faults", "starts"} -> Nat]
    PROVE  Inv'
  <1>1. PICK c : c = Command("pull", s, {})
    OBVIOUS
  <1>2. "pull" \in Kinds /\ {} \in Sets
    BY DEF Kinds, Adds, Sets
  <1>3. c \in Commands /\ c.kind = "pull" /\ c.lib = s
    BY <1>1, <1>2, Before, CommandIs
  <1>4. /\ store' = Sent(store, c) /\ asked' = asked \ s /\ Named(s)
        /\ disk' = disk /\ win' = win /\ page' = page
    BY <1>1 DEF TakePublic
  <1>5. /\ mark' \in [Entries -> {"no", "deleted", "shown"}]
        /\ Deleted' \subseteq Deleted /\ Deleted' \cap s = {}
    BY <1>4, NamedIs
  <1>6. PICK D, b : D = Deleted' /\ b = asked'
    OBVIOUS
  <1>7. /\ D \in Sets /\ b \in Sets /\ b \subseteq asked /\ D \subseteq Deleted
        /\ Apart(D, c.lib) /\ Apart(b, c.lib)
    BY <1>3, <1>4, <1>5, <1>6, Before DEF Sets, Deleted, Apart
  <1>8. Good(disk, store, win, asked, Deleted) /\ asked \in Sets
    BY Before
  <1>9. Good(disk, store, win, asked, D)
    BY <1>7, <1>8, LessOK
  <1>10. c.kind \in Adds /\ c.kind \notin {"match", "init"} /\ c.kind # "delete"
    BY <1>3 DEF Adds
  <1>11. Good(disk, store', win, b, D)
    BY <1>3, <1>4, <1>7, <1>9, <1>10, SendOK
  <1>12. Good(disk', store', win', asked', Deleted')
    BY <1>4, <1>6, <1>11
  <1> QED
    BY <1>4, <1>5, <1>12, InvNext DEF Inv, StateOK

\* Evidence of the match is sent when the panel of the library opens.
LEMMA OpenPanelKeeps ==
    ASSUME Inv, NEW e \in Entries, OpenPanel(e),
           spent' \in [{"edits", "arrivals", "faults", "starts"} -> Nat]
    PROVE  Inv'
  <1>1. PICK s, force : s = {e} /\ force = TRUE
    OBVIOUS
  <1>2. Evidence(win, store, s, force) /\ Named(s) /\ disk' = disk /\ page' = page /\ win.exit # "done"
    BY <1>1 DEF OpenPanel, Accepting
  <1>3. /\ mark' \in [Entries -> {"no", "deleted", "shown"}]
        /\ Deleted' \subseteq Deleted /\ Deleted' \cap s = {}
    BY <1>2, NamedIs
  <1>4. PICK D : D = Deleted'
    OBVIOUS
  <1>5. D \in Sets /\ s \in Sets /\ D \subseteq Deleted /\ Apart(D, s)
    BY <1>1, <1>3, <1>4 DEF Sets, Deleted, Apart
  <1>6. Good(disk, store, win, asked, Deleted) /\ asked \in Sets /\ win.rev \in Nat
    BY Before
  <1>7. Good(disk, store, win, asked, D)
    BY <1>5, <1>6, LessOK
  <1>8. Good(disk, store', win', asked', D) /\ Waits(win')
    BY <1>2, <1>5, <1>6, <1>7, EvidenceOK
  <1> QED
    BY <1>2, <1>3, <1>4, <1>8, InvNext DEF Inv, StateOK

\* A match arrives, and its entries may be evidence.
LEMMA TakeMatchKeeps ==
    ASSUME Inv, NEW s \in Sets, NEW kept \in SUBSET win.roster, NEW byHand, NEW evidence,
           TakeMatch(s, kept, byHand, evidence),
           spent' \in [{"edits", "arrivals", "faults", "starts"} -> Nat]
    PROVE  Inv'
  <1>0. PICK roster : roster = s \cup kept
    OBVIOUS
  <1>1. PICK saving : saving = Saving(win.view, roster, FALSE)
    OBVIOUS
  <1>2. PICK w : w = Edited(win, roster, saving.view)
    OBVIOUS
  <1>3. /\ IF evidence /\ saving.ok /\ Accepting THEN Evidence(w, saving.store, s, byHand)
           ELSE win' = w /\ store' = saving.store /\ asked' = asked
        /\ disk' = SavedConfig(roster) /\ Named(s) /\ page' = page
    BY <1>0, <1>1, <1>2 DEF TakeMatch, Edited
  <1>4. /\ mark' \in [Entries -> {"no", "deleted", "shown"}]
        /\ Deleted' \subseteq Deleted /\ Deleted' \cap s = {}
    BY <1>3, NamedIs
  <1>5. PICK D, e : D = Deleted' /\ e = disk'
    OBVIOUS
  <1>6. D \in Sets /\ D \subseteq Deleted /\ D \cap roster \subseteq win.roster /\ Apart(D, s)
    BY <1>0, <1>4, <1>5 DEF Sets, Deleted, Apart
  <1>7. asked \in Sets /\ win.rev \in Nat /\ win.view \in Sets /\ win \in Windows /\ Waits(win)
        /\ roster \in Sets
    BY <1>0, Before DEF Sets
  <1>8. Saved(saving, win.view, win.view)
    BY <1>1, SavingIs
  <1>9. ASSUME win.ready, ~InFlight
        PROVE  Apart(D, win.view) /\ Apart(asked, win.view) /\ asked \subseteq win.committed
    <2>1. win.view = disk.db /\ asked = {} /\ Apart(Deleted, disk.db)
      BY <1>9, Idle
    <2> QED
      BY <1>6, <2>1 DEF Apart
  <1>10. Good(e, saving.store, w, asked, D) /\ w.pending = win.pending /\ w.active = win.active
    <2>1. Wrote(e, roster)
      BY <1>3, <1>5 DEF Wrote
    <2>2. PICK b : b = asked
      OBVIOUS
    <2>3. win.ready /\ ~InFlight => Apart(D, win.view) /\ Apart(b, win.view) /\ b \subseteq win.committed
      BY <1>9, <2>2
    <2>4. b \in Sets /\ (~(win.ready /\ ~InFlight) => b \subseteq asked)
      BY <1>7, <2>2
    <2>5. D \in Sets /\ D \subseteq Deleted /\ D \cap roster \subseteq win.roster /\ win.view \in Sets
      BY <1>6, <1>7
    <2>6. Fits(D, b, win.view, roster)
      BY <2>3, <2>4, <2>5 DEF Fits
    <2>7. b \in Sets
      BY <2>4
    <2>8. Good(e, saving.store, w, b, D) /\ w.pending = win.pending /\ w.active = win.active
      BY <1>2, <1>7, <1>8, <2>1, <2>5, <2>6, <2>7, SaveOK
    <2> QED
      BY <2>2, <2>8
  <1>11. CASE evidence /\ saving.ok /\ Accepting
    <2>1. w.exit # "done"
      BY <1>2, <1>7, <1>11 DEF Accepting, Edited, Windows
    <2>2. Evidence(w, saving.store, s, byHand)
      BY <1>3, <1>11
    <2>3. Good(e, store', win', asked', D) /\ Waits(win')
      BY <1>6, <1>7, <1>10, <2>1, <2>2, EvidenceOK
    <2> QED
      BY <1>3, <1>4, <1>5, <2>3, InvNext DEF Inv, StateOK
  <1>12. CASE ~(evidence /\ saving.ok /\ Accepting)
    <2>1. win' = w /\ store' = saving.store /\ asked' = asked
      BY <1>3, <1>12
    <2>2. Waits(win')
      BY <1>7, <1>10, <2>1 DEF Waits
    <2>3. Good(disk', store', win', asked', Deleted')
      BY <1>5, <1>10, <2>1
    <2> QED
      BY <1>3, <1>4, <2>2, <2>3, InvNext DEF Inv, StateOK
  <1> QED
    BY <1>11, <1>12

\* Older players are the match again, and what was deleted of them is on show.
LEMMA AgainIs ==
    ASSUME Inv, NEW s, Again(s)
    PROVE  /\ mark' \in [Entries -> {"no", "deleted", "shown"}]
           /\ Deleted' \subseteq Deleted /\ Deleted' \cap s = {}
  <1>1. mark \in [Entries -> {"no", "deleted", "shown"}]
    BY Before
  <1>2. mark' \in [Entries -> {"no", "deleted", "shown"}]
    BY <1>1 DEF Again
  <1>3. \A e \in Entries : mark'[e] = "deleted" => mark[e] = "deleted" /\ e \notin s
    BY <1>1 DEF Again
  <1> QED
    BY <1>2, <1>3 DEF Deleted

\* A synchronisation is undone.
LEMMA UndoSyncKeeps ==
    ASSUME Inv, Older, UndoSync,
           spent' \in [{"edits", "arrivals", "faults", "starts"} -> Nat]
    PROVE  Inv'
  <1>1. PICK s : s = Saving(win.view, synced.before, FALSE)
    OBVIOUS
  <1>2. PICK roster \in {synced.before} \cup (IF s.ok THEN {} ELSE {win.roster}) :
          /\ win' = [win EXCEPT !.roster = roster, !.view = s.view] /\ store' = s.store
          /\ disk' = SavedConfig(roster)
          /\ Again(roster)
    BY <1>1 DEF UndoSync
  <1>3. Saved(s, win.view, win.view)
    BY <1>1, SavingIs
  <1>4. /\ win.view \in Sets /\ asked \in Sets /\ roster \in Sets
        /\ page' = page /\ asked' = asked
    BY <1>2, Before DEF Older, UndoSync
  <1>5. /\ mark' \in [Entries -> {"no", "deleted", "shown"}]
        /\ Deleted' \subseteq Deleted /\ Deleted' \cap roster = {}
    BY <1>2, AgainIs
  <1>6. ASSUME win.ready, ~InFlight
        PROVE  Apart(Deleted', win.view) /\ Apart(asked', win.view) /\ asked' \subseteq win.committed
    <2>1. win.view = disk.db /\ asked = {} /\ Apart(Deleted, disk.db)
      BY <1>6, Idle
    <2> QED
      BY <1>4, <1>5, <2>1 DEF Apart
  <1>7. Deleted' \cap roster \subseteq win.roster /\ win' = Edited(win, roster, s.view)
    BY <1>2, <1>5 DEF Edited
  <1>8. store' = s.store /\ disk' = SavedConfig(roster)
    BY <1>2
  <1> QED
    BY <1>3, <1>4, <1>5, <1>6, <1>7, <1>8, EditInv

\* The history of the match is gone back or forth.
LEMMA RestoreHistoryKeeps ==
    ASSUME Inv, NEW s \in Sets, RestoreHistory(s),
           spent' \in [{"edits", "arrivals", "faults", "starts"} -> Nat]
    PROVE  Inv'
  <1>1. /\ Good(disk, store, win, asked, Deleted) /\ Waits(win) /\ win \in Windows
        /\ disk \in Disks /\ win.view \in Sets /\ asked \in Sets
    BY Before
  <1>2. /\ win' = [win EXCEPT !.roster = s] /\ disk' = SavedConfig(s) /\ Again(s)
        /\ store' = store /\ page' = page /\ asked' = asked
    BY DEF RestoreHistory
  <1>3. /\ mark' \in [Entries -> {"no", "deleted", "shown"}]
        /\ Deleted' \subseteq Deleted /\ Deleted' \cap s = {}
    BY <1>2, AgainIs
  <1>4. PICK D, e, x, v : D = Deleted' /\ e = disk' /\ x = win' /\ v = win.view
    OBVIOUS
  <1>5. D \in Sets /\ D \subseteq Deleted /\ D \cap s \subseteq win.roster /\ v \in Sets
    BY <1>1, <1>3, <1>4 DEF Deleted, Sets
  <1>6. Good(disk, store, win, asked, D)
    BY <1>1, <1>5, LessOK
  <1>7. x = Edited(win, s, v)
    BY <1>1, <1>2, <1>4 DEF Windows, Edited
  <1>8. win.ready /\ store.queue = <<>> /\ store.results = <<>> => v = disk.db
    BY <1>4, Idle DEF InFlight
  <1>9. Writes(disk, e, store, win, s)
    <2>1. Asked("reset") => e = disk
      BY <1>2, <1>4 DEF SavedConfig
    <2>2. ~Asked("reset") => e = WithConfig(disk, s) /\ e.config = s
      BY <1>1, <1>2, <1>4 DEF SavedConfig, WithConfig, Disks
    <2> QED
      BY <2>1, <2>2, AskedReset DEF Writes
  <1>10. Good(e, store, x, asked, D) /\ x.pending = win.pending /\ x.active = win.active
    BY <1>5, <1>6, <1>7, <1>8, <1>9, EditOK
  <1>11. Good(disk', store', win', asked', Deleted') /\ Waits(win')
    BY <1>1, <1>2, <1>4, <1>10 DEF Waits
  <1>12. page' \in [rev : Nat, roster : Sets]
    BY <1>2 DEF Inv, StateOK
  <1> QED
    BY <1>3, <1>11, <1>12, InvNext

\* A handler that changes how the window ends, or what it waits for, in the window w.
LEMMA FlagsKeep ==
    ASSUME Inv, NEW w \in Windows, Good(disk', store', w, asked, Deleted), Waits(w),
           NEW exit \in {"no", "pending", "done"}, NEW pulling \in BOOLEAN,
           exit = "done" /\ w.ready => w.pending = <<>> /\ w.active = None,
           win' = Flagged(w, exit, pulling),
           asked' = asked, UNCHANGED <<page, mark, spent>>
    PROVE  Inv'
  <1>1. PICK x : x = win'
    OBVIOUS
  <1>2. Good(disk', store', x, asked, Deleted) /\ x.pending = w.pending /\ x.active = w.active
    BY <1>1, FlagsOK
  <1>3. Deleted' = Deleted
    BY DEF Deleted
  <1>4. Good(disk', store', win', asked', Deleted') /\ Waits(win')
    BY <1>1, <1>2, <1>3 DEF Waits
  <1> QED
    BY <1>4, InvNext DEF Inv, StateOK

\* A pull of the public library starts, saving first when it is automatic.
LEMMA StartPullKeeps ==
    ASSUME Inv, NEW first \in BOOLEAN, StartPull(first)
    PROVE  Inv'
  <1>1. /\ win \in Windows /\ Good(disk, store, win, asked, Deleted) /\ Waits(win)
        /\ win.roster \in Sets /\ win.view \in Sets /\ asked \in Sets /\ win.excluded \in Sets
    BY Before
  <1>2. win.exit \in {"no", "pending", "done"}
    BY <1>1 DEF Windows
  <1>3. win.ready /\ ~InFlight /\ disk' = disk /\ asked' = asked /\ UNCHANGED <<page, mark, spent>>
    BY DEF StartPull, Busy
  <1>4. win.view = disk.db /\ asked = {} /\ Apart(Deleted, disk.db)
        /\ Deleted \cap (win.roster \ win.excluded) = {} /\ win.pending = <<>> /\ win.active = None
    BY <1>3, Idle
  <1>5. PICK s, v : s = Saving(win.view, win.roster, TRUE) /\ v = win.view \cup (win.roster \ win.excluded)
    OBVIOUS
  <1>6. CASE first
    <2>1. PICK w, p : w = Edited(win, win.roster, s.view) /\ p = (s.store = store)
      OBVIOUS
    <2>2. Saved(s, win.view, v) /\ v \in Sets
      BY <1>1, <1>5, SavingIs DEF Sets
    <2>3. Fits(Deleted, asked, v, win.roster)
      BY <1>3, <1>4, <1>5 DEF Fits, Apart
    <2>4. Wrote(disk, win.roster) /\ Deleted \in Sets
      BY DEF Wrote, Deleted, Sets
    <2>5. Good(disk, s.store, w, asked, Deleted) /\ w.pending = win.pending /\ w.active = win.active
      BY <1>1, <2>1, <2>2, <2>3, <2>4, SaveOK
    <2>6. w \in Windows /\ Waits(w) /\ w.exit = win.exit
      BY <1>1, <2>1, <2>5 DEF Good, Typed, Waits, Edited, Windows
    <2>7. store' = s.store /\ win' = [win EXCEPT !.view = s.view, !.pulling = p]
      BY <1>5, <1>6, <2>1 DEF StartPull
    <2>8. win' = Flagged(w, win.exit, p)
      <3>1. s.view \in Sets
        BY <2>1, <2>5, <1>1 DEF Good, Typed, Windows, Edited
      <3> QED
        BY <1>1, <2>1, <2>7, <3>1 DEF Edited, Windows, Flagged
    <2>9. p \in BOOLEAN
      BY <2>1
    <2> QED
      BY <1>2, <1>3, <1>4, <2>5, <2>6, <2>7, <2>8, <2>9, FlagsKeep
  <1>7. CASE ~first
    <2>1. PICK p : p = TRUE
      OBVIOUS
    <2>2. store' = store /\ win' = Flagged(win, win.exit, p)
      BY <1>1, <1>7, <2>1 DEF StartPull, Windows, Flagged
    <2>3. p \in BOOLEAN
      BY <2>1
    <2> QED
      BY <1>1, <1>2, <1>3, <1>4, <2>2, <2>3, FlagsKeep
  <1> QED
    BY <1>6, <1>7

\* A pull fails or brings nothing.
LEMMA PullFailsKeeps == ASSUME Inv, PullFails PROVE Inv'
  <1>1. win \in Windows /\ Good(disk, store, win, asked, Deleted) /\ Waits(win)
    BY Before
  <1>2. win.exit \in {"no", "pending", "done"}
    BY <1>1 DEF Windows
  <1>3. win.exit = "done" /\ win.ready => win.pending = <<>> /\ win.active = None
    BY <1>1 DEF Good, FlushedOK
  <1>4. PICK p : p = FALSE
    OBVIOUS
  <1>5. /\ disk' = disk /\ store' = store /\ asked' = asked /\ UNCHANGED <<page, mark, spent>>
        /\ win' = Flagged(win, win.exit, p) /\ p \in BOOLEAN
    BY <1>1, <1>4 DEF PullFails, Windows, Flagged
  <1> QED
    BY <1>1, <1>2, <1>3, <1>5, FlagsKeep

\* The user ends the program, which may have to finish first.
LEMMA ExitKeeps == ASSUME Inv, Exit PROVE Inv'
  <1>1. win \in Windows /\ Good(disk, store, win, asked, Deleted) /\ Waits(win)
    BY Before
  <1>2. PICK e, p : e = (IF MustFinish THEN "pending" ELSE "done") /\ p = win.pulling
    OBVIOUS
  <1>3. e \in {"no", "pending", "done"} /\ p \in BOOLEAN
    BY <1>1, <1>2 DEF Windows
  <1>4. e = "done" /\ win.ready => win.pending = <<>> /\ win.active = None
    BY <1>2, Idle DEF MustFinish
  <1>5. /\ disk' = disk /\ store' = store /\ asked' = asked /\ UNCHANGED <<page, mark, spent>>
        /\ win' = Flagged(win, e, p)
    BY <1>1, <1>2 DEF Exit, Windows, Flagged
  <1> QED
    BY <1>1, <1>3, <1>4, <1>5, FlagsKeep

\* The page hears the state of the window.
LEMMA HearKeeps == ASSUME Inv, Hear PROVE Inv'
  <1>1. /\ disk' = disk /\ store' = store /\ win' = win /\ asked' = asked /\ mark' = mark
        /\ spent' = spent /\ Deleted' = Deleted /\ page' = [rev |-> win.rev, roster |-> win.roster]
    BY DEF Hear, Deleted
  <1>2. page' \in [rev : Nat, roster : Sets]
    BY <1>1, Before
  <1> QED
    BY <1>1, <1>2, InvNext DEF Inv, StateOK

\* The program starts again on the disk it finds.
LEMMA StartKeeps == ASSUME Inv, Start PROVE Inv'
  <1>1. /\ store' = StartedStore /\ win' = Started(disk.config) /\ disk' = disk /\ asked' = {}
        /\ page' = [rev |-> 0, roster |-> {}]
        /\ mark' = [e \in Entries |->
                      IF win.unwritten /\ e \in disk.config /\ mark[e] = "deleted" THEN "shown" ELSE mark[e]]
    BY DEF Start
  <1>2. /\ Good(disk, store, win, asked, Deleted) /\ disk \in Disks /\ disk.config \in Sets
        /\ mark \in [Entries -> {"no", "deleted", "shown"}]
    BY Before DEF Disks
  <1>3. /\ mark' \in [Entries -> {"no", "deleted", "shown"}]
        /\ Deleted' \subseteq Deleted /\ (win.unwritten => Deleted' \cap disk.config = {})
    BY <1>1, <1>2 DEF Deleted
  <1>4. PICK D : D = Deleted'
    OBVIOUS
  <1>5. D \in Sets /\ Apart(D, LibraryOf(disk)) /\ \A e \in D : e \in disk.config => disk.cleared
    BY <1>2, <1>3, <1>4 DEF Good, DeletedOK, Apart, Deleted, Sets
  <1>6. Good(disk, StartedStore, Started(disk.config), {}, D)
    BY <1>2, <1>5, StartOK
  <1>7. Good(disk', store', win', asked', Deleted')
    BY <1>1, <1>4, <1>6
  <1>8. Waits(win')
    BY <1>1, <1>2, StartedIs DEF Waits
  <1>9. page' \in [rev : Nat, roster : Sets]
    BY <1>1 DEF Sets
  <1>10. spent' \in [{"edits", "arrivals", "faults", "starts"} -> Nat]
    BY UsesOK DEF Start, Inv, StateOK
  <1> QED
    BY <1>3, <1>7, <1>8, <1>9, <1>10, InvNext

\* A result is taken from the worker and completes what waits for it.
LEMMA PolledIs ==
    ASSUME win \in Windows, disk \in Disks, NEW r \in Results, NEW roster \in Sets,
           NEW x, x = Completed(Published([Invalidated(win, r) EXCEPT !.roster = roster], r), r)
    PROVE  x \in Windows /\ Polled(disk, win, r, roster, x)
  <1>1. PICK i : i = [Invalidated(win, r) EXCEPT !.roster = roster]
    OBVIOUS
  <1>2. /\ i \in Windows /\ i.roster = roster /\ i.excluded = win.excluded /\ i.exit = win.exit
        /\ i.pending = win.pending /\ i.active = win.active /\ i.unwritten = win.unwritten
        /\ i.done = IF r.ok /\ r.kind # "match" THEN None ELSE win.done
    BY <1>1 DEF Invalidated, Windows, Maybe
  <1>3. PICK p : p = Published(i, r)
    OBVIOUS
  <1>4. r.lib \in Sets /\ r.rev \in Nat /\ r.persisted \in BOOLEAN /\ r.ok \in BOOLEAN /\ r.kind \in Kinds
    BY DEF Results
  <1>5. /\ p \in Windows /\ p.roster = roster /\ p.excluded = win.excluded /\ p.exit = win.exit
        /\ p.pending = win.pending /\ p.active = win.active /\ p.unwritten = win.unwritten
        /\ p.done = IF r.ok /\ r.kind # "match" THEN None ELSE win.done
        /\ p.view = r.lib /\ p.committed = r.lib /\ p.rev = r.rev /\ p.ready = r.persisted
    BY <1>2, <1>3, <1>4 DEF Published, Windows
  <1>6. x = Completed(p, r)
    BY <1>1, <1>3
  <1>7. CASE r.kind = "match"
    <2>1. x = [p EXCEPT !.active = None, !.done = IF r.ok THEN p.active ELSE @]
      BY <1>6, <1>7 DEF Completed
    <2>2. /\ x \in Windows /\ x.active = None /\ x.done = IF r.ok THEN win.active ELSE win.done
          /\ x.roster = p.roster /\ x.excluded = p.excluded /\ x.exit = p.exit /\ x.pending = p.pending
          /\ x.unwritten = p.unwritten /\ x.view = p.view /\ x.committed = p.committed
          /\ x.rev = p.rev /\ x.ready = p.ready
      BY <1>5, <1>7, <2>1 DEF Windows, Maybe
    <2> QED
      BY <1>5, <1>7, <2>2 DEF Polled
  <1>8. CASE r.kind = "pull"
    <2>1. x = [p EXCEPT !.pulling = FALSE]
      BY <1>6, <1>8 DEF Completed
    <2>2. /\ x \in Windows /\ x.active = p.active /\ x.done = p.done
          /\ x.roster = p.roster /\ x.excluded = p.excluded /\ x.exit = p.exit /\ x.pending = p.pending
          /\ x.unwritten = p.unwritten /\ x.view = p.view /\ x.committed = p.committed
          /\ x.rev = p.rev /\ x.ready = p.ready
      BY <1>5, <2>1 DEF Windows
    <2> QED
      BY <1>5, <1>8, <2>2 DEF Polled
  <1>9. CASE r.kind = "reset" /\ r.ok
    <2>1. x = [p EXCEPT !.roster = {}, !.excluded = {}]
      BY <1>6, <1>9 DEF Completed
    <2>2. /\ x \in Windows /\ x.active = p.active /\ x.done = p.done
          /\ x.roster = {} /\ x.excluded = {} /\ x.exit = p.exit /\ x.pending = p.pending
          /\ x.unwritten = p.unwritten /\ x.view = p.view /\ x.committed = p.committed
          /\ x.rev = p.rev /\ x.ready = p.ready
      BY <1>5, <2>1 DEF Windows, Sets
    <2> QED
      BY <1>5, <1>9, <2>2 DEF Polled
  <1>10. CASE r.kind = "reset" /\ ~r.ok
    <2>1. PICK u : u = (win.unwritten \/ roster # disk.config)
      OBVIOUS
    <2>2. x = [p EXCEPT !.unwritten = u]
      BY <1>5, <1>6, <1>10, <2>1 DEF Completed
    <2>3. /\ x \in Windows /\ x.active = p.active /\ x.done = p.done
          /\ x.roster = p.roster /\ x.excluded = p.excluded /\ x.exit = p.exit /\ x.pending = p.pending
          /\ x.unwritten = u /\ x.view = p.view /\ x.committed = p.committed
          /\ x.rev = p.rev /\ x.ready = p.ready
      <3>1. u \in BOOLEAN
        BY <2>1
      <3> QED
        BY <1>5, <2>2, <3>1 DEF Windows
    <2> QED
      BY <1>5, <1>10, <2>1, <2>3 DEF Polled
  <1>11. CASE r.kind = "init" /\ r.ok /\ disk.cleared
    <2>1. x = [p EXCEPT !.excluded = roster]
      BY <1>5, <1>6, <1>11 DEF Completed
    <2>2. /\ x \in Windows /\ x.active = p.active /\ x.done = p.done
          /\ x.roster = p.roster /\ x.excluded = roster /\ x.exit = p.exit /\ x.pending = p.pending
          /\ x.unwritten = p.unwritten /\ x.view = p.view /\ x.committed = p.committed
          /\ x.rev = p.rev /\ x.ready = p.ready
      BY <1>5, <2>1 DEF Windows
    <2> QED
      BY <1>5, <1>11, <2>2 DEF Polled
  <1>12. CASE /\ r.kind \notin {"match", "pull", "reset"}
              /\ ~(r.kind = "init" /\ r.ok /\ disk.cleared)
    <2>1. x = p
      BY <1>6, <1>12 DEF Completed
    <2> QED
      BY <1>5, <1>12, <2>1 DEF Polled
  <1> QED
    BY <1>7, <1>8, <1>9, <1>10, <1>11, <1>12

\* What ApplyPlayerLibraryDelta leaves of the roster.
LEMMA DeltaIs ==
    ASSUME win \in Windows, NEW r \in Results, NEW roster \in Delta(r)
    PROVE  roster \in Sets /\ Left(win, r, roster)
  <1>1. win.roster \in Sets /\ win.committed \in Sets /\ r.lib \in Sets
    BY DEF Windows, Results
  <1>2. CASE ~r.ok \/ r.kind \in {"match", "init"} \/ r.rev = win.rev
    BY <1>1, <1>2 DEF Delta, Left
  <1>3. CASE ~(~r.ok \/ r.kind \in {"match", "init"} \/ r.rev = win.rev)
    <2>1. PICK s \in SUBSET (r.lib \ win.committed) : roster = (win.roster \ (win.committed \ r.lib)) \cup s
      BY <1>3 DEF Delta, Leaving
    <2>2. \A e \in roster : e \in r.lib \/ (e \in win.roster /\ e \notin win.committed)
      BY <2>1
    <2>3. roster \in Sets
      BY <1>1, <2>1 DEF Sets
    <2> QED
      BY <1>3, <2>2, <2>3 DEF Left
  <1> QED
    BY <1>2, <1>3

\* The window takes a result.
LEMMA PollKeeps == ASSUME Inv, Poll PROVE Inv'
  <1>1. /\ Good(disk, store, win, asked, Deleted) /\ win \in Windows /\ disk \in Disks
        /\ store \in Stores /\ win.rev \in Nat /\ asked \in Sets
        /\ mark \in [Entries -> {"no", "deleted", "shown"}]
    BY Before
  <1>2. win.exit # "done" /\ store.results # <<>> /\ page' = page /\ spent' = spent
    BY DEF Poll, Up
  <1>3. PICK r, st : r = store.results[1] /\ st = [store EXCEPT !.results = Tail(@)]
    OBVIOUS
  <1>4. r = Head(store.results) /\ r \in Results /\ store.results \in Seq(Results)
    BY <1>1, <1>2, <1>3, SeqIs DEF Stores
  <1>5. PICK roster, x :
          /\ roster \in Delta(r)
          /\ x = Completed(Published([Invalidated(win, r) EXCEPT !.roster = roster], r), r)
          /\ Pumps(IF Leaves(x) THEN [x EXCEPT !.exit = "done"] ELSE x, st)
          /\ disk' = IF roster # win.roster THEN [disk EXCEPT !.config = x.roster] ELSE disk
          /\ IF r.kind \in {"save", "delete", "reset"}
             THEN /\ asked' = {}
                  /\ mark' = [e \in Entries |-> IF r.ok /\ e \in asked THEN "deleted" ELSE mark[e]]
             ELSE UNCHANGED <<asked, mark>>
    BY <1>3, <1>4 DEF Poll
  <1>6. roster \in Sets /\ Left(win, r, roster)
    BY <1>1, <1>4, <1>5, DeltaIs
  <1>7. x \in Windows /\ Polled(disk, win, r, roster, x)
    BY <1>1, <1>4, <1>5, <1>6, PolledIs
  <1>8. PICK E, b, e : E = Deleted' /\ b = asked' /\ e = disk'
    OBVIOUS
  <1>9. /\ mark' \in [Entries -> {"no", "deleted", "shown"}] /\ E \in Sets
        /\ \A z \in E : z \in Deleted \/ (z \in asked /\ r.ok /\ r.kind \in Removals)
    BY <1>1, <1>5, <1>8 DEF Deleted, Removals, Sets
  <1>10. b = IF r.kind \in Removals THEN {} ELSE asked
    BY <1>5, <1>8 DEF Removals
  <1>11. e = IF roster # win.roster THEN [disk EXCEPT !.config = x.roster] ELSE disk
    BY <1>5, <1>8
  <1>12. Good(e, st, x, b, E)
    <2>1. Taken(store, st) /\ Rewritten(disk, win, roster, x, e) /\ Told(Deleted, asked, r, E)
      BY <1>3, <1>9, <1>11 DEF Taken, Rewritten, Told
    <2>2. r = store.results[1] /\ store.results # <<>> /\ win.exit # "done" /\ E \in Sets
      BY <1>2, <1>3, <1>9
    <2> QED
      BY <1>1, <1>6, <1>7, <1>10, <2>1, <2>2, PollOK
  <1>13. PICK y : y = IF Leaves(x) THEN [x EXCEPT !.exit = "done"] ELSE x
    OBVIOUS
  <1>14. Good(e, st, y, b, E)
    <2>1. CASE Leaves(x)
      <3>1. /\ x.exit = "pending" /\ st.queue = <<>> /\ st.results = <<>> /\ x.pending = <<>>
        BY <1>1, <1>3, <2>1 DEF Leaves, Rest, Stores
      <3>2. x.active = None
        BY <1>12, <3>1 DEF Good, MatchesOK, HasMatch
      <3>3. PICK f, p : f = "done" /\ p = x.pulling
        OBVIOUS
      <3>4. y = Flagged(x, f, p)
        BY <1>7, <1>13, <2>1, <3>3 DEF Flagged, Windows
      <3>5. f \in {"no", "pending", "done"} /\ p \in BOOLEAN
        BY <1>7, <3>3 DEF Windows
      <3> QED
        BY <1>12, <3>1, <3>2, <3>4, <3>5, FlagsOK
    <2>2. CASE ~Leaves(x)
      BY <1>12, <1>13, <2>2
    <2> QED
      BY <2>1, <2>2
  <1>15. Good(e, store', win', b, E) /\ Waits(win')
    <2>1. Pumps(y, st)
      BY <1>5, <1>13
    <2> QED
      BY <1>1, <1>14, <2>1, PumpsOK
  <1>16. Good(disk', store', win', asked', Deleted')
    BY <1>8, <1>15
  <1> QED
    BY <1>2, <1>9, <1>15, <1>16, InvNext DEF Inv, StateOK

-----------------------------------------------------------------------------
(* The theorems                                                            *)

\* The first start is good.
LEMMA InvInit == Init => Inv /\ Older
  <1> SUFFICES ASSUME Init PROVE Inv /\ Older
    OBVIOUS
  <1>1. disk \in Disks
    <2>1. PICK x \in Entries, y \in Entries :
            \E d \in {[db |-> {x}, prior |-> None, ini |-> {x}],
                      [db |-> None, prior |-> {x}, ini |-> {y}],
                      [db |-> None, prior |-> None, ini |-> {x}]} : \E roster \in {{}, {x}} :
               /\ disk = [db |-> d.db, prior |-> d.prior, ini |-> d.ini, rev |-> 1,
                          config |-> roster, cleared |-> FALSE]
               /\ win = Started(roster)
               /\ page = [rev |-> 0, roster |-> {}]
      BY Zenon DEF Init
    <2>2. PICK db \in Maybe, prior \in Maybe, ini \in Sets, roster \in Sets :
            disk = [db |-> db, prior |-> prior, ini |-> ini, rev |-> 1,
                    config |-> roster, cleared |-> FALSE]
      <3>1. PICK d \in {[db |-> {x}, prior |-> None, ini |-> {x}],
                        [db |-> None, prior |-> {x}, ini |-> {y}],
                        [db |-> None, prior |-> None, ini |-> {x}]} :
              \E roster \in {{}, {x}} :
                 disk = [db |-> d.db, prior |-> d.prior, ini |-> d.ini, rev |-> 1,
                         config |-> roster, cleared |-> FALSE]
        BY <2>1, Zenon
      <3>2. {x} \in Sets /\ {y} \in Sets /\ {} \in Sets
        BY DEF Sets
      <3>3. d.db \in Maybe /\ d.prior \in Maybe /\ d.ini \in Sets
        BY <3>1, <3>2 DEF Maybe
      <3>4. PICK roster \in {{}, {x}} :
              disk = [db |-> d.db, prior |-> d.prior, ini |-> d.ini, rev |-> 1,
                      config |-> roster, cleared |-> FALSE]
        BY <3>1
      <3>5. roster \in Sets
        BY <3>2, <3>4
      <3> QED
        BY <3>3, <3>4, <3>5
    <2> QED
      BY <2>2 DEF Disks
  <1>2. /\ win = Started(disk.config) /\ page = [rev |-> 0, roster |-> {}]
        /\ store = StartedStore /\ asked = {} /\ mark = [e \in Entries |-> "no"]
        /\ spent = [edits |-> 0, arrivals |-> 0, faults |-> 0, starts |-> 0]
    BY DEF Init
  <1>3. Deleted = {} /\ mark \in [Entries -> {"no", "deleted", "shown"}]
    BY <1>2 DEF Deleted
  <1>4. Good(disk, store, win, asked, Deleted)
    <2>1. {} \in Sets /\ Apart({}, LibraryOf(disk))
      BY DEF Sets, Apart
    <2>2. PICK D : D = {}
      OBVIOUS
    <2>3. D \in Sets /\ Apart(D, LibraryOf(disk)) /\ \A e \in D : e \in disk.config => disk.cleared
      BY <2>1, <2>2
    <2>4. Good(disk, StartedStore, Started(disk.config), {}, D)
      BY <1>1, <2>3, StartOK
    <2> QED
      BY <1>2, <1>3, <2>2, <2>4
  <1>5. Waits(win)
    BY <1>1, <1>2, StartedIs DEF Waits, Disks
  <1>6. page \in [rev : Nat, roster : Sets]
    BY <1>2 DEF Sets
  <1>7. spent \in [{"edits", "arrivals", "faults", "starts"} -> Nat]
    BY <1>2
  <1>8. Older
    BY DEF Init, Older, Sets
  <1> QED
    BY <1>3, <1>4, <1>5, <1>6, <1>7, <1>8 DEF Inv, StateOK, Good, Typed

\* Every step keeps the invariant.
LEMMA InvStep == Inv /\ Older /\ [Next]_vars => Inv'
  <1> SUFFICES ASSUME Inv, Older, [Next]_vars PROVE Inv'
    OBVIOUS
  <1>1. CASE Work
    BY <1>1, InstallKeeps, OpenKeeps, ExecuteKeeps, RefusedKeeps, ResetFilesKeeps, ResetCommitKeeps,
       FaultKeeps DEF Work
  <1>2. win.committed \in Sets /\ win.roster \in Sets /\ page.roster \in Sets
    BY Before
  <1>3. \A e \in Entries : /\ win.roster \ {e} \in Sets
                           /\ page.roster \cup {e} \in Sets /\ page.roster \ {e} \in Sets
                           /\ win.committed \cup {e} \in Sets /\ win.committed \ {e} \in Sets
    BY <1>2 DEF Sets
  <1>4. CASE Uses("edits") /\ User
    <2>1. spent' \in [{"edits", "arrivals", "faults", "starts"} -> Nat]
      BY <1>4, UsesOK DEF Inv, StateOK
    <2>2. ASSUME NEW e \in Entries, QuickAdd(e) \/ DeleteBoth(e) \/ Delete(e) \/ OpenPanel(e)
          PROVE  Inv'
      BY <2>1, <2>2, QuickAddKeeps, DeleteBothKeeps, DeleteKeeps, OpenPanelKeeps
    <2>3. ASSUME NEW e \in Entries, Apply(win.roster \ {e}) PROVE Inv'
      BY <1>3, <2>1, <2>3, ApplyKeeps
    <2>4. ASSUME NEW e \in Entries,
                 WebRoster(page.roster \cup {e}) \/ WebRoster(page.roster \ {e})
          PROVE  Inv'
      BY <1>3, <2>1, <2>4, WebRosterKeeps
    <2>5. ASSUME NEW e \in Entries,
                 WebLibrary(win.committed \cup {e}) \/ WebLibrary(win.committed \ {e})
          PROVE  Inv'
      BY <1>3, <2>1, <2>5, WebLibraryKeeps
    <2>6. CASE Reset
      BY <2>1, <2>6, ResetKeeps
    <2>7. CASE UndoSync
      BY <2>1, <2>7, UndoSyncKeeps
    <2>8. ASSUME NEW s \in SUBSET past, RestoreHistory(s) PROVE Inv'
      <3>1. s \in Sets
        BY DEF Older, Sets
      <3> QED
        BY <2>1, <2>8, <3>1, RestoreHistoryKeeps
    <2> QED
      BY <1>4, <2>2, <2>3, <2>4, <2>5, <2>6, <2>7, <2>8 DEF User
  <1>5. CASE Uses("arrivals") /\ Arrival
    <2>1. spent' \in [{"edits", "arrivals", "faults", "starts"} -> Nat]
      BY <1>5, UsesOK DEF Inv, StateOK
    <2>2. PICK s \in Sets :
            \/ TakePublic(s)
            \/ \E kept \in SUBSET win.roster, byHand, evidence \in BOOLEAN :
                  TakeMatch(s, kept, byHand, evidence)
      BY <1>5 DEF Arrival, Sets
    <2>3. ASSUME NEW kept \in SUBSET win.roster, NEW byHand \in BOOLEAN,
                 NEW evidence \in BOOLEAN, TakeMatch(s, kept, byHand, evidence)
          PROVE  Inv'
      BY <2>1, <2>3, TakeMatchKeeps
    <2>4. TakePublic(s) => Inv'
      BY <2>1, TakePublicKeeps
    <2> QED
      BY <2>2, <2>3, <2>4
  <1>6. CASE Hear \/ PullFails \/ Exit \/ \E first \in BOOLEAN : StartPull(first)
    BY <1>6, HearKeeps, PullFailsKeeps, ExitKeeps, StartPullKeeps
  <1>7. CASE Poll
    BY <1>7, PollKeeps
  <1>8. CASE Start
    BY <1>8, StartKeeps
  <1>9. CASE UNCHANGED vars
    <2>1. UNCHANGED <<disk, store, win, page, asked, mark, spent>>
      BY <1>9 DEF vars
    <2>2. Deleted' = Deleted
      BY <2>1 DEF Deleted
    <2> QED
      BY <2>1, <2>2 DEF Inv, StateOK
  <1> QED
    BY <1>1, <1>4, <1>5, <1>6, <1>7, <1>8, <1>9 DEF Next, Running

\* What the history has, and what a synchronisation replaced, are players.
LEMMA OlderStep == Inv /\ Older /\ Inv' /\ [Next]_vars => Older'
  <1> SUFFICES ASSUME Inv, Older, Inv', [Next]_vars PROVE Older'
    OBVIOUS
  <1>1. win.roster \in Sets
    BY Before
  <1>2. win'.roster \in Sets
    BY DEF Inv, StateOK, Windows
  <1>3. past' \in Sets
    BY <1>2 DEF Next, Older, Sets, vars
  <1>4. synced' \in [before : Sets, after : Sets] \cup {None}
    <2>1. CASE Uses("arrivals") /\ Arrival
      <3>1. PICK s \in Sets :
              \/ TakePublic(s)
              \/ \E kept \in SUBSET win.roster, byHand, evidence \in BOOLEAN :
                    TakeMatch(s, kept, byHand, evidence)
        BY <2>1 DEF Arrival, Sets
      <3>2. CASE TakePublic(s)
        BY <3>2 DEF TakePublic, Older
      <3>3. CASE \E kept \in SUBSET win.roster, byHand, evidence \in BOOLEAN :
                   TakeMatch(s, kept, byHand, evidence)
        <4>1. PICK roster \in Sets :
                synced' = [before |-> win.roster, after |-> roster] \/ synced' = None
          BY <1>1, <3>3 DEF TakeMatch, Sets
        <4> QED
          BY <1>1, <4>1
      <3> QED
        BY <3>1, <3>2, <3>3
    <2>2. CASE UndoSync
      BY <2>2 DEF UndoSync, Older
    <2>3. CASE Start
      BY <2>3 DEF Start
    <2>4. CASE Work
      BY <2>4 DEF Work, Untouched, Install, Open, Execute, Refused, ResetFiles, ResetCommit, Fault,
                  Older
    <2>5. CASE User /\ ~UndoSync
      <3>1. synced' = synced
        BY <2>5 DEF User, QuickAdd, DeleteBoth, Delete, OpenPanel, Apply, WebRoster, WebLibrary,
                    Reset, Identity, RestoreHistory
      <3> QED
        BY <3>1 DEF Older
    <2>6. CASE Hear \/ PullFails \/ Exit \/ (\E first \in BOOLEAN : StartPull(first)) \/ Poll
      BY <2>6 DEF Hear, PullFails, Exit, StartPull, Poll, Older
    <2>7. CASE UNCHANGED vars
      BY <2>7 DEF vars, Older
    <2> QED
      BY <2>1, <2>2, <2>3, <2>4, <2>5, <2>6, <2>7 DEF Next, Running
  <1> QED
    BY <1>3, <1>4 DEF Older

\* What removes something waits for an empty pipeline, the evidence that was sent is in it
\* once, and what is deleted is nowhere in it, in every state.
THEOREM InvHolds == Spec => [](Inv /\ Older)
  BY InvInit, InvStep, OlderStep, PTL DEF Spec

\* The variables hold what State, the window and the page declare.
THEOREM TypeCorrect == Spec => []TypeOK
  <1>1. Inv /\ Older => TypeOK
    BY DEF Inv, StateOK, Older, TypeOK
  <1> QED
    BY <1>1, InvHolds, PTL

\* The library is what the disk holds of it.
LEMMA LibraryIs == Library = LibraryOf(disk)
  BY DEF Library, Source, LibraryOf

\* With no command on its way the window shows what is in the database (PublishPlayerLibrary),
\* whatever failed before.
THEOREM ViewIsLibraryHolds == Spec => []ViewIsLibrary
  <1>1. Inv => ViewIsLibrary
    BY Idle, LibraryIs DEF ViewIsLibrary
  <1> QED
    BY <1>1, InvHolds, PTL

\* Evidence the queue of matches remembers as merged, which it does not send again, is in the
\* library.
THEOREM RememberedEvidenceStoredHolds == Spec => []RememberedEvidenceStored
  <1>1. Inv => RememberedEvidenceStored
    BY LibraryIs DEF Inv, Good, DoneOK, HeadOk, InFlight, RememberedEvidenceStored
  <1> QED
    BY <1>1, InvHolds, PTL

\* An identifier the user was told is deleted comes back only from somebody who names it.
THEOREM DeletedStaysDeletedHolds == Spec => []DeletedStaysDeleted
  <1>1. Inv => DeletedStaysDeleted
    BY LibraryIs DEF Inv, Good, DeletedOK, Apart, Deleted, DeletedStaysDeleted
  <1> QED
    BY <1>1, InvHolds, PTL

\* Evidence the window took is answered before the program ends (DoRealExit).
THEOREM AcceptedEvidenceFlushedHolds == Spec => []AcceptedEvidenceFlushed
  <1>1. Inv => AcceptedEvidenceFlushed
    BY DEF Inv, Good, FlushedOK, AcceptedEvidenceFlushed
  <1> QED
    BY <1>1, InvHolds, PTL

\* What does not touch the database leaves the library.
LEMMA SameLibrary ==
    ASSUME Inv, disk' = disk \/ \E c : disk' = [disk EXCEPT !.config = c]
    PROVE  Library' = Library
  <1>1. disk \in Disks
    BY DEF Inv, StateOK
  <1> QED
    BY <1>1 DEF Library, Source, Disks

\* What the first command removes, who asked for it has seen.
LEMMA RemovesSeen ==
    ASSUME Inv, NEW c, c = store.queue[1], store.queue # <<>>, c.kind \in Removals
    PROVE  /\ Seen = c.base /\ win.committed = disk.db /\ Library = disk.db
           /\ c.base = IF c.kind = "delete" THEN c.lib ELSE disk.db
  <1>1. /\ store.queue \in Seq(Commands) /\ Good(disk, store, win, asked, Deleted)
        /\ win.committed \in Sets
    BY Before DEF Stores
  <1>2. 1 \in 1..Len(store.queue) /\ Head(store.queue) = c
    BY <1>1, SeqIs
  <1>3. win.ready /\ c.base = IF c.kind = "delete" THEN c.lib ELSE win.committed
    BY <1>1, <1>2 DEF Good, RemovalsOK
  <1>4. store.results = <<>>
    BY <1>1, <1>2 DEF Good, FirstOK, Removals, Adds
  <1>5. win.committed = disk.db
    BY <1>1, <1>3, <1>4 DEF Good, StoredOK
  <1>6. Library = disk.db
    BY <1>1, <1>5, NoneAssumption DEF Library, Sets
  <1> QED
    BY <1>2, <1>3, <1>5, <1>6 DEF Seen

\* What a step takes out of the library was seen by somebody.
LEMMA RemovalStep == Inv /\ Next => Library \ Library' \subseteq Seen
  <1> SUFFICES ASSUME Inv, Next PROVE Library \ Library' \subseteq Seen
    OBVIOUS
  <1> USE DEF SavedConfig
  <1>1. CASE Install
    <2>1. disk' = [disk EXCEPT !.db = Source] /\ disk.db = None
      BY <1>1 DEF Install
    <2>2. disk \in Disks
      BY DEF Inv, StateOK
    <2>3. Library' = Library
      BY <2>1, <2>2 DEF Library, Source, Disks, Maybe, Sets
    <2> QED
      BY <2>3
  <1>2. CASE Execute
    <2>1. PICK c : c = store.queue[1]
      OBVIOUS
    <2>2. HeadIs({"save", "match", "pull", "delete"})
      BY <1>2 DEF Execute
    <2>3. /\ store.queue # <<>> /\ c = Head(store.queue) /\ c.lib \in Sets
          /\ c.kind \in {"save", "match", "pull", "delete"}
      BY <2>1, <2>2, HeadCommand
    <2>4. PICK lib : lib = CASE c.kind = "save" -> c.lib
                             [] c.kind = "delete" -> disk.db \ c.lib
                             [] OTHER -> disk.db \cup c.lib
      OBVIOUS
    <2>5. Committed(lib) /\ store.open
      BY <1>2, <2>3, <2>4 DEF Execute
    <2>6. disk \in Disks /\ disk.db \in Sets
      <3>1. disk \in Disks /\ disk.db # None
        BY <2>5 DEF Inv, StateOK, Good, StoredOK
      <3> QED
        BY <3>1 DEF Disks, Maybe
    <2>7. lib \in Sets
      BY <2>3, <2>4, <2>6 DEF Sets
    <2>8. Library' = lib /\ Library = disk.db
      BY <2>5, <2>6, <2>7, NoneAssumption DEF Library, Committed, Disks, Sets
    <2>9. CASE c.kind \in Removals
      <3>1. Seen = IF c.kind = "delete" THEN c.lib ELSE disk.db
        BY <2>1, <2>3, <2>9, RemovesSeen
      <3> QED
        BY <2>3, <2>4, <2>8, <3>1
    <2>10. CASE c.kind \notin Removals
      <3>1. lib = disk.db \cup c.lib
        BY <2>4, <2>10 DEF Removals
      <3> QED
        BY <2>8, <3>1
    <2> QED
      BY <2>9, <2>10
  <1>3. CASE ResetCommit
    <2>1. PICK c : c = store.queue[1]
      OBVIOUS
    <2>2. HeadIs({"reset"})
      BY <1>3 DEF ResetCommit
    <2>3. store.queue # <<>> /\ c.kind = "reset"
      BY <2>1, <2>2, HeadCommand
    <2>4. Seen = disk.db /\ Library = disk.db
      BY <2>1, <2>3, RemovesSeen DEF Removals
    <2> QED
      BY <2>4
  <1>4. CASE Open \/ Refused \/ ResetFiles \/ Fault
    BY <1>4, SameLibrary DEF Open, Refused, ResetFiles, Fault
  <1>5. CASE User
    <2>1. disk' = disk \/ \E c : disk' = [disk EXCEPT !.config = c]
      BY <1>5 DEF User, QuickAdd, DeleteBoth, Delete, OpenPanel, Apply, WebRoster, WebLibrary, Reset,
                  Identity, UndoSync, RestoreHistory
    <2> QED
      BY <2>1, SameLibrary
  <1>6. CASE Arrival
    <2>1. disk' = disk \/ \E c : disk' = [disk EXCEPT !.config = c]
      BY <1>6 DEF Arrival, TakeMatch, TakePublic
    <2> QED
      BY <2>1, SameLibrary
  <1>7. CASE Hear \/ PullFails \/ Exit \/ (\E first \in BOOLEAN : StartPull(first)) \/ Start
    <2>1. disk' = disk
      BY <1>7 DEF Hear, PullFails, Exit, StartPull, Start
    <2> QED
      BY <2>1, SameLibrary
  <1>8. CASE Poll
    <2>1. disk' = disk \/ \E c : disk' = [disk EXCEPT !.config = c]
      BY <1>8 DEF Poll
    <2> QED
      BY <2>1, SameLibrary
  <1> QED
    BY <1>1, <1>2, <1>3, <1>4, <1>5, <1>6, <1>7, <1>8 DEF Next, Running, Work

\* Nothing leaves the library but by a command of somebody who saw it there.
THEOREM NothingUnseenRemovedHolds == Spec => NothingUnseenRemoved
  <1>1. Inv /\ [Next]_vars => [Library \ Library' \subseteq Seen]_vars
    BY RemovalStep
  <1> QED
    BY <1>1, InvHolds, PTL DEF Spec, NothingUnseenRemoved

=============================================================================
