--------------------------- MODULE BackfillProofs ---------------------------
(***************************************************************************)
(* What a backfill selects, and that overlapping backfills leave no gap,   *)
(* for every history, window, retry limit and number of backfills.         *)
(*                                                                         *)
(* A listing is newest first, so the scan that stops at last_sha takes     *)
(* what is newer.  That no gap opens needs more than NoGapBehindLast says: *)
(* while the window covers the history a listing goes back to the first    *)
(* commit, so whoever moves last_sha has all older commits listed, and     *)
(* what it left out of its batch was behind the last_sha it found.         *)
(***************************************************************************)
EXTENDS Backfill, SequenceTheorems, TLAPS

Shas == Commits \cup {Side}

\* Newest first: no commit comes after an older one.
Descending(s) == \A i, j \in DOMAIN s : i < j => s[i] > s[j]

\* popleft takes the head off and leaves the rest.
LEMMA TailLemma ==
    ASSUME NEW S, NEW s \in Seq(S), s # <<>>
    PROVE  /\ Head(s) \in S /\ Tail(s) \in Seq(S)
           /\ Head(s) \in Range(s)
           /\ Range(s) = Range(Tail(s)) \cup {Head(s)}
<1>1. /\ Tail(s) \in Seq(S) /\ Head(s) \in S
      /\ Len(s) \in Nat /\ Len(s) > 0 /\ Len(Tail(s)) = Len(s) - 1
      /\ \A i \in 1 .. Len(Tail(s)) : Tail(s)[i] = s[i + 1]
      /\ Head(s) = s[1]
  BY HeadTailProperties, EmptySeq, LenProperties
<1>2. DOMAIN s = 1 .. Len(s) /\ DOMAIN Tail(s) = 1 .. Len(s) - 1
  BY <1>1, LenProperties
<1>3. Head(s) \in Range(s)
  BY <1>1, <1>2 DEF Range
<1>4. Range(Tail(s)) \subseteq Range(s)
  <2> SUFFICES ASSUME NEW i \in DOMAIN Tail(s)
               PROVE  Tail(s)[i] \in Range(s)
    BY DEF Range
  <2>1. i + 1 \in DOMAIN s /\ Tail(s)[i] = s[i + 1]
    BY <1>1, <1>2
  <2> QED
    BY <2>1 DEF Range
<1>5. Range(s) \subseteq Range(Tail(s)) \cup {Head(s)}
  <2> SUFFICES ASSUME NEW i \in DOMAIN s, s[i] # Head(s)
               PROVE  s[i] \in Range(Tail(s))
    BY DEF Range
  <2>1. i - 1 \in DOMAIN Tail(s) /\ Tail(s)[i - 1] = s[i]
    BY <1>1, <1>2
  <2> QED
    BY <2>1 DEF Range
<1> QED
  BY <1>1, <1>3, <1>4, <1>5

\* A listing is newest first, and complete if the window covers the history.
LEMMA ListedLemma ==
    ASSUME BackfillAssumption, NEW h \in Commits
    PROVE  /\ Listed(h) \in Seq(Commits) /\ Descending(Listed(h))
           /\ h <= MaxCommits => Range(Listed(h)) = 1 .. h
<1> DEFINE n == IF h < MaxCommits THEN h ELSE MaxCommits
<1>1. /\ h \in Nat /\ MaxHead \in Nat /\ MaxCommits \in Nat /\ n \in Nat
      /\ n <= h /\ h <= MaxHead /\ h >= 1
      /\ Listed(h) = [i \in 1 .. n |-> h + 1 - i]
  BY DEF BackfillAssumption, Commits, Listed
<1> HIDE DEF n
<1>2. \A i \in 1 .. n : h + 1 - i \in Commits
  BY <1>1 DEF Commits
<1>3. Listed(h) \in Seq(Commits)
  BY <1>1, <1>2
<1>4. Descending(Listed(h))
  BY <1>1 DEF Descending
<1>5. ASSUME h <= MaxCommits
      PROVE  Range(Listed(h)) = 1 .. h
  <2>1. n = h
    BY <1>1, <1>5 DEF n
  <2>2. \A c \in 1 .. h : h + 1 - c \in 1 .. n /\ Listed(h)[h + 1 - c] = c
    BY <1>1, <2>1
  <2>3. \A i \in 1 .. n : Listed(h)[i] \in 1 .. h
    BY <1>1, <2>1
  <2>4. DOMAIN Listed(h) = 1 .. n
    BY <1>1
  <2>5. Range(Listed(h)) \subseteq 1 .. h
    BY <2>3, <2>4 DEF Range
  <2>6. 1 .. h \subseteq Range(Listed(h))
    <3> SUFFICES ASSUME NEW c \in 1 .. h
                 PROVE  c \in Range(Listed(h))
      OBVIOUS
    <3> QED
      BY <2>2, <2>4 DEF Range
  <2> QED
    BY <2>5, <2>6
<1> QED
  BY <1>3, <1>4, <1>5

\* The scan of a listing that is newest first stops where commits are stored:
\* it takes what is newer than last_sha, or everything if it is not listed.
LEMMA NewShasLemma ==
    ASSUME BackfillAssumption, NEW s \in Seq(Commits), Descending(s), NEW sha
    PROVE  /\ NewShas(s, sha) \in Seq(Commits)
           /\ Range(NewShas(s, sha)) = IF sha \in Range(s)
                                       THEN {c \in Range(s) : c > sha}
                                       ELSE Range(s)
<1>1. CASE sha \notin Range(s)
  BY <1>1 DEF NewShas
<1>2. CASE sha \in Range(s)
  <2> DEFINE k == CHOOSE i \in DOMAIN s : s[i] = sha
             new == SubSeq(s, 1, k - 1)
  <2>1. k \in DOMAIN s /\ s[k] = sha
    BY <1>2 DEF Range
  <2>2. NewShas(s, sha) = new
    BY <1>2 DEF NewShas
  <2> HIDE DEF k
  <2>3. /\ DOMAIN s = 1 .. Len(s) /\ Len(s) \in Nat /\ k \in 1 .. Len(s)
        /\ \A i \in 1 .. Len(s) : s[i] \in Commits
    BY <2>1, LenProperties, ElementOfSeq
  <2>4. /\ new \in Seq(Commits) /\ Len(new) = k - 1
        /\ \A i \in 1 .. k - 1 : new[i] = s[i]
    <3>1. /\ 1 \in Int /\ k - 1 \in Int
          /\ \A i \in 1 .. k - 1 : s[i] \in Commits
      BY <2>3
    <3>2. /\ new \in Seq(Commits)
          /\ Len(new) = IF 1 <= k - 1 THEN k - 1 - 1 + 1 ELSE 0
          /\ \A i \in 1 .. k - 1 - 1 + 1 : new[i] = s[1 + i - 1]
      BY <3>1, SubSeqProperties
    <3>3. \A i \in 1 .. k - 1 : i \in 1 .. k - 1 - 1 + 1 /\ 1 + i - 1 = i
      BY <2>3
    <3>4. Len(new) = k - 1
      BY <2>3, <3>2
    <3>5. \A i \in 1 .. k - 1 : new[i] = s[i]
      BY <3>2, <3>3
    <3> QED
      BY <3>2, <3>4, <3>5
  <2>5. DOMAIN new = 1 .. k - 1
    BY <2>4, LenProperties
  <2> HIDE DEF new
  <2>6. \A i \in 1 .. Len(s) : i < k <=> s[i] > sha
    BY <2>1, <2>3 DEF Descending, Commits
  <2>7. Range(new) \subseteq {c \in Range(s) : c > sha}
    <3> SUFFICES ASSUME NEW i \in 1 .. k - 1
                 PROVE  new[i] \in Range(s) /\ new[i] > sha
      BY <2>5 DEF Range
    <3>1. i \in 1 .. Len(s) /\ i < k
      BY <2>3
    <3> QED
      BY <2>3, <2>4, <2>6, <3>1 DEF Range
  <2>8. {c \in Range(s) : c > sha} \subseteq Range(new)
    <3> SUFFICES ASSUME NEW i \in 1 .. Len(s), s[i] > sha
                 PROVE  s[i] \in Range(new)
      BY <2>3 DEF Range
    <3>1. i \in 1 .. k - 1
      BY <2>3, <2>6
    <3> QED
      BY <2>4, <2>5, <3>1 DEF Range
  <2> QED
    BY <1>2, <2>2, <2>4, <2>7, <2>8
<1> QED
  BY <1>1, <1>2

-----------------------------------------------------------------------------
(***************************************************************************)
(* The invariant.                                                          *)
(***************************************************************************)

\* The conditions of NoGapBehindLast.
Undisturbed == alone /\ reliable /\ head <= MaxCommits

Covered == metadata \cup Pending

\* A backfill that has its listing, whole, and what is left of it to do.
WholeListing(b) ==
    /\ \A c \in Range(listing[b]) : 1 .. c \subseteq Range(listing[b])
    /\ Range(todo[b]) \subseteq Range(listing[b])
    /\ pc[b] \in {"work", "done"} => Range(listing[b]) \subseteq Covered

NoGap ==
    /\ \A r \in Requests : todo[r] = <<>>
    /\ \A b \in Backfills : WholeListing(b)
    /\ last \in Commits \cup {None}
    /\ 1 .. last \subseteq Covered

Sorted == \A b \in Backfills : Descending(listing[b])

Idle == \A t \in Tasks : pc[t] # "work" => todo[t] = <<>>

BInv ==
    /\ TypeOK
    /\ Sorted
    /\ Idle
    /\ alone => reliable
    /\ Undisturbed => NoGap

\* The empty sequence has no elements.
LEMMA EmptyLemma == Range(<<>>) = {} /\ Descending(<<>>)
  BY DEF Range, Descending

\* Taking a commit off a queue leaves the others pending.
LEMMA PendingLemma ==
    ASSUME todo \in [Tasks -> Seq(Shas)], NEW t \in Tasks, todo[t] # <<>>,
           todo' = [todo EXCEPT ![t] = Tail(@)]
    PROVE  Pending \subseteq Pending' \cup {Head(todo[t])}
<1> SUFFICES ASSUME NEW u \in Tasks, NEW c \in Range(todo[u]), c # Head(todo[t])
             PROVE  c \in Range(todo'[u])
  BY DEF Pending
<1>1. CASE u = t
  BY <1>1, TailLemma
<1>2. CASE u # t
  BY <1>2
<1> QED
  BY <1>1, <1>2

LEMMA InitInv == Init => BInv
<1> SUFFICES ASSUME Init PROVE BInv
  OBVIOUS
<1>1. TypeOK
  BY BackfillAssumption DEF Init, TypeOK, Tasks, None
<1>2. Sorted /\ Idle /\ (alone => reliable)
  BY EmptyLemma DEF Init, Sorted, Idle, Tasks
<1>3. NoGap
  <2>1. \A b \in Backfills : WholeListing(b)
    BY EmptyLemma DEF Init, WholeListing, Tasks
  <2>2. 1 .. last = {}
    BY DEF Init, None
  <2> QED
    BY <2>1, <2>2 DEF Init, NoGap, Tasks
<1> QED
  BY <1>1, <1>2, <1>3 DEF BInv

\* Growing may end the conditions of NoGapBehindLast and changes nothing else.
LEMMA GrowInv ==
    ASSUME BInv, NEW n \in 1 .. MaxPush, Grow(n)
    PROVE  BInv'
<1> USE BackfillAssumption DEF BackfillAssumption
<1>1. TypeOK' /\ Sorted' /\ Idle' /\ (alone => reliable)'
  BY DEF BInv, TypeOK, Sorted, Idle, Grow, kind, Commits
<1>2. Undisturbed' => Undisturbed
  BY DEF BInv, TypeOK, Undisturbed, Grow, kind, Commits
<1>3. NoGap => NoGap'
  BY DEF NoGap, WholeListing, Covered, Pending, Grow
<1> QED
  BY <1>1, <1>2, <1>3 DEF BInv

\* A request leaves the conditions of NoGapBehindLast.
LEMMA ArriveInv ==
    ASSUME BInv, NEW r \in Requests, NEW shas \in Seq(Shas), Arrive(r, shas),
           head' \in Commits
    PROVE  BInv'
<1>1. TypeOK'
  BY DEF BInv, TypeOK, Arrive, kind, Tasks, Shas
<1>2. Sorted' /\ Idle' /\ (alone => reliable)' /\ ~Undisturbed'
  BY DEF BInv, TypeOK, Sorted, Idle, Undisturbed, Arrive, kind, Tasks
<1> QED
  BY <1>1, <1>2 DEF BInv

LEMMA DeliverInv ==
    ASSUME BInv, NEW r \in Requests, NEW n \in 1 .. MaxPush, Deliver(r, n)
    PROVE  BInv'
<1>1. /\ head \in Nat /\ head >= 1 /\ n \in Nat /\ n >= 1 /\ MaxHead \in Nat
      /\ head + n <= MaxHead /\ head' = head + n
  BY BackfillAssumption DEF BackfillAssumption, BInv, TypeOK, Commits, Deliver
<1>2. \A i \in 1 .. n : head + i \in Shas
  BY <1>1 DEF Shas, Commits
<1>3. [i \in 1 .. n |-> head + i] \in Seq(Shas)
  BY <1>1, <1>2
<1>4. head' \in Commits
  BY <1>1 DEF Commits
<1> QED
  BY <1>3, <1>4, ArriveInv DEF Deliver

LEMMA AskInv ==
    ASSUME BInv, NEW r \in Requests, NEW sha \in Shas, Ask(r, sha)
    PROVE  BInv'
<1>1. <<sha>> \in Seq(Shas) /\ head' \in Commits
  BY DEF BInv, TypeOK, Ask
<1> QED
  BY <1>1, ArriveInv DEF Ask

LEMMA DiscoverInv ==
    ASSUME BInv, NEW b \in Backfills, Discover(b)
    PROVE  BInv'
<1>1. /\ Listed(head) \in Seq(Commits) /\ Descending(Listed(head))
      /\ head <= MaxCommits => Range(Listed(head)) = 1 .. head
  BY BackfillAssumption, ListedLemma DEF BInv, TypeOK
<1>2. TypeOK'
  BY <1>1 DEF BInv, TypeOK, Discover, kind, Tasks
<1>3. Sorted' /\ Idle' /\ (alone => reliable)'
  BY <1>1 DEF BInv, TypeOK, Sorted, Idle, Discover, kind, Tasks
<1>4. ASSUME Undisturbed'
      PROVE  NoGap'
  <2>1. Undisturbed /\ NoGap /\ head <= MaxCommits /\ head \in Nat
    BY <1>4 DEF BInv, TypeOK, Undisturbed, Discover, kind, Commits
  <2>2. Covered' = Covered
    BY DEF Covered, Pending, Discover
  <2>3. ASSUME NEW d \in Backfills
        PROVE  WholeListing(d)'
    <3>1. CASE d = b
      <4>1. /\ listing'[b] = Listed(head) /\ pc'[b] = "listed"
            /\ todo'[b] = <<>>
        BY DEF BInv, TypeOK, Idle, Discover, Tasks
      <4>2. \A c \in 1 .. head : 1 .. c \subseteq 1 .. head
        BY <2>1
      <4> QED
        BY <1>1, <2>1, <3>1, <4>1, <4>2, EmptyLemma DEF WholeListing
    <3>2. CASE d # b
      <4>1. listing'[d] = listing[d] /\ pc'[d] = pc[d] /\ todo'[d] = todo[d]
        BY <3>2 DEF BInv, TypeOK, Discover, Tasks
      <4> QED
        BY <2>1, <2>2, <4>1 DEF NoGap, WholeListing
    <3> QED
      BY <3>1, <3>2
  <2> QED
    BY <2>1, <2>2, <2>3 DEF NoGap, Discover
<1> QED
  BY <1>2, <1>3, <1>4 DEF BInv

\* A backfill whose discovery fails has selected nothing.
LEMMA DiscoverFailsInv ==
    ASSUME BInv, NEW b \in Backfills, DiscoverFails(b)
    PROVE  BInv'
<1>1. TypeOK' /\ Sorted' /\ Idle' /\ (alone => reliable)'
  BY DEF BInv, TypeOK, Sorted, Idle, DiscoverFails, kind, Tasks
<1>2. Undisturbed' => Undisturbed /\ NoGap
  BY DEF BInv, Undisturbed, DiscoverFails, kind
<1>3. Covered' = Covered
  BY DEF Covered, Pending, DiscoverFails
<1>4. ASSUME NoGap, NEW d \in Backfills
      PROVE  WholeListing(d)'
  <2>1. /\ listing' = listing /\ todo' = todo
        /\ pc'[d] \in {"work", "done"} => pc[d] \in {"work", "done"}
    BY DEF BInv, TypeOK, DiscoverFails, Tasks
  <2> QED
    BY <1>3, <1>4, <2>1 DEF NoGap, WholeListing
<1>5. NoGap => NoGap'
  BY <1>3, <1>4 DEF NoGap, DiscoverFails
<1> QED
  BY <1>1, <1>2, <1>5 DEF BInv

\* What a backfill does not select is behind last_sha, hence covered.
LEMMA SelectInv ==
    ASSUME BInv, NEW b \in Backfills, Select(b)
    PROVE  BInv'
<1> DEFINE new == NewShas(listing[b], last)
<1>1. listing[b] \in Seq(Commits) /\ Descending(listing[b])
  BY DEF BInv, TypeOK, Sorted
<1>2. /\ new \in Seq(Commits)
      /\ Range(new) = IF last \in Range(listing[b])
                      THEN {c \in Range(listing[b]) : c > last}
                      ELSE Range(listing[b])
  BY <1>1, BackfillAssumption, NewShasLemma
<1>3. todo' = [todo EXCEPT ![b] = new] /\ b \in Tasks
  BY DEF Select, Tasks
<1> HIDE DEF new
<1>4. TypeOK'
  BY <1>2, <1>3 DEF BInv, TypeOK, Select, kind, Tasks
<1>5. Sorted' /\ Idle' /\ (alone => reliable)'
  BY <1>3 DEF BInv, TypeOK, Sorted, Idle, Select, kind
<1>6. ASSUME Undisturbed'
      PROVE  NoGap'
  <2>1. NoGap
    BY <1>6 DEF BInv, Undisturbed, Select, kind
  <2>2. Covered \subseteq Covered' /\ Range(new) \subseteq Covered'
    <3>1. metadata' = metadata
      BY DEF Select
    <3>2. todo[b] = <<>> /\ Range(todo[b]) = {}
      BY EmptyLemma DEF BInv, Idle, Select, Tasks
    <3>3. todo'[b] = new /\ \A t \in Tasks : t # b => todo'[t] = todo[t]
      BY <1>3 DEF BInv, TypeOK
    <3>4. Pending \subseteq Pending' /\ Range(new) \subseteq Pending'
      BY <1>3, <3>2, <3>3 DEF Pending
    <3> QED
      BY <3>1, <3>4 DEF Covered
  <2>3. Range(listing[b]) \subseteq Covered'
    <3> SUFFICES ASSUME NEW c \in Range(listing[b]), c \notin Range(new)
                 PROVE  c \in Covered
      BY <2>2
    <3>1. c \in Commits
      BY <1>1, RangeOfSeq DEF Range
    <3>2. last \in Range(listing[b]) /\ ~(c > last)
      BY <1>2
    <3>3. last \in Commits
      BY <1>1, <3>2, RangeOfSeq DEF Range
    <3>4. c \in 1 .. last
      BY <3>1, <3>2, <3>3 DEF Commits
    <3> QED
      BY <2>1, <3>4 DEF NoGap
  <2>4. ASSUME NEW d \in Backfills
        PROVE  WholeListing(d)'
    <3>1. CASE d = b
      <4>1. Range(new) \subseteq Range(listing[b])
        BY <1>2
      <4>2. todo'[b] = new /\ listing' = listing
        BY <1>3 DEF BInv, TypeOK, Select
      <4> QED
        BY <2>1, <2>3, <3>1, <4>1, <4>2 DEF NoGap, WholeListing
    <3>2. CASE d # b
      <4>1. listing' = listing /\ pc'[d] = pc[d] /\ todo'[d] = todo[d]
        BY <3>2 DEF BInv, TypeOK, Select, Tasks
      <4> QED
        BY <2>1, <2>2, <4>1 DEF NoGap, WholeListing
    <3> QED
      BY <3>1, <3>2
  <2>5. ASSUME NEW r \in Requests
        PROVE  todo'[r] = <<>>
    <3>1. r \in Tasks /\ r # b
      BY BackfillAssumption DEF BackfillAssumption, Tasks
    <3> QED
      BY <1>3, <2>1, <3>1 DEF NoGap, BInv, TypeOK
  <2>6. last' = last
    BY DEF Select
  <2> QED
    BY <2>1, <2>2, <2>4, <2>5, <2>6 DEF NoGap
<1> QED
  BY <1>4, <1>5, <1>6 DEF BInv

\* Whoever stores a commit has all older ones listed, and so covered.
LEMMA StoreInv ==
    ASSUME BInv, NEW t \in Tasks, Store(t)
    PROVE  BInv'
<1> DEFINE sha == Head(todo[t])
<1>1. /\ todo \in [Tasks -> Seq(Shas)] /\ todo[t] # <<>> /\ pc[t] = "work"
      /\ todo' = [todo EXCEPT ![t] = Tail(@)]
      /\ metadata' = metadata \cup {sha} /\ last' = sha
      /\ alone' = alone /\ reliable' = reliable /\ head' = head
      /\ pc' = pc /\ listing' = listing
      /\ retries' = IF t \in Backfills THEN [retries EXCEPT ![t] = 0] ELSE retries
  BY DEF BInv, TypeOK, Store, NextCommit, kind, Shas
<1>2. /\ sha \in Shas /\ Tail(todo[t]) \in Seq(Shas) /\ sha \in Range(todo[t])
      /\ Range(todo[t]) = Range(Tail(todo[t])) \cup {sha}
  BY <1>1, TailLemma
<1> HIDE DEF sha
<1>3. TypeOK'
  BY <1>1, <1>2, BackfillAssumption
  DEF BInv, TypeOK, Shas, BackfillAssumption
<1>4. Sorted' /\ Idle' /\ (alone => reliable)'
  BY <1>1 DEF BInv, Sorted, Idle
<1>5. ASSUME Undisturbed'
      PROVE  NoGap'
  <2>1. NoGap
    BY <1>1, <1>5 DEF BInv, Undisturbed
  <2>2. Covered \subseteq Covered'
    BY <1>1, PendingLemma DEF Covered, sha
  <2>3. t \in Backfills
    BY <1>1, <2>1 DEF NoGap, Tasks
  <2>4. sha \in Range(listing[t]) /\ 1 .. sha \subseteq Covered'
    BY <1>1, <1>2, <2>1, <2>2, <2>3 DEF NoGap, WholeListing
  <2>5. sha \in Commits
    BY <2>3, <2>4, RangeOfSeq DEF BInv, TypeOK, Range
  <2>6. ASSUME NEW d \in Backfills
        PROVE  WholeListing(d)'
    <3>1. Range(todo'[d]) \subseteq Range(todo[d])
      BY <1>1, <1>2 DEF Tasks
    <3> QED
      BY <1>1, <2>1, <2>2, <3>1 DEF NoGap, WholeListing
  <2>7. ASSUME NEW r \in Requests
        PROVE  todo'[r] = <<>>
    <3>1. r \in Tasks /\ r # t
      BY <2>3, BackfillAssumption DEF BackfillAssumption, Tasks
    <3> QED
      BY <1>1, <2>1, <3>1 DEF NoGap
  <2> QED
    BY <1>1, <2>4, <2>5, <2>6, <2>7 DEF NoGap
<1> QED
  BY <1>3, <1>4, <1>5 DEF BInv

\* Giving a commit up is against the conditions of NoGapBehindLast.
LEMMA GiveUpInv ==
    ASSUME BInv, NEW t \in Tasks, GiveUp(t)
    PROVE  BInv'
<1>1. /\ todo \in [Tasks -> Seq(Shas)] /\ todo[t] # <<>> /\ pc[t] = "work"
      /\ todo' = [todo EXCEPT ![t] = Tail(@)]
  BY DEF BInv, TypeOK, GiveUp, NextCommit, Shas
<1>2. Tail(todo[t]) \in Seq(Shas)
  BY <1>1, TailLemma
<1>3. TypeOK'
  BY <1>1, <1>2, BackfillAssumption
  DEF BInv, TypeOK, Shas, BackfillAssumption, GiveUp, NextCommit, kind
<1>4. Sorted' /\ Idle' /\ (alone => reliable)' /\ ~Undisturbed'
  BY <1>1 DEF BInv, Sorted, Idle, Undisturbed, GiveUp, NextCommit, kind
<1> QED
  BY <1>3, <1>4 DEF BInv

\* So is an exception nobody catches.
LEMMA CrashInv ==
    ASSUME BInv, NEW t \in Tasks, Crash(t)
    PROVE  BInv'
<1>1. TypeOK'
  BY DEF BInv, TypeOK, Crash, kind
<1>2. Sorted' /\ Idle' /\ (alone => reliable)' /\ ~Undisturbed'
  BY DEF BInv, TypeOK, Sorted, Idle, Undisturbed, Crash, kind
<1> QED
  BY <1>1, <1>2 DEF BInv

\* A retry, or the end of a task, changes nothing that is stored or pending.
LEMMA QuietInv ==
    ASSUME BInv, NEW t \in Tasks, Finish(t) \/ (t \in Backfills /\ Retry(t))
    PROVE  BInv'
<1>1. TypeOK'
  <2>1. CASE Finish(t)
    BY <2>1 DEF BInv, TypeOK, Finish, kind
  <2>2. CASE t \in Backfills /\ Retry(t)
    BY <2>2, BackfillAssumption
    DEF BInv, TypeOK, BackfillAssumption, Retry, kind
  <2> QED
    BY <2>1, <2>2
<1>2. /\ todo' = todo /\ listing' = listing /\ metadata' = metadata
      /\ last' = last /\ head' = head /\ alone' = alone /\ reliable' = reliable
  BY DEF Finish, Retry, kind
<1>3. \A d \in Tasks : /\ pc'[d] # "work" => pc[d] # "work" \/ todo[d] = <<>>
                       /\ pc'[d] \in {"work", "done"} => pc[d] \in {"work", "done"}
  BY DEF BInv, TypeOK, Finish, Retry
<1>4. Sorted' /\ Idle' /\ (alone => reliable)'
  BY <1>2, <1>3 DEF BInv, Sorted, Idle
<1>5. Covered' = Covered
  BY <1>2 DEF Covered, Pending
<1>6. ASSUME NoGap, NEW d \in Backfills
      PROVE  WholeListing(d)'
  <2>1. pc'[d] \in {"work", "done"} => pc[d] \in {"work", "done"}
    BY <1>3 DEF Tasks
  <2> QED
    BY <1>2, <1>5, <1>6, <2>1 DEF NoGap, WholeListing
<1>7. NoGap => NoGap'
  BY <1>2, <1>5, <1>6 DEF NoGap
<1>8. Undisturbed' => Undisturbed
  BY <1>2 DEF Undisturbed
<1> QED
  BY <1>1, <1>4, <1>7, <1>8 DEF BInv

LEMMA StepInv == BInv /\ [Next]_vars => BInv'
<1> SUFFICES ASSUME BInv, [Next]_vars PROVE BInv'
  OBVIOUS
<1>1. CASE UNCHANGED vars
  <2>1. Covered' = Covered
    BY <1>1 DEF vars, Covered, Pending
  <2>2. NoGap => NoGap'
    BY <1>1, <2>1 DEF vars, NoGap, WholeListing
  <2> QED
    BY <1>1, <2>2 DEF vars, kind, BInv, TypeOK, Sorted, Idle, Undisturbed
<1>2. CASE \E n \in 1 .. MaxPush : Grow(n) \/ \E r \in Requests : Deliver(r, n)
  BY <1>2, GrowInv, DeliverInv
<1>3. CASE \E r \in Requests, sha \in Commits \cup {Side} : Ask(r, sha)
  BY <1>3, AskInv DEF Shas
<1>4. CASE \E b \in Backfills :
               Discover(b) \/ DiscoverFails(b) \/ Select(b) \/ Retry(b)
  BY <1>4, DiscoverInv, DiscoverFailsInv, SelectInv, QuietInv DEF Tasks
<1>5. CASE \E t \in Tasks : Step(t)
  BY <1>5, StoreInv, GiveUpInv, CrashInv, QuietInv DEF Step
<1> QED
  BY <1>1, <1>2, <1>3, <1>4, <1>5 DEF Next

\* The invariant holds of every behavior.
THEOREM Invariance == Spec => []BInv
<1>1. Init => BInv
  BY InitInv
<1>2. BInv /\ [Next]_vars => BInv'
  BY StepInv
<1> QED
  BY <1>1, <1>2, PTL DEF Spec

-----------------------------------------------------------------------------
\* The history, what tasks have listed and have to do, and what is stored keep
\* their types, however long the history and however many tasks.
THEOREM TypeCorrect == Spec => []TypeOK
<1>1. BInv => TypeOK
  BY DEF BInv
<1> QED
  BY <1>1, Invariance, PTL

\* Commits up to last_sha, and all that a backfill has listed, are stored or
\* still to be done by somebody, however many backfills overlap, whatever max_retries is,
\* as long as the window covers the history and only backfills, which give no
\* commit up, move last_sha.
THEOREM NoGapOpens == Spec => []NoGapBehindLast
<1>1. BInv => NoGapBehindLast
  BY DEF BInv, Undisturbed, NoGap, WholeListing, Covered, HasSelected, NoGapBehindLast
<1> QED
  BY <1>1, Invariance, PTL

\* The action SelectsDownToLast permits.
DownToLast ==
    \A b \in Backfills : Selects(b) =>
        Range(todo'[b]) = IF last \in Range(listing[b])
                          THEN {c \in Range(listing[b]) : c > last}
                          ELSE Range(listing[b])

\* Only Select moves a backfill from "listed" to "work".
LEMMA SelectsLemma ==
    ASSUME BInv, [Next]_vars, NEW b \in Backfills, Selects(b)
    PROVE  Select(b)
<1>1. pc[b] = "listed" /\ pc'[b] = "work" /\ b \in Tasks /\ b \notin Requests
      /\ pc \in [Tasks -> {"new", "listed", "work", "done", "crashed"}]
  BY BackfillAssumption
  DEF Selects, Tasks, BInv, TypeOK, BackfillAssumption
<1>2. CASE UNCHANGED vars \/ \E n \in 1 .. MaxPush : Grow(n)
  BY <1>1, <1>2 DEF vars, Grow
<1>3. CASE \E r \in Requests :
               \/ \E n \in 1 .. MaxPush : Deliver(r, n)
               \/ \E sha \in Commits \cup {Side} : Ask(r, sha)
  BY <1>1, <1>3 DEF Deliver, Ask, Arrive
<1>4. CASE \E d \in Backfills :
               Discover(d) \/ DiscoverFails(d) \/ Select(d) \/ Retry(d)
  BY <1>1, <1>4 DEF Discover, DiscoverFails, Select, Retry, Tasks
<1>5. CASE \E t \in Tasks : Step(t)
  BY <1>1, <1>5 DEF Step, Store, GiveUp, NextCommit, Crash, Finish
<1> QED
  BY <1>2, <1>3, <1>4, <1>5 DEF Next

\* A backfill selects exactly what it has listed and is newer than the last_sha
\* it finds, whatever happened since the listing.
THEOREM SelectsExactly == Spec => SelectsDownToLast
<1>1. BInv /\ [Next]_vars => [DownToLast]_vars
  <2> SUFFICES ASSUME BInv, [Next]_vars, NEW b \in Backfills, Selects(b)
               PROVE  Range(todo'[b]) = IF last \in Range(listing[b])
                                        THEN {c \in Range(listing[b]) : c > last}
                                        ELSE Range(listing[b])
    BY DEF DownToLast
  <2>1. Select(b)
    BY SelectsLemma
  <2>2. todo'[b] = NewShas(listing[b], last)
    BY <2>1 DEF Select, BInv, TypeOK, Tasks
  <2>3. listing[b] \in Seq(Commits) /\ Descending(listing[b])
    BY DEF BInv, TypeOK, Sorted
  <2> QED
    BY <2>2, <2>3, BackfillAssumption, NewShasLemma
<1> QED
  BY <1>1, Invariance, PTL DEF Spec, SelectsDownToLast, DownToLast

=============================================================================
