------------------------ MODULE OwnerChatStore_proofs ------------------------
(***************************************************************************)
(* Theorems about the chat of one agent in the owner's browser, for any    *)
(* sends, runs of other pages and lengths of answers.  What mergeMessages  *)
(* does to a list is proved by induction over its loop.  The invariant     *)
(* StoreIInv joins the type to the settled bubbles, the status and the     *)
(* controller; each action is shown to be a ListStep: it puts no bubble of *)
(* a finished send in flight, and takes no shown text away.  The invariant *)
(* OwnIInv is about whose text a bubble shows: each step rewrites messages *)
(* of one run (Rewrote), and a frame finds a message of its own (Finds).   *)
(***************************************************************************)
EXTENDS OwnerChatStore, Loops, FiniteSetTheorems

USE RunsAssumption, DeltasAssumption

-----------------------------------------------------------------------------
(* What mergeMessages does to a list of any length.                        *)

\* g[k] is the list that mergeMessages has behind the k-th current message.
Merging(history, current, g) ==
    \A k \in 0..Len(current) :
        g[k] = IF k = 0 THEN history ELSE TryAdd(g[k - 1], current[k])

\* The loop of mergeMessages has a value behind every message.
LEMMA MergeLoop ==
    ASSUME NEW T, NEW history \in Seq(T), NEW current \in Seq(T)
    PROVE  \E g : /\ Merging(history, current, g)
                  /\ MergeMessages(history, current) = g[Len(current)]
<1> DEFINE L == Len(current)
           step == [x \in Seq(T) \X (1..L) |-> TryAdd(x[1], current[x[2]])]
           Defines(g) == g = [k \in 0..L |-> IF k = 0 THEN history
                                             ELSE TryAdd(g[k - 1], current[k])]
<1>1. L \in Nat /\ \A i \in 1..L : current[i] \in T
  OBVIOUS
<1>2. step \in [Seq(T) \X (1..L) -> Seq(T)]
  <2>1. \A l \in Seq(T), m \in T : TryAdd(l, m) \in Seq(T)
    BY DEF TryAdd
  <2> QED BY <1>1, <2>1
<1>3. PICK g \in [0..L -> Seq(T)] : Rounds(history, step, L, g)
  <2> HIDE DEF step
  <2> QED BY <1>1, <1>2, LoopHasValues
<1>4. \A k \in 1..L : step[<<g[k - 1], k>>] = TryAdd(g[k - 1], current[k])
  <2>1. \A k \in 1..L : k - 1 \in 0..L
    BY <1>1
  <2>2. \A k \in 1..L : g[k - 1] \in Seq(T)
    BY <2>1
  <2> QED BY <2>2
<1>5. Defines(g)
  <2> HIDE DEF step
  <2>1. \A k \in 0..L : g[k] = IF k = 0 THEN history ELSE TryAdd(g[k - 1], current[k])
    <3>1. \A k \in 0..L : k = 0 \/ k \in 1..L
      BY <1>1
    <3>2. g[0] = history
      BY <1>3 DEF Rounds
    <3>3. ASSUME NEW k \in 1..L PROVE g[k] = TryAdd(g[k - 1], current[k]) /\ k # 0
      <4>1. g[k] = step[<<g[k - 1], k>>]
        BY <1>3 DEF Rounds
      <4> QED BY <1>1, <1>4, <4>1
    <3> QED BY <3>1, <3>2, <3>3
  <2> QED BY <2>1
<1> DEFINE merged == CHOOSE f : Defines(f)
<1>6. Defines(merged)
  BY <1>5
<1>7. MergeMessages(history, current) = merged[L]
  BY DEF MergeMessages
<1> HIDE DEF merged
<1>8. \A k \in 0..L : merged[k] = IF k = 0 THEN history ELSE TryAdd(merged[k - 1], current[k])
  BY <1>6
<1>9. Merging(history, current, merged)
  BY <1>8 DEF Merging
<1> QED BY <1>7, <1>9

\* What the list l has of the history and of the first n current messages.
FromBoth(history, current, n, l) ==
    \A j \in DOMAIN l : \/ \E i \in DOMAIN history : l[j] = history[i]
                        \/ \E i \in 1..n : l[j] = current[i]

\* What the list l shows of message m: a message of its id, or of its run and text.
Shows(l, m) ==
    \E j \in DOMAIN l : \/ l[j].id = m.id
                        \/ m.text # <<>> /\ l[j].run = m.run /\ l[j].text = m.text

LEMMA TryAddShows ==
    ASSUME NEW S, NEW l \in Seq(S), NEW m \in S
    PROVE  /\ TryAdd(l, m) \in Seq(S)
           /\ Shows(TryAdd(l, m), m)
           /\ \A j \in DOMAIN TryAdd(l, m) :
                  \/ j \in DOMAIN l /\ TryAdd(l, m)[j] = l[j]
                  \/ TryAdd(l, m)[j] = m
<1>1. CASE Shows(l, m)
  <2>1. TryAdd(l, m) = l
    BY <1>1 DEF TryAdd, Shows
  <2> QED BY <1>1, <2>1
<1>2. CASE ~Shows(l, m)
  <2>1. TryAdd(l, m) = Append(l, m)
    BY <1>2 DEF TryAdd, Shows
  <2>2. /\ Append(l, m) \in Seq(S)
        /\ DOMAIN Append(l, m) = 1..(Len(l) + 1)
        /\ Append(l, m)[Len(l) + 1] = m
        /\ \A j \in 1..Len(l) : Append(l, m)[j] = l[j]
        /\ DOMAIN l = 1..Len(l)
        /\ Len(l) \in Nat
    OBVIOUS
  <2>3. Shows(Append(l, m), m)
    BY <2>2 DEF Shows
  <2> QED BY <2>1, <2>2, <2>3
<1> QED BY <1>1, <1>2

LEMMA TryAddKeeps ==
    ASSUME NEW T, NEW l \in Seq(T), NEW m \in T, NEW x, Shows(l, x)
    PROVE  Shows(TryAdd(l, m), x)
<1>1. TryAdd(l, m) \in {l, Append(l, m)}
  BY DEF TryAdd
<1>2. \A j \in DOMAIN l : j \in DOMAIN Append(l, m) /\ Append(l, m)[j] = l[j]
  OBVIOUS
<1>3. Shows(Append(l, m), x)
  BY <1>2 DEF Shows
<1> QED BY <1>1, <1>3

\* The merged list has nothing that neither the history nor the list had, and
\* it leaves no message of the list unshown, however long both are.
LEMMA MergeShowsAll ==
    ASSUME NEW T, NEW history \in Seq(T), NEW current \in Seq(T)
    PROVE  /\ MergeMessages(history, current) \in Seq(T)
           /\ FromBoth(history, current, Len(current), MergeMessages(history, current))
           /\ \A i \in DOMAIN current : Shows(MergeMessages(history, current), current[i])
<1> DEFINE L == Len(current)
<1>1. L \in Nat /\ DOMAIN current = 1..L /\ \A i \in 1..L : current[i] \in T
  OBVIOUS
<1>2. PICK g : Merging(history, current, g) /\ MergeMessages(history, current) = g[L]
  BY MergeLoop
<1>3. \A k \in 0..L : g[k] = IF k = 0 THEN history ELSE TryAdd(g[k - 1], current[k])
  BY <1>2 DEF Merging
<1> DEFINE Good(n) == /\ g[n] \in Seq(T)
                      /\ FromBoth(history, current, n, g[n])
                      /\ \A i \in 1..n : Shows(g[n], current[i])
           S == {n \in 0..L : Good(n)}
<1>4. 0 \in S
  <2>1. g[0] = history
    BY <1>1, <1>3
  <2> QED BY <1>1, <2>1 DEF FromBoth
<1>5. ASSUME NEW n \in 0..L, n \in S, n + 1 \in 0..L PROVE n + 1 \in S
  <2>1. g[n + 1] = TryAdd(g[n], current[n + 1])
    BY <1>3, <1>5
  <2>2. current[n + 1] \in T /\ g[n] \in Seq(T)
    BY <1>1, <1>5
  <2>3. g[n + 1] \in Seq(T)
    BY <2>1, <2>2, TryAddShows
  <2>4. FromBoth(history, current, n + 1, g[n + 1])
    <3>1. \A j \in DOMAIN g[n + 1] : \/ j \in DOMAIN g[n] /\ g[n + 1][j] = g[n][j]
                                     \/ g[n + 1][j] = current[n + 1]
      BY <2>1, <2>2, TryAddShows
    <3>2. FromBoth(history, current, n, g[n])
      BY <1>5
    <3>3. 1..n \subseteq 1..(n + 1) /\ n + 1 \in 1..(n + 1)
      BY <1>5
    <3> QED BY <3>1, <3>2, <3>3 DEF FromBoth
  <2>5. \A i \in 1..(n + 1) : Shows(g[n + 1], current[i])
    <3> TAKE i \in 1..(n + 1)
    <3>1. CASE i = n + 1
      BY <2>1, <2>2, <3>1, TryAddShows
    <3>2. CASE i # n + 1
      <4>1. i \in 1..n
        BY <3>2, <1>5
      <4>2. Shows(g[n], current[i])
        BY <4>1, <1>5
      <4> QED BY <2>1, <2>2, <4>2, TryAddKeeps
    <3> QED BY <3>1, <3>2
  <2> QED BY <1>5, <2>3, <2>4, <2>5
<1>6. L \in S
  <2>1. \A n \in 0..L : n \in S /\ n + 1 \in 0..L => n + 1 \in S
    BY <1>5
  <2> HIDE DEF S
  <2>2. 0..L \subseteq S
    BY <1>1, <1>4, <2>1, UpTo, Zenon
  <2> QED BY <1>1, <2>2
<1> QED BY <1>1, <1>2, <1>6


-----------------------------------------------------------------------------
(* Updates of one bubble.                                                  *)

LEMMA PrefixIsPointwise ==
    ASSUME NEW T, NEW s \in Seq(T), NEW t \in Seq(T)
    PROVE  IsPrefix(s, t) <=> Len(s) <= Len(t) /\ \A i \in 1..Len(s) : s[i] = t[i]
<1>1. SubSeq(s, 1, Len(s)) = s
  OBVIOUS
<1>2. CASE Len(s) <= Len(t)
  <2>1. /\ SubSeq(t, 1, Len(s)) \in Seq(T)
        /\ Len(SubSeq(t, 1, Len(s))) = Len(s)
        /\ \A i \in 1..Len(s) : SubSeq(t, 1, Len(s))[i] = t[i]
    BY <1>2
  <2>2. s = SubSeq(t, 1, Len(s)) <=> \A i \in 1..Len(s) : s[i] = t[i]
    BY <2>1
  <2> QED BY <1>1, <1>2, <2>2 DEF IsPrefix
<1>3. CASE ~(Len(s) <= Len(t))
  BY <1>3 DEF IsPrefix
<1> QED BY <1>2, <1>3

LEMMA PrefixFacts ==
    /\ \A s \in Texts : IsPrefix(s, s)
    /\ \A s, t \in Texts : IsPrefix(s, s \o t)
    /\ \A t \in Texts : IsPrefix(<<>>, t)
    /\ \A s, t, u \in Texts : IsPrefix(s, t) /\ IsPrefix(t, u) => IsPrefix(s, u)
<1> DEFINE P == (Runs \cup {"failed", "cancelled"}) \X Nat
<1>0. Texts = Seq(P)
  BY DEF Texts
<1> HIDE DEF P
<1>1. \A s \in Texts : IsPrefix(s, s)
  BY <1>0, PrefixIsPointwise
<1>2. ASSUME NEW s \in Texts, NEW t \in Texts PROVE IsPrefix(s, s \o t)
  <2>1. s \o t \in Seq(P) /\ Len(s) <= Len(s \o t) /\ \A i \in 1..Len(s) : s[i] = (s \o t)[i]
    BY <1>0
  <2> QED BY <1>0, <2>1, PrefixIsPointwise
<1>3. ASSUME NEW t \in Texts PROVE IsPrefix(<<>>, t)
  <2>1. t \in Seq(P) /\ Len(<<>>) = 0 /\ Len(t) \in Nat
    BY <1>0
  <2>2. SubSeq(<<>>, 1, 0) = <<>> /\ SubSeq(t, 1, 0) = <<>>
    BY <2>1
  <2> QED BY <2>1, <2>2 DEF IsPrefix
<1>4. ASSUME NEW s \in Texts, NEW t \in Texts, NEW u \in Texts, IsPrefix(s, t), IsPrefix(t, u)
      PROVE  IsPrefix(s, u)
  <2>1. Len(s) <= Len(t) /\ \A i \in 1..Len(s) : s[i] = t[i]
    BY <1>0, <1>4, PrefixIsPointwise
  <2>2. Len(t) <= Len(u) /\ \A i \in 1..Len(t) : t[i] = u[i]
    BY <1>0, <1>4, PrefixIsPointwise
  <2>3. Len(s) <= Len(u) /\ \A i \in 1..Len(s) : s[i] = u[i]
    BY <1>0, <2>1, <2>2
  <2> QED BY <1>0, <2>3, PrefixIsPointwise
<1> QED BY <1>1, <1>2, <1>3, <1>4

\* l2 is l where bubbles of c may have changed: their texts have grown, and
\* none is in flight that was not.
Rewrites(c, l, l2) ==
    /\ l2 \in Seq(Messages)
    /\ Len(l2) = Len(l)
    /\ \A i \in 1..Len(l) :
          /\ l2[i].id = l[i].id
          /\ l[i].id # Bubble(c) => l2[i] = l[i]
          /\ IsPrefix(l[i].text, l2[i].text)
          /\ InFlight(l2[i]) => InFlight(l[i])

\* No bubble of c is in flight in l.
Settles(c, l) == \A i \in DOMAIN l : l[i].id = Bubble(c) => ~InFlight(l[i])

LEMMA TextFacts ==
    /\ <<>> \in Texts
    /\ \A what \in {"failed", "cancelled"} : Notice(what) \in Texts
    /\ \A r \in Runs : Answer(r) \in Texts /\ Answer(r) # <<>> /\ Len(Answer(r)) = Deltas[r]
    /\ \A r \in Runs, n \in Nat : <<<<r, n>>>> \in Texts
    /\ \A s, t \in Texts : s \o t \in Texts
<1>1. \A r \in Runs : Answer(r) \in Texts /\ Answer(r) # <<>> /\ Len(Answer(r)) = Deltas[r]
  <2> SUFFICES ASSUME NEW r \in Runs
               PROVE  Answer(r) \in Texts /\ Answer(r) # <<>> /\ Len(Answer(r)) = Deltas[r]
    OBVIOUS
  <2>1. Deltas[r] \in Nat \ {0}
    OBVIOUS
  <2>2. Answer(r) \in Texts /\ Len(Answer(r)) = Deltas[r]
    BY <2>1 DEF Answer, Texts
  <2> QED BY <2>1, <2>2
<1>2. \A s, t \in Texts : s \o t \in Texts
  BY DEF Texts
<1>3. \A r \in Runs, n \in Nat : <<<<r, n>>>> \in Texts
  BY DEF Texts
<1>4. \A what \in {"failed", "cancelled"} : Notice(what) \in Texts
  BY DEF Texts, Notice
<1>5. <<>> \in Texts
  BY DEF Texts
<1> QED BY <1>1, <1>2, <1>3, <1>4, <1>5

LEMMA SameLength ==
    ASSUME NEW T, NEW U, NEW l \in Seq(T), NEW s \in [DOMAIN l -> U]
    PROVE  s \in Seq(U) /\ Len(s) = Len(l) /\ DOMAIN s = 1..Len(l)
<1>1. Len(l) \in Nat /\ DOMAIN l = 1..Len(l)
  OBVIOUS
<1> QED BY <1>1

\* The list l with the bubbles of c replaced by those of f.
Updated(c, l, f) == [i \in DOMAIN l |-> IF l[i].id = Bubble(c) THEN f[i] ELSE l[i]]

\* Whatever a bubble's update is, it rewrites the bubbles of c alone if it keeps
\* what a bubble shows and starts none again.
LEMMA BubbleUpdate ==
    ASSUME NEW c, NEW l \in Seq(Messages), NEW f,
           \A i \in 1..Len(l) : l[i].id = Bubble(c) =>
               /\ f[i] \in Messages
               /\ f[i].id = l[i].id
               /\ IsPrefix(l[i].text, f[i].text)
               /\ InFlight(f[i]) => InFlight(l[i])
    PROVE  /\ Rewrites(c, l, Updated(c, l, f))
           /\ DOMAIN Updated(c, l, f) = 1..Len(l)
           /\ \A i \in 1..Len(l) :
                 Updated(c, l, f)[i] = IF l[i].id = Bubble(c) THEN f[i] ELSE l[i]
<1> DEFINE s == Updated(c, l, f)
<1>0. s = [i \in DOMAIN l |-> IF l[i].id = Bubble(c) THEN f[i] ELSE l[i]]
  BY DEF Updated
<1> HIDE DEF s
<1>1. DOMAIN l = 1..Len(l) /\ \A i \in 1..Len(l) : l[i] \in Messages
  OBVIOUS
<1>2. \A i \in 1..Len(l) : s[i] = IF l[i].id = Bubble(c) THEN f[i] ELSE l[i]
  BY <1>0, <1>1
<1>7. \A i \in 1..Len(l) : l[i].text \in Texts
  BY <1>1 DEF Messages
<1>3. \A i \in 1..Len(l) : s[i] \in Messages
  BY <1>1, <1>2
<1>4. s \in [DOMAIN l -> Messages]
  BY <1>0, <1>1, <1>3
<1>5. s \in Seq(Messages) /\ Len(s) = Len(l) /\ DOMAIN s = 1..Len(l)
  BY <1>4, SameLength
<1>6. ASSUME NEW i \in 1..Len(l)
      PROVE  /\ s[i].id = l[i].id
             /\ l[i].id # Bubble(c) => s[i] = l[i]
             /\ IsPrefix(l[i].text, s[i].text)
             /\ InFlight(s[i]) => InFlight(l[i])
  <2>1. CASE l[i].id = Bubble(c)
    BY <1>2, <2>1
  <2>2. CASE l[i].id # Bubble(c)
    <3>1. s[i] = l[i]
      BY <1>2, <2>2
    <3> QED BY <1>7, <3>1, PrefixFacts
  <2> QED BY <2>1, <2>2
<1> QED BY <1>2, <1>5, <1>6 DEF Rewrites, s

LEMMA SettledRewrites ==
    ASSUME NEW c \in Sends, NEW l \in Seq(Messages)
    PROVE  Rewrites(c, l, Settled(c, l)) /\ Settles(c, Settled(c, l))
<1> DEFINE f == [i \in 1..Len(l) |->
                     IF l[i].text # <<>>
                     THEN [l[i] EXCEPT !.status = "sent", !.runStatus = "completed"]
                     ELSE [l[i] EXCEPT !.status = "failed", !.runStatus = "failed",
                                       !.text = Notice("failed")]]
<1>1. Settled(c, l) = Updated(c, l, f)
  <2> DOMAIN l = 1..Len(l)
    OBVIOUS
  <2> QED BY DEF Settled, WithId, Updated
<1>2. \A i \in 1..Len(l) : l[i] \in Messages
  OBVIOUS
<1>3. ASSUME NEW i \in 1..Len(l)
      PROVE  /\ f[i] \in Messages
             /\ f[i].id = l[i].id
             /\ IsPrefix(l[i].text, f[i].text)
             /\ ~InFlight(f[i])
  <2>1. CASE l[i].text # <<>>
    <3>1. f[i] = [l[i] EXCEPT !.status = "sent", !.runStatus = "completed"]
      BY <2>1
    <3>2. l[i].text \in Texts /\ f[i].text = l[i].text
      BY <1>2, <3>1 DEF Messages
    <3>3. f[i] \in Messages /\ f[i].id = l[i].id /\ ~InFlight(f[i])
      BY <1>2, <3>1 DEF Messages, InFlight
    <3> HIDE DEF f
    <3> QED BY <3>2, <3>3, PrefixFacts
  <2>2. CASE l[i].text = <<>>
    <3>1. f[i] = [l[i] EXCEPT !.status = "failed", !.runStatus = "failed",
                              !.text = Notice("failed")]
      BY <2>2
    <3>2. f[i] \in Messages /\ f[i].id = l[i].id /\ ~InFlight(f[i]) /\ f[i].text \in Texts
      BY <1>2, <3>1, TextFacts DEF Messages, InFlight
    <3> HIDE DEF f
    <3> QED BY <2>2, <3>2, PrefixFacts
  <2> QED BY <2>1, <2>2
<1> HIDE DEF f
<1>4. /\ Rewrites(c, l, Updated(c, l, f))
      /\ DOMAIN Updated(c, l, f) = 1..Len(l)
      /\ \A i \in 1..Len(l) : Updated(c, l, f)[i] = IF l[i].id = Bubble(c) THEN f[i] ELSE l[i]
  <2>1. \A i \in 1..Len(l) : l[i].id = Bubble(c) =>
           /\ f[i] \in Messages
           /\ f[i].id = l[i].id
           /\ IsPrefix(l[i].text, f[i].text)
           /\ InFlight(f[i]) => InFlight(l[i])
    BY <1>3
  <2> QED BY <2>1, BubbleUpdate
<1>5. /\ Rewrites(c, l, Settled(c, l))
      /\ DOMAIN Settled(c, l) = 1..Len(l)
      /\ \A i \in 1..Len(l) : Settled(c, l)[i] = IF l[i].id = Bubble(c) THEN f[i] ELSE l[i]
  BY <1>1, <1>4
<1> QED BY <1>3, <1>5 DEF Rewrites, Settles

LEMMA CaughtRewrites ==
    ASSUME NEW c \in Sends, NEW l \in Seq(Messages), NEW b \in BOOLEAN
    PROVE  Rewrites(c, l, CaughtIn(c, l, b)) /\ Settles(c, CaughtIn(c, l, b))
<1> DEFINE f == [i \in 1..Len(l) |->
                     [l[i] EXCEPT !.status = IF b THEN "sent" ELSE "failed",
                                  !.runStatus = IF b THEN "completed" ELSE "failed",
                                  !.text = IF @ # <<>> THEN @
                                           ELSE Notice(IF b THEN "cancelled" ELSE "failed")]]
<1>1. CaughtIn(c, l, b) = Updated(c, l, f)
  <2> DOMAIN l = 1..Len(l)
    OBVIOUS
  <2> QED BY DEF CaughtIn, WithId, Updated
<1>2. \A i \in 1..Len(l) : l[i] \in Messages
  OBVIOUS
<1>3. ASSUME NEW i \in 1..Len(l)
      PROVE  /\ f[i] \in Messages
             /\ f[i].id = l[i].id
             /\ IsPrefix(l[i].text, f[i].text)
             /\ ~InFlight(f[i])
  <2> DEFINE st == IF b THEN "sent" ELSE "failed"
             rs == IF b THEN "completed" ELSE "failed"
             text == IF l[i].text # <<>> THEN l[i].text
                     ELSE Notice(IF b THEN "cancelled" ELSE "failed")
  <2>1. f[i] = [l[i] EXCEPT !.status = st, !.runStatus = rs, !.text = text]
    OBVIOUS
  <2>2. st \in {"sent", "failed"} /\ rs \in {"completed", "failed"}
    OBVIOUS
  <2>3. text \in Texts /\ l[i].text \in Texts
    BY <1>2, TextFacts DEF Messages
  <2>4. IsPrefix(l[i].text, text)
    BY <2>3, PrefixFacts
  <2> HIDE DEF f, st, rs, text
  <2> QED BY <1>2, <2>1, <2>2, <2>3, <2>4 DEF Messages, InFlight
<1> HIDE DEF f
<1>4. /\ Rewrites(c, l, Updated(c, l, f))
      /\ DOMAIN Updated(c, l, f) = 1..Len(l)
      /\ \A i \in 1..Len(l) : Updated(c, l, f)[i] = IF l[i].id = Bubble(c) THEN f[i] ELSE l[i]
  <2>1. \A i \in 1..Len(l) : l[i].id = Bubble(c) =>
           /\ f[i] \in Messages
           /\ f[i].id = l[i].id
           /\ IsPrefix(l[i].text, f[i].text)
           /\ InFlight(f[i]) => InFlight(l[i])
    BY <1>3
  <2> QED BY <2>1, BubbleUpdate
<1>5. /\ Rewrites(c, l, CaughtIn(c, l, b))
      /\ DOMAIN CaughtIn(c, l, b) = 1..Len(l)
      /\ \A i \in 1..Len(l) : CaughtIn(c, l, b)[i] = IF l[i].id = Bubble(c) THEN f[i] ELSE l[i]
  BY <1>1, <1>4
<1> QED BY <1>3, <1>5 DEF Rewrites, Settles


LEMMA ChunkRewrites ==
    ASSUME NEW c \in Sends, list \in Seq(Messages), NEW text \in Texts
    PROVE  Rewrites(c, list, Chunk(c, text))
<1> DEFINE f == [i \in 1..Len(list) |-> [list[i] EXCEPT !.run = c, !.text = @ \o text]]
<1>1. Chunk(c, text) = Updated(c, list, f)
  <2> DOMAIN list = 1..Len(list)
    OBVIOUS
  <2> QED BY DEF Chunk, WithId, Updated
<1>2. \A i \in 1..Len(list) : list[i] \in Messages
  OBVIOUS
<1>3. ASSUME NEW i \in 1..Len(list)
      PROVE  /\ f[i] \in Messages
             /\ f[i].id = list[i].id
             /\ IsPrefix(list[i].text, f[i].text)
             /\ InFlight(f[i]) => InFlight(list[i])
  <2> DEFINE grown == list[i].text \o text
  <2>1. f[i] = [list[i] EXCEPT !.run = c, !.text = grown]
    OBVIOUS
  <2>2. list[i].text \in Texts
    BY <1>2 DEF Messages
  <2>3. grown \in Texts /\ IsPrefix(list[i].text, grown)
    BY <2>2, TextFacts, PrefixFacts
  <2>4. c \in RunIds
    BY DEF RunIds, Runs
  <2> HIDE DEF f, grown
  <2> QED BY <1>2, <2>1, <2>3, <2>4 DEF Messages, InFlight
<1> HIDE DEF f
<1>4. Rewrites(c, list, Updated(c, list, f))
  <2>1. \A i \in 1..Len(list) : list[i].id = Bubble(c) =>
           /\ f[i] \in Messages
           /\ f[i].id = list[i].id
           /\ IsPrefix(list[i].text, f[i].text)
           /\ InFlight(f[i]) => InFlight(list[i])
    BY <1>3
  <2> QED BY <2>1, BubbleUpdate
<1> QED BY <1>1, <1>4

\* The list with the answer behind what the bubble of c shows.
Appended(c) ==
    [i \in DOMAIN list |->
        IF list[i].id = Bubble(c) THEN [list[i] EXCEPT !.text = @ \o Answer(c)] ELSE list[i]]

LEMMA AppendedRewrites ==
    ASSUME NEW c \in Sends, list \in Seq(Messages)
    PROVE  Rewrites(c, list, Appended(c))
<1> DEFINE f == [i \in 1..Len(list) |-> [list[i] EXCEPT !.text = @ \o Answer(c)]]
<1>1. Appended(c) = Updated(c, list, f)
  <2> DOMAIN list = 1..Len(list)
    OBVIOUS
  <2> QED BY DEF Appended, Updated
<1>2. \A i \in 1..Len(list) : list[i] \in Messages
  OBVIOUS
<1>3. ASSUME NEW i \in 1..Len(list)
      PROVE  /\ f[i] \in Messages
             /\ f[i].id = list[i].id
             /\ IsPrefix(list[i].text, f[i].text)
             /\ InFlight(f[i]) => InFlight(list[i])
  <2> DEFINE grown == list[i].text \o Answer(c)
  <2>1. f[i] = [list[i] EXCEPT !.text = grown]
    OBVIOUS
  <2>2. list[i].text \in Texts /\ Answer(c) \in Texts
    BY <1>2, TextFacts DEF Messages, Runs
  <2>3. grown \in Texts /\ IsPrefix(list[i].text, grown)
    BY <2>2, TextFacts, PrefixFacts
  <2> HIDE DEF f, grown
  <2> QED BY <1>2, <2>1, <2>3 DEF Messages, InFlight
<1> HIDE DEF f
<1>4. Rewrites(c, list, Updated(c, list, f))
  <2>1. \A i \in 1..Len(list) : list[i].id = Bubble(c) =>
           /\ f[i] \in Messages
           /\ f[i].id = list[i].id
           /\ IsPrefix(list[i].text, f[i].text)
           /\ InFlight(f[i]) => InFlight(list[i])
    BY <1>3
  <2> QED BY <2>1, BubbleUpdate
<1> QED BY <1>1, <1>4

\* The list with the answer of run r in the bubble of c, unless it shows something.
Filled(c, r) ==
    [i \in DOMAIN list |->
        IF list[i].id = Bubble(c)
        THEN [list[i] EXCEPT !.text = IF @ # <<>> THEN @ ELSE Answer(r)]
        ELSE list[i]]

LEMMA FilledRewrites ==
    ASSUME NEW c \in Sends, NEW r \in Runs, list \in Seq(Messages)
    PROVE  Rewrites(c, list, Filled(c, r))
<1> DEFINE f == [i \in 1..Len(list) |->
                     [list[i] EXCEPT !.text = IF @ # <<>> THEN @ ELSE Answer(r)]]
<1>1. Filled(c, r) = Updated(c, list, f)
  <2> DOMAIN list = 1..Len(list)
    OBVIOUS
  <2> QED BY DEF Filled, Updated
<1>2. \A i \in 1..Len(list) : list[i] \in Messages
  OBVIOUS
<1>3. ASSUME NEW i \in 1..Len(list)
      PROVE  /\ f[i] \in Messages
             /\ f[i].id = list[i].id
             /\ IsPrefix(list[i].text, f[i].text)
             /\ InFlight(f[i]) => InFlight(list[i])
  <2> DEFINE text == IF list[i].text # <<>> THEN list[i].text ELSE Answer(r)
  <2>1. f[i] = [list[i] EXCEPT !.text = text]
    OBVIOUS
  <2>2. list[i].text \in Texts /\ Answer(r) \in Texts
    BY <1>2, TextFacts DEF Messages
  <2>3. text \in Texts /\ IsPrefix(list[i].text, text)
    BY <2>2, PrefixFacts
  <2> HIDE DEF f, text
  <2> QED BY <1>2, <2>1, <2>3 DEF Messages, InFlight
<1> HIDE DEF f
<1>4. Rewrites(c, list, Updated(c, list, f))
  <2>1. \A i \in 1..Len(list) : list[i].id = Bubble(c) =>
           /\ f[i] \in Messages
           /\ f[i].id = list[i].id
           /\ IsPrefix(list[i].text, f[i].text)
           /\ InFlight(f[i]) => InFlight(list[i])
    BY <1>3
  <2> QED BY <2>1, BubbleUpdate
<1> QED BY <1>1, <1>4

LEMMA RewritesTwice ==
    ASSUME NEW c \in Sends, NEW l1 \in Seq(Messages), NEW l2, NEW l3,
           Rewrites(c, l1, l2), Rewrites(c, l2, l3)
    PROVE  Rewrites(c, l1, l3)
<1>1. l2 \in Seq(Messages) /\ l3 \in Seq(Messages) /\ Len(l2) = Len(l1) /\ Len(l3) = Len(l1)
  BY DEF Rewrites
<1>2. ASSUME NEW i \in 1..Len(l1)
      PROVE  /\ l3[i].id = l1[i].id
             /\ l1[i].id # Bubble(c) => l3[i] = l1[i]
             /\ IsPrefix(l1[i].text, l3[i].text)
             /\ InFlight(l3[i]) => InFlight(l1[i])
  <2>1. /\ l2[i].id = l1[i].id
        /\ l1[i].id # Bubble(c) => l2[i] = l1[i]
        /\ IsPrefix(l1[i].text, l2[i].text)
        /\ InFlight(l2[i]) => InFlight(l1[i])
    BY DEF Rewrites
  <2>2. /\ l3[i].id = l2[i].id
        /\ l2[i].id # Bubble(c) => l3[i] = l2[i]
        /\ IsPrefix(l2[i].text, l3[i].text)
        /\ InFlight(l3[i]) => InFlight(l2[i])
    BY <1>1 DEF Rewrites
  <2>3. l1[i] \in Messages /\ l2[i] \in Messages /\ l3[i] \in Messages
    BY <1>1
  <2>4. l1[i].text \in Texts /\ l2[i].text \in Texts /\ l3[i].text \in Texts
    BY <2>3 DEF Messages
  <2>5. IsPrefix(l1[i].text, l3[i].text)
    BY <2>1, <2>2, <2>4, PrefixFacts
  <2> QED BY <2>1, <2>2, <2>5
<1> QED BY <1>1, <1>2 DEF Rewrites


-----------------------------------------------------------------------------
(* What every step does to the list.                                       *)

Bubbles == {Bubble(c) : c \in Sends}

\* Message m2 shows what m showed, and is in flight only if m was.
Continues(m, m2) ==
    /\ m2.id = m.id
    /\ IsPrefix(m.text, m2.text)
    /\ InFlight(m2) => InFlight(m)
    /\ m.id \notin Bubbles /\ m.text # <<>> => m2.text = m.text

\* Every message of l is continued at its place in l2.
Grown(l, l2) ==
    /\ l2 \in Seq(Messages)
    /\ Len(l2) = Len(l)
    /\ \A i \in 1..Len(l) : Continues(l[i], l2[i])

BubbleInFlightIn(l, c) == \E i \in DOMAIN l : l[i].id = Bubble(c) /\ InFlight(l[i])

StartsNone(l, l2) == \A c \in Sends : BubbleInFlightIn(l2, c) => BubbleInFlightIn(l, c)

TextsStay(l, l2) ==
    \A i \in DOMAIN l :
       \/ \E j \in DOMAIN l2 :
             /\ IsPrefix(l[i].text, l2[j].text)
             /\ l[i].text = <<>> => l2[j].id = l[i].id
       \/ \E j \in DOMAIN l : j # i /\ l[j].id = l[i].id

\* A message of the history shows the stored answer, all of it.
RowsWhole(l) ==
    \A i \in DOMAIN l, r \in Runs : l[i].id = <<"row", r>> => l[i].text = Answer(r)

ListKept(l, l2) ==
    /\ l2 \in Seq(Messages)
    /\ StartsNone(l, l2)
    /\ TextsStay(l, l2)
    /\ RowsWhole(l) => RowsWhole(l2)

LEMMA MessageFacts ==
    ASSUME NEW l \in Seq(Messages)
    PROVE  /\ DOMAIN l = 1..Len(l) /\ Len(l) \in Nat
           /\ \A i \in 1..Len(l) : l[i] \in Messages /\ l[i].text \in Texts
<1>1. DOMAIN l = 1..Len(l) /\ Len(l) \in Nat /\ \A i \in 1..Len(l) : l[i] \in Messages
  OBVIOUS
<1>2. \A m \in Messages : m.text \in Texts
  BY DEF Messages
<1> QED BY <1>1, <1>2

LEMMA RewritesGrows ==
    ASSUME NEW c \in Sends, NEW l \in Seq(Messages), NEW l2, Rewrites(c, l, l2)
    PROVE  Grown(l, l2)
BY DEF Rewrites, Grown, Continues, Bubbles

LEMMA ContinuesTwice ==
    ASSUME NEW m1 \in Messages, NEW m2 \in Messages, NEW m3 \in Messages,
           Continues(m1, m2), Continues(m2, m3)
    PROVE  Continues(m1, m3)
<1>1. m1.text \in Texts /\ m2.text \in Texts /\ m3.text \in Texts
  BY DEF Messages
<1>2. IsPrefix(m1.text, m3.text)
  BY <1>1, PrefixFacts DEF Continues
<1> QED BY <1>2 DEF Continues

LEMMA ContinuesItself == \A m \in Messages : Continues(m, m)
<1>1. \A m \in Messages : m.text \in Texts
  BY DEF Messages
<1> QED BY <1>1, PrefixFacts DEF Continues

LEMMA GrownTwice ==
    ASSUME NEW l1 \in Seq(Messages), NEW l2, NEW l3, Grown(l1, l2), Grown(l2, l3)
    PROVE  Grown(l1, l3)
<1>1. l2 \in Seq(Messages) /\ l3 \in Seq(Messages) /\ Len(l2) = Len(l1) /\ Len(l3) = Len(l1)
  BY DEF Grown
<1>2. ASSUME NEW i \in 1..Len(l1) PROVE Continues(l1[i], l3[i])
  <2>1. l1[i] \in Messages /\ l2[i] \in Messages /\ l3[i] \in Messages
    BY <1>1
  <2>2. Continues(l1[i], l2[i]) /\ Continues(l2[i], l3[i])
    BY <1>1 DEF Grown
  <2> QED BY <2>1, <2>2, ContinuesTwice
<1> QED BY <1>1, <1>2 DEF Grown

LEMMA GrownIsKept ==
    ASSUME NEW l \in Seq(Messages), NEW l2, Grown(l, l2)
    PROVE  ListKept(l, l2)
<1>1. /\ l2 \in Seq(Messages)
      /\ DOMAIN l = 1..Len(l)
      /\ DOMAIN l2 = 1..Len(l)
      /\ \A i \in 1..Len(l) : Continues(l[i], l2[i])
  BY DEF Grown
<1>2. StartsNone(l, l2)
  BY <1>1 DEF StartsNone, BubbleInFlightIn, Continues
<1>3. TextsStay(l, l2)
  BY <1>1 DEF TextsStay, Continues
<1>4. ASSUME RowsWhole(l) PROVE RowsWhole(l2)
  <2> SUFFICES ASSUME NEW i \in 1..Len(l), NEW r \in Runs, l2[i].id = <<"row", r>>
               PROVE  l2[i].text = Answer(r)
    BY <1>1 DEF RowsWhole
  <2>1. l[i].id = <<"row", r>> /\ Continues(l[i], l2[i])
    BY <1>1 DEF Continues
  <2>2. l[i].text = Answer(r)
    BY <1>1, <1>4, <2>1 DEF RowsWhole
  <2>3. <<"row", r>> \notin Bubbles
    BY DEF Bubbles, Bubble
  <2> QED BY <2>1, <2>2, <2>3, TextFacts DEF Continues
<1> QED BY <1>1, <1>2, <1>3, <1>4 DEF ListKept


LEMMA SelfGrown ==
    ASSUME NEW l \in Seq(Messages)
    PROVE  Grown(l, l) /\ ListKept(l, l)
<1>1. Grown(l, l)
  BY MessageFacts, ContinuesItself DEF Grown
<1> QED BY <1>1, GrownIsKept

LEMMA AppendKeeps ==
    ASSUME NEW l \in Seq(Messages), NEW m \in Messages
    PROVE  /\ Append(l, m) \in Seq(Messages)
           /\ \A d \in Sends : m.id # Bubble(d) =>
                  (BubbleInFlightIn(Append(l, m), d) => BubbleInFlightIn(l, d))
           /\ TextsStay(l, Append(l, m))
           /\ (\A r \in Runs : m.id # <<"row", r>>) =>
                  (RowsWhole(l) => RowsWhole(Append(l, m)))
<1> DEFINE a == Append(l, m)
<1>1. /\ a \in Seq(Messages)
      /\ DOMAIN l = 1..Len(l) /\ Len(l) \in Nat
      /\ DOMAIN a = 1..(Len(l) + 1)
      /\ \A i \in 1..Len(l) : a[i] = l[i] /\ i \in 1..(Len(l) + 1)
      /\ a[Len(l) + 1] = m
      /\ \A i \in 1..(Len(l) + 1) : i \in 1..Len(l) \/ i = Len(l) + 1
  OBVIOUS
<1>2. \A i \in 1..Len(l) : l[i].text \in Texts
  BY MessageFacts
<1> HIDE DEF a
<1>3. TextsStay(l, a)
  BY <1>1, <1>2, PrefixFacts DEF TextsStay
<1>4. \A d \in Sends : m.id # Bubble(d) => (BubbleInFlightIn(a, d) => BubbleInFlightIn(l, d))
  BY <1>1 DEF BubbleInFlightIn
<1>5. (\A r \in Runs : m.id # <<"row", r>>) => (RowsWhole(l) => RowsWhole(a))
  BY <1>1 DEF RowsWhole
<1> QED BY <1>1, <1>3, <1>4, <1>5 DEF a

\* One message of the list replaced.
LEMMA ReplaceGrows ==
    ASSUME NEW l \in Seq(Messages), NEW k, NEW m,
           k \in 1..Len(l) => m \in Messages /\ Continues(l[k], m)
    PROVE  Grown(l, [l EXCEPT ![k] = m])
<1> DEFINE s == [l EXCEPT ![k] = m]
<1>1. DOMAIN l = 1..Len(l) /\ Len(l) \in Nat /\ \A i \in 1..Len(l) : l[i] \in Messages
  OBVIOUS
<1>2. \A i \in 1..Len(l) : s[i] = IF i = k THEN m ELSE l[i]
  BY <1>1
<1>3. \A i \in 1..Len(l) : s[i] \in Messages /\ Continues(l[i], s[i])
  BY <1>1, <1>2, ContinuesItself
<1>4. s \in [DOMAIN l -> Messages]
  BY <1>1, <1>3
<1>5. s \in Seq(Messages) /\ Len(s) = Len(l)
  BY <1>4, SameLength
<1> QED BY <1>3, <1>5 DEF Grown

LEMMA AdoptedGrows ==
    ASSUME list \in Seq(Messages), NEW r \in Runs
    PROVE  Grown(list, Adopted(r))
<1> DEFINE inFlight == {i \in DOMAIN list : InFlight(list[i])}
           last == CHOOSE i \in inFlight : \A j \in inFlight : j <= i
           m == [list[last] EXCEPT !.run = r]
<1>1. Adopted(r) \in {list, [list EXCEPT ![last] = m]}
  BY DEF Adopted
<1> HIDE DEF inFlight, last
<1>2. last \in 1..Len(list) => m \in Messages /\ Continues(list[last], m)
  <2> SUFFICES ASSUME last \in 1..Len(list) PROVE m \in Messages /\ Continues(list[last], m)
    OBVIOUS
  <2>1. list[last] \in Messages /\ list[last].text \in Texts
    BY MessageFacts
  <2>2. r \in RunIds
    BY DEF RunIds
  <2>3. m \in Messages /\ m.id = list[last].id /\ m.text = list[last].text
        /\ (InFlight(m) <=> InFlight(list[last]))
    BY <2>1, <2>2 DEF Messages, InFlight
  <2> HIDE DEF m
  <2> QED BY <2>1, <2>3, PrefixFacts DEF Continues
<1> HIDE DEF m
<1>3. Grown(list, [list EXCEPT ![last] = m])
  BY <1>2, ReplaceGrows
<1> QED BY <1>1, <1>3, SelfGrown

LEMMA OnTextKeeps ==
    ASSUME list \in Seq(Messages), NEW r \in Runs, NEW text \in Texts,
           NEW isCompleted \in BOOLEAN, OnText(r, text, isCompleted)
    PROVE  ListKept(list, list')
<1> DEFINE l == Adopted(r)
           ofRun == {i \in DOMAIN l : l[i].run = r}
           first == CHOOSE i \in ofRun : \A j \in ofRun : i <= j
           shown == [l EXCEPT ![first].text = IF @ = <<>> THEN text ELSE @]
           new == Message(<<"evt", r>>, r, "sent",
                          IF isCompleted THEN "completed" ELSE "running", text)
<1>1. list' = IF ofRun = {} THEN Append(l, new)
              ELSE IF isCompleted
              THEN [shown EXCEPT ![first].status = "sent", ![first].runStatus = "completed"]
              ELSE shown
  BY DEF OnText
<1>2. Grown(list, l) /\ l \in Seq(Messages)
  BY AdoptedGrows DEF Grown
<1> HIDE DEF l, ofRun, first
<1>3. CASE ofRun = {}
  <2>0. list' = Append(l, new)
    BY <1>1, <1>3
  <2>1. new \in Messages /\ new.id = <<"evt", r>>
    BY DEF Message, Messages, RunIds
  <2> HIDE DEF new
  <2>2. /\ \A d \in Sends : new.id # Bubble(d)
        /\ \A x \in Runs : new.id # <<"row", x>>
    BY <2>1 DEF Bubble
  <2>3. ListKept(list, l)
    BY <1>2, GrownIsKept
  <2>4. /\ list' \in Seq(Messages)
        /\ StartsNone(l, list')
        /\ RowsWhole(l) => RowsWhole(list')
    BY <1>2, <2>0, <2>1, <2>2, AppendKeeps DEF StartsNone
  <2>5. TextsStay(list, list')
    <3>1. \A i \in 1..Len(list) :
              i \in DOMAIN list' /\ IsPrefix(list[i].text, list'[i].text)
              /\ list'[i].id = list[i].id
      <4>1. \A i \in 1..Len(l) : i \in DOMAIN Append(l, new) /\ Append(l, new)[i] = l[i]
        BY <1>2
      <4> QED BY <1>2, <2>0, <4>1 DEF Grown, Continues
    <3> QED BY <3>1, MessageFacts DEF TextsStay
  <2> QED BY <2>3, <2>4, <2>5 DEF ListKept, StartsNone
<1>4. CASE ofRun # {}
  <2> DEFINE t == IF l[first].text = <<>> THEN text ELSE l[first].text
             m1 == [l[first] EXCEPT !.text = t]
             m2 == [l[first] EXCEPT !.text = t, !.status = "sent", !.runStatus = "completed"]
  <2>1. first \in 1..Len(l) =>
            m1 \in Messages /\ Continues(l[first], m1) /\ m2 \in Messages /\ Continues(l[first], m2)
    <3> SUFFICES ASSUME first \in 1..Len(l)
                 PROVE  /\ m1 \in Messages /\ Continues(l[first], m1)
                        /\ m2 \in Messages /\ Continues(l[first], m2)
      OBVIOUS
    <3>1. l[first] \in Messages /\ l[first].text \in Texts
      BY <1>2, MessageFacts
    <3>2. t \in Texts /\ IsPrefix(l[first].text, t) /\ (l[first].text # <<>> => t = l[first].text)
      BY <3>1, PrefixFacts
    <3> HIDE DEF t
    <3>3. m1 \in Messages /\ m2 \in Messages /\ m1.id = l[first].id /\ m2.id = l[first].id
          /\ m1.text = t /\ m2.text = t /\ ~InFlight(m2) /\ (InFlight(m1) => InFlight(l[first]))
      BY <3>1, <3>2 DEF Messages, InFlight
    <3> QED BY <3>2, <3>3 DEF Continues
  <2>2. list' \in {[l EXCEPT ![first] = m1], [l EXCEPT ![first] = m2]}
    <3>1. shown = [l EXCEPT ![first] = m1]
      OBVIOUS
    <3>2. CASE first \in DOMAIN l
      <4>1. shown[first] = m1
        BY <3>1, <3>2
      <4>2. [shown EXCEPT ![first].status = "sent", ![first].runStatus = "completed"]
                = [l EXCEPT ![first] = m2]
        BY <3>1, <3>2, <4>1, <1>2
      <4> QED BY <1>1, <1>4, <3>1, <4>2
    <3>3. CASE first \notin DOMAIN l
      BY <1>1, <1>4, <3>1, <3>3
    <3> QED BY <3>2, <3>3
  <2> HIDE DEF m1, m2
  <2>3. Grown(l, [l EXCEPT ![first] = m1]) /\ Grown(l, [l EXCEPT ![first] = m2])
    BY <1>2, <2>1, ReplaceGrows
  <2>4. Grown(list, list')
    BY <1>2, <2>2, <2>3, GrownTwice
  <2> QED BY <2>4, GrownIsKept
<1> QED BY <1>3, <1>4

LEMMA OnFailedKeeps ==
    ASSUME list \in Seq(Messages), NEW r \in Runs, OnFailed(r)
    PROVE  ListKept(list, list')
<1>1. list' = [i \in DOMAIN list |->
           IF list[i].run # r THEN list[i]
           ELSE [list[i] EXCEPT !.status = "failed", !.runStatus = "failed",
                                !.text = IF @ = <<>> THEN Notice("failed") ELSE @]]
  BY DEF OnFailed
<1>2. DOMAIN list = 1..Len(list) /\ \A i \in 1..Len(list) : list[i] \in Messages
  OBVIOUS
<1>3. ASSUME NEW i \in 1..Len(list)
      PROVE  list'[i] \in Messages /\ Continues(list[i], list'[i])
  <2>1. CASE list[i].run # r
    <3>1. list'[i] = list[i]
      BY <1>1, <1>2, <2>1
    <3> QED BY <1>2, <3>1, ContinuesItself
  <2>2. CASE list[i].run = r
    <3> DEFINE t == IF list[i].text = <<>> THEN Notice("failed") ELSE list[i].text
    <3>1. list'[i] = [list[i] EXCEPT !.status = "failed", !.runStatus = "failed", !.text = t]
      BY <1>1, <1>2, <2>2
    <3>2. list[i].text \in Texts /\ t \in Texts /\ IsPrefix(list[i].text, t)
          /\ (list[i].text # <<>> => t = list[i].text)
      BY MessageFacts, TextFacts, PrefixFacts
    <3> HIDE DEF t
    <3>3. list'[i] \in Messages /\ list'[i].id = list[i].id /\ list'[i].text = t
          /\ ~InFlight(list'[i])
      BY <1>2, <3>1, <3>2 DEF Messages, InFlight
    <3> QED BY <3>2, <3>3 DEF Continues
  <2> QED BY <2>1, <2>2
<1>4. list' \in [DOMAIN list -> Messages]
  BY <1>1, <1>2, <1>3
<1>5. list' \in Seq(Messages) /\ Len(list') = Len(list)
  BY <1>4, SameLength
<1>6. Grown(list, list')
  BY <1>3, <1>5 DEF Grown
<1> QED BY <1>6, GrownIsKept


\* The history that loadMessagesForAgent has read: a message with a row's id and
\* the whole stored answer for each of the rows, each row once.
IsHistory(h) ==
    /\ h \in Seq(Messages)
    /\ \A i \in DOMAIN h : \E r \in Runs :
          h[i] = Message(<<"row", r>>, r, "sent", "completed", Answer(r))
    /\ \A i, j \in DOMAIN h : h[i].id = h[j].id => i = j

LEMMA HistoryOfRows ==
    ASSUME NEW rows \in SUBSET Runs
    PROVE  LET order == SetToSeq(rows)
           IN  IsHistory([i \in DOMAIN order |->
                   Message(<<"row", order[i]>>, order[i], "sent", "completed", Answer(order[i]))])
<1> DEFINE order == SetToSeq(rows)
           h == [i \in DOMAIN order |->
                   Message(<<"row", order[i]>>, order[i], "sent", "completed", Answer(order[i]))]
<1>1. IsFiniteSet(Sends)
  <2>1. Sends = {SendSeq[i] : i \in 1..Len(SendSeq)}
    BY DEF Sends, ToSet
  <2>2. IsFiniteSet(1..Len(SendSeq))
    BY FS_Interval
  <2> DEFINE f == [i \in 1..Len(SendSeq) |-> SendSeq[i]]
  <2>3. f \in Surjection(1..Len(SendSeq), Sends)
    BY <2>1 DEF Surjection
  <2> QED BY <2>2, <2>3, FS_Surjection DEF ExistsSurjection
<1>2. IsFiniteSet(Runs)
  BY <1>1, FS_Union DEF Runs
<1>3. IsFiniteSet(rows)
  BY <1>2, FS_Subset
<1>4. Cardinality(rows) \in Nat /\ ExistsBijection(1..Cardinality(rows), rows)
  BY <1>3, FS_CardinalityType
<1>5. \E f \in [1..Cardinality(rows) -> rows] : IsInjective(f)
  BY <1>4 DEF ExistsBijection, Bijection, Injection, IsInjective
<1>6. order \in [1..Cardinality(rows) -> rows] /\ IsInjective(order)
  BY <1>5 DEF SetToSeq
<1> HIDE DEF order
<1>7. DOMAIN order = 1..Cardinality(rows) /\ \A i \in DOMAIN order : order[i] \in Runs
  BY <1>6
<1>8. \A i \in DOMAIN order :
          Message(<<"row", order[i]>>, order[i], "sent", "completed", Answer(order[i])) \in Messages
  BY <1>7, TextFacts DEF Message, Messages, RunIds
<1>9. h \in [1..Cardinality(rows) -> Messages] /\ DOMAIN h = DOMAIN order
  BY <1>7, <1>8
<1>10. \A i \in DOMAIN h :
           h[i] = Message(<<"row", order[i]>>, order[i], "sent", "completed", Answer(order[i]))
  OBVIOUS
<1> HIDE DEF h
<1>11. h \in Seq(Messages)
  BY <1>4, <1>9
<1>12. ASSUME NEW i \in DOMAIN h, NEW j \in DOMAIN h, h[i].id = h[j].id PROVE i = j
  <2>1. h[i].id = <<"row", order[i]>> /\ h[j].id = <<"row", order[j]>>
    BY <1>10 DEF Message
  <2>2. \A a, b : <<"row", a>> = <<"row", b>> => a = b
    OBVIOUS
  <2>3. order[i] = order[j]
    BY <1>12, <2>1, <2>2
  <2> QED BY <1>6, <1>9, <2>3 DEF IsInjective
<1>13. IsHistory(h)
  BY <1>7, <1>9, <1>10, <1>11, <1>12 DEF IsHistory
<1> QED BY <1>13 DEF h, order

LEMMA MergeKeeps ==
    ASSUME NEW h, IsHistory(h), list \in Seq(Messages), RowsWhole(list),
           list' = MergeMessages(h, list)
    PROVE  ListKept(list, list')
<1>1. h \in Seq(Messages)
  BY DEF IsHistory
<1>2. /\ list' \in Seq(Messages)
      /\ FromBoth(h, list, Len(list), list')
      /\ \A i \in DOMAIN list : Shows(list', list[i])
  BY <1>1, MergeShowsAll
<1>3. ASSUME NEW j \in DOMAIN list'
      PROVE  \/ \E r \in Runs : list'[j] = Message(<<"row", r>>, r, "sent", "completed", Answer(r))
             \/ \E i \in DOMAIN list : list'[j] = list[i]
  <2>1. CASE \E i \in DOMAIN h : list'[j] = h[i]
    BY <2>1 DEF IsHistory
  <2>2. CASE \E i \in 1..Len(list) : list'[j] = list[i]
    BY <2>2
  <2> QED BY <1>2, <2>1, <2>2 DEF FromBoth
<1>4. \A r \in Runs :
          LET m == Message(<<"row", r>>, r, "sent", "completed", Answer(r))
          IN  m.id = <<"row", r>> /\ m.text = Answer(r) /\ ~InFlight(m)
  BY DEF Message, InFlight
<1>5. StartsNone(list, list')
  <2> SUFFICES ASSUME NEW c \in Sends, NEW j \in DOMAIN list',
                      list'[j].id = Bubble(c), InFlight(list'[j])
               PROVE  BubbleInFlightIn(list, c)
    BY DEF StartsNone, BubbleInFlightIn
  <2>1. PICK i \in DOMAIN list : list'[j] = list[i]
    BY <1>3, <1>4
  <2> QED BY <2>1 DEF BubbleInFlightIn
<1>6. RowsWhole(list')
  <2> SUFFICES ASSUME NEW j \in DOMAIN list', NEW r \in Runs, list'[j].id = <<"row", r>>
               PROVE  list'[j].text = Answer(r)
    BY DEF RowsWhole
  <2>1. CASE \E x \in Runs : list'[j] = Message(<<"row", x>>, x, "sent", "completed", Answer(x))
    <3>1. PICK x \in Runs : list'[j] = Message(<<"row", x>>, x, "sent", "completed", Answer(x))
      BY <2>1
    <3>2. <<"row", x>> = <<"row", r>>
      BY <1>4, <3>1
    <3> QED BY <1>4, <3>1, <3>2
  <2>2. CASE \E i \in DOMAIN list : list'[j] = list[i]
    BY <2>2 DEF RowsWhole
  <2> QED BY <1>3, <2>1, <2>2
<1>7. TextsStay(list, list')
  <2> SUFFICES ASSUME NEW i \in DOMAIN list
               PROVE  \/ \E j \in DOMAIN list' :
                            /\ IsPrefix(list[i].text, list'[j].text)
                            /\ list[i].text = <<>> => list'[j].id = list[i].id
                      \/ \E j \in DOMAIN list : j # i /\ list[j].id = list[i].id
    BY DEF TextsStay
  <2>1. list[i] \in Messages /\ list[i].text \in Texts
    BY MessageFacts
  <2>2. PICK j \in DOMAIN list' :
            \/ list'[j].id = list[i].id
            \/ list[i].text # <<>> /\ list'[j].run = list[i].run /\ list'[j].text = list[i].text
    BY <1>2 DEF Shows
  <2>3. CASE list[i].text # <<>> /\ list'[j].text = list[i].text
    BY <2>1, <2>3, PrefixFacts
  <2>4. CASE list'[j].id = list[i].id /\ \E k \in DOMAIN list : list'[j] = list[k]
    <3>1. PICK k \in DOMAIN list : list'[j] = list[k]
      BY <2>4
    <3>2. CASE k = i
      BY <2>1, <2>4, <3>1, <3>2, PrefixFacts
    <3>3. CASE k # i
      BY <2>4, <3>1, <3>3
    <3> QED BY <3>2, <3>3
  <2>5. CASE /\ list'[j].id = list[i].id
             /\ \E r \in Runs : list'[j] = Message(<<"row", r>>, r, "sent", "completed", Answer(r))
    <3>1. PICK r \in Runs : list'[j] = Message(<<"row", r>>, r, "sent", "completed", Answer(r))
      BY <2>5
    <3>2. list'[j].text = Answer(r) /\ list[i].text = Answer(r)
      BY <1>4, <2>5, <3>1 DEF RowsWhole
    <3> QED BY <2>1, <2>5, <3>2, PrefixFacts
  <2> QED BY <1>3, <2>2, <2>3, <2>4, <2>5
<1> QED BY <1>2, <1>5, <1>6, <1>7 DEF ListKept


\* What a step does to the list: it stays a list of messages, what it shows stays
\* or grows, its rows are whole, and no bubble of a send that is over, or is
\* over then, is in flight unless it was.
ListStep ==
    /\ list' \in Seq(Messages)
    /\ TextsStay(list, list')
    /\ RowsWhole(list')
    /\ \A d \in Sends : pc'[d] = "done" /\ BubbleInFlightIn(list', d) =>
                            pc[d] = "done" /\ BubbleInFlightIn(list, d)

LEMMA GoesOn ==
    ASSUME RowsWhole(list), ListKept(list, list'),
           \A d \in Sends : pc'[d] = "done" => pc[d] = "done"
    PROVE  ListStep
BY DEF ListStep, ListKept, StartsNone

LEMMA Ends ==
    ASSUME pc \in [Sends -> Stages], NEW c \in Sends, RowsWhole(list), ListKept(list, list'),
           Settles(c, list'), pc' = [pc EXCEPT ![c] = "done"]
    PROVE  ListStep
<1>1. ~BubbleInFlightIn(list', c)
  BY DEF Settles, BubbleInFlightIn
<1>2. \A d \in Sends : d # c => pc'[d] = pc[d]
  OBVIOUS
<1> QED BY <1>1, <1>2 DEF ListStep, ListKept, StartsNone

\* The end of a send that settles its bubble.
LEMMA EndsSettled ==
    ASSUME pc \in [Sends -> Stages], list \in Seq(Messages), RowsWhole(list), NEW c \in Sends,
           NEW l, Rewrites(c, list, l),
           \/ list' = Settled(c, l)
           \/ \E b \in BOOLEAN : list' = CaughtIn(c, l, b),
           pc' = [pc EXCEPT ![c] = "done"]
    PROVE  ListStep
<1>1. l \in Seq(Messages)
  BY DEF Rewrites
<1>2. Rewrites(c, l, list') /\ Settles(c, list')
  BY <1>1, SettledRewrites, CaughtRewrites
<1>3. ListKept(list, list')
  BY <1>2, RewritesTwice, RewritesGrows, GrownIsKept
<1> QED BY <1>2, <1>3, Ends

LEMMA RewritesItself ==
    ASSUME NEW c, NEW l \in Seq(Messages)
    PROVE  Rewrites(c, l, l)
BY MessageFacts, PrefixFacts DEF Rewrites

LEMMA AfterStreamStep ==
    ASSUME pc \in [Sends -> Stages], list \in Seq(Messages), RowsWhole(list), NEW c \in Sends,
           NEW l, Rewrites(c, list, l), AfterStream(c, l)
    PROVE  ListStep
<1>1. CASE list' = l /\ pc' = [pc EXCEPT ![c] = "fallback"]
  <2>1. ListKept(list, list')
    BY <1>1, RewritesGrows, GrownIsKept
  <2>2. \A d \in Sends : pc'[d] = "done" => pc[d] = "done"
    BY <1>1
  <2> QED BY <2>1, <2>2, GoesOn
<1>2. CASE list' = Settled(c, l) /\ Finish(c)
  BY <1>2, EndsSettled DEF Finish
<1> QED BY <1>1, <1>2 DEF AfterStream

\* An abort ends the active send, or nothing.
LEMMA CutFacts ==
    /\ Cut = {} \/ (Cut = {active} /\ active # NoSend /\ pc[active] \in {"fetching", "reading"})
    /\ active # NoSend /\ pc[active] \in {"fetching", "reading"} => Cut = {active}
BY DEF Cut

LEMMA AfterCutRewrites ==
    ASSUME active \in Sends \cup {NoSend}, NEW l \in Seq(Messages)
    PROVE  /\ Cut = {} => AfterCut(l) = l
           /\ Cut # {} => /\ active \in Sends
                          /\ Rewrites(active, l, AfterCut(l))
                          /\ Settles(active, AfterCut(l))
<1>1. ASSUME Cut # {} PROVE active \in Sends
  BY <1>1, CutFacts
<1>2. ASSUME Cut # {} PROVE AfterCut(l) \in {CaughtIn(active, l, TRUE), Settled(active, l)}
  BY <1>2 DEF AfterCut
<1> QED BY <1>1, <1>2, SettledRewrites, CaughtRewrites DEF AfterCut

LEMMA SendMessageList ==
    ASSUME StoreTypeOK, RowsWhole(list), NEW c \in Sends, SendMessage(c)
    PROVE  ListStep
<1> DEFINE m == Message(Bubble(c), ClientId(c), "streaming", "running", <<>>)
           l == Append(list, m)
<1>0. list \in Seq(Messages) /\ active \in Sends \cup {NoSend}
  BY DEF StoreTypeOK
<1>1. m \in Messages /\ m.id = Bubble(c)
  BY TextFacts DEF Message, Messages, RunIds
<1>2. list' = AfterCut(l)
  BY DEF SendMessage
<1>3. \A d \in Sends : pc'[d] = IF d = c THEN "auth" ELSE IF d \in Cut THEN "done" ELSE pc[d]
  BY DEF SendMessage
<1> HIDE DEF m
<1>4. \A d \in Sends : Bubble(d) = Bubble(c) => d = c
  BY DEF Bubble
<1>5. \A r \in Runs : Bubble(c) # <<"row", r>>
  BY DEF Bubble
<1>6. /\ l \in Seq(Messages)
      /\ \A d \in Sends : d # c /\ BubbleInFlightIn(l, d) => BubbleInFlightIn(list, d)
      /\ RowsWhole(l)
  BY <1>0, <1>1, <1>4, <1>5, AppendKeeps
<1>7. \A i \in 1..Len(list) : i \in 1..Len(l) /\ l[i] = list[i]
  BY <1>0, <1>1
<1> HIDE DEF l
<1>8. Grown(l, list') /\ (Cut # {} => Settles(active, list') /\ active \in Sends)
  BY <1>0, <1>2, <1>6, AfterCutRewrites, SelfGrown, RewritesGrows
<1>9. ListKept(l, list')
  BY <1>6, <1>8, GrownIsKept
<1>10. TextsStay(list, list')
  <2>1. \A i \in 1..Len(list) : /\ i \in DOMAIN list'
                                /\ IsPrefix(list[i].text, list'[i].text)
                                /\ list'[i].id = list[i].id
    BY <1>6, <1>7, <1>8 DEF Grown, Continues
  <2> QED BY <1>0, <2>1, MessageFacts DEF TextsStay
<1>11. ASSUME NEW d \in Sends, pc'[d] = "done", BubbleInFlightIn(list', d)
       PROVE  pc[d] = "done" /\ BubbleInFlightIn(list, d)
  <2>1. d # c /\ BubbleInFlightIn(list, d)
    BY <1>3, <1>6, <1>9, <1>11 DEF ListKept, StartsNone
  <2>2. d \notin Cut
    BY <1>8, <1>11, CutFacts DEF Settles, BubbleInFlightIn
  <2> QED BY <1>3, <1>11, <2>1, <2>2
<1> QED BY <1>6, <1>9, <1>10, <1>11 DEF ListStep, ListKept


LEMMA StopList ==
    ASSUME StoreTypeOK, RowsWhole(list), StopStream
    PROVE  ListStep
<1>1. list \in Seq(Messages) /\ active \in Sends \cup {NoSend} /\ pc \in [Sends -> Stages]
  BY DEF StoreTypeOK
<1>2. list' = AfterCut(list) /\ \A d \in Sends : pc'[d] = IF d \in Cut THEN "done" ELSE pc[d]
  BY DEF StopStream
<1>3. Grown(list, list') /\ (Cut # {} => Settles(active, list') /\ active \in Sends)
  BY <1>1, <1>2, AfterCutRewrites, SelfGrown, RewritesGrows
<1>4. ListKept(list, list')
  BY <1>1, <1>3, GrownIsKept
<1>5. \A d \in Sends : d \in Cut => ~BubbleInFlightIn(list', d)
  BY <1>3, CutFacts DEF Settles, BubbleInFlightIn
<1> QED BY <1>2, <1>4, <1>5 DEF ListStep, ListKept, StartsNone

LEMMA CaughtList ==
    ASSUME StoreTypeOK, RowsWhole(list), NEW c \in Sends, Caught(c)
    PROVE  ListStep
<1>1. list \in Seq(Messages) /\ pc \in [Sends -> Stages]
  BY DEF StoreTypeOK
<1>2. list' = CaughtIn(c, list, c \in aborted) /\ (c \in aborted) \in BOOLEAN
  BY DEF Caught
<1>3. pc' = [pc EXCEPT ![c] = "done"]
  BY DEF Caught, Finish
<1>4. Rewrites(c, list, list)
  BY <1>1, RewritesItself
<1> QED BY <1>1, <1>2, <1>3, <1>4, EndsSettled

LEMMA SendStepList ==
    ASSUME StoreTypeOK, RowsWhole(list), NEW c \in Sends, SendStep(c)
    PROVE  ListStep
<1>1. list \in Seq(Messages) /\ pc \in [Sends -> Stages]
  BY DEF StoreTypeOK
<1>2. Rewrites(c, list, list) /\ ListKept(list, list)
  BY <1>1, RewritesItself, SelfGrown
<1>3. CASE SendMessage(c)
  BY <1>3, SendMessageList
<1>4. CASE Post(c)
  BY <1>1, <1>2, <1>4, GoesOn DEF Post
<1>5. CASE Respond(c)
  <2>1. ListKept(list, list')
    BY <1>1, <1>5, TextFacts, ChunkRewrites, RewritesGrows, GrownIsKept DEF Respond
  <2> QED BY <1>1, <1>5, <2>1, GoesOn DEF Respond
<1>6. CASE FetchFails(c)
  BY <1>6, CaughtList DEF FetchFails
<1>7. CASE Delta(c)
  <2>1. <<<<c, read[c] + 1>>>> \in Texts
    <3>1. read[c] + 1 \in Nat /\ c \in Runs
      BY DEF StoreTypeOK, Runs
    <3> QED BY <3>1, TextFacts
  <2>2. ListKept(list, list')
    BY <1>1, <1>7, <2>1, ChunkRewrites, RewritesGrows, GrownIsKept DEF Delta
  <2> QED BY <1>1, <1>7, <2>2, GoesOn DEF Delta
<1>8. CASE Done(c)
  <2>1. Rewrites(c, list, Chunk(c, <<>>)) /\ AfterStream(c, Chunk(c, <<>>))
    BY <1>1, <1>8, TextFacts, ChunkRewrites DEF Done
  <2> QED BY <1>1, <2>1, AfterStreamStep
<1>9. CASE StreamError(c)
  <2>1. Rewrites(c, list, Chunk(c, Notice("failed")))
    BY <1>1, TextFacts, ChunkRewrites
  <2>2. pc' = [pc EXCEPT ![c] = "done"] /\ (c \in aborted) \in BOOLEAN
    BY <1>9 DEF StreamError, Finish
  <2>3. CASE list' = CaughtIn(c, Chunk(c, Notice("failed")), c \in aborted)
    BY <1>1, <2>1, <2>2, <2>3, EndsSettled
  <2>4. CASE list' = CaughtIn(c, list, c \in aborted)
    BY <1>1, <1>2, <2>2, <2>4, EndsSettled
  <2> QED BY <1>9, <2>3, <2>4 DEF StreamError
<1>10. CASE StreamCloses(c)
  <2>1. CASE pc' = [pc EXCEPT ![c] = "late"] /\ list' = list
    BY <1>1, <1>2, <2>1, GoesOn
  <2>2. CASE AfterStream(c, list)
    BY <1>1, <1>2, <2>2, AfterStreamStep
  <2> QED BY <1>10, <2>1, <2>2 DEF StreamCloses
<1>11. CASE LateReply(c)
  <2>1. CASE AfterStream(c, Appended(c))
    BY <1>1, <2>1, AppendedRewrites, AfterStreamStep
  <2>2. CASE AfterStream(c, list)
    BY <1>1, <1>2, <2>2, AfterStreamStep
  <2>3. CASE Caught(c)
    BY <2>3, CaughtList
  <2> QED BY <1>11, <2>1, <2>2, <2>3 DEF LateReply, WithId, Appended
<1>12. CASE FallbackReply(c)
  <2>1. pc' = [pc EXCEPT ![c] = "done"]
    BY <1>12 DEF FallbackReply, Finish
  <2>2. CASE polled[c] \in Runs /\ list' = Settled(c, Filled(c, polled[c]))
    BY <1>1, <2>1, <2>2, FilledRewrites, EndsSettled
  <2>3. CASE list' = Settled(c, list)
    BY <1>1, <1>2, <2>1, <2>3, EndsSettled
  <2> QED BY <1>12, <2>2, <2>3 DEF FallbackReply, WithId, Filled
<1> QED BY <1>3, <1>4, <1>5, <1>6, <1>7, <1>8, <1>9, <1>10, <1>11, <1>12 DEF SendStep

LEMMA WsFrameList ==
    ASSUME StoreTypeOK, RowsWhole(list), NEW r \in Runs, WsFrame(r)
    PROVE  ListStep
<1>1. list \in Seq(Messages) /\ frames[r] \in Nat
  BY DEF StoreTypeOK
<1>2. <<<<r, frames[r] + 1>>>> \in Texts /\ Answer(r) \in Texts
  BY <1>1, TextFacts
<1>3. ListKept(list, list')
  <2>1. CASE OnText(r, <<<<r, frames[r] + 1>>>>, FALSE)
    BY <1>1, <1>2, <2>1, OnTextKeeps
  <2>2. CASE OnText(r, Answer(r), TRUE)
    BY <1>1, <1>2, <2>2, OnTextKeeps
  <2>3. CASE OnFailed(r)
    BY <1>1, <2>3, OnFailedKeeps
  <2>4. CASE UNCHANGED list
    BY <1>1, <2>4, SelfGrown
  <2> QED BY <2>1, <2>2, <2>3, <2>4 DEF WsFrame
<1> QED BY <1>3, GoesOn DEF WsFrame, sendVars

LEMMA LoadList ==
    ASSUME StoreTypeOK, RowsWhole(list), LoadMessages
    PROVE  ListStep
<1>1. PICK rows \in SUBSET {r \in Runs : end[r] = "completed"} :
          LET order == SetToSeq(rows)
          IN  list' = MergeMessages([i \in DOMAIN order |->
                  Message(<<"row", order[i]>>, order[i], "sent", "completed", Answer(order[i]))],
                  list)
  BY DEF LoadMessages
<1>2. rows \in SUBSET Runs /\ list \in Seq(Messages)
  BY DEF StoreTypeOK
<1>3. \E h : IsHistory(h) /\ list' = MergeMessages(h, list)
  BY <1>1, <1>2, HistoryOfRows
<1>4. ListKept(list, list')
  BY <1>2, <1>3, MergeKeeps
<1> QED BY <1>4, GoesOn DEF LoadMessages, sendVars

LEMMA NextList ==
    ASSUME StoreTypeOK, RowsWhole(list), [StoreNext]_storeVars
    PROVE  ListStep
<1>1. ListKept(list, list)
  BY SelfGrown DEF StoreTypeOK
<1>2. CASE UNCHANGED storeVars
  BY <1>1, <1>2, GoesOn DEF storeVars, sendVars
<1>3. ASSUME NEW r \in Runs, HostEmits(r) \/ HostEnds(r) PROVE ListStep
  BY <1>1, <1>3, GoesOn DEF HostEmits, HostEnds, sendVars
<1>4. CASE ResetContext
  BY <1>1, <1>4, GoesOn DEF ResetContext, sendVars
<1> QED BY <1>2, <1>3, <1>4, SendStepList, WsFrameList, StopList, LoadList DEF StoreNext


-----------------------------------------------------------------------------
(* The invariant.                                                          *)

\* What StoreTypeOK says of everything but the list.
ControlTypeOK ==
    /\ status \in {"online", "running"}
    /\ active \in Sends \cup {NoSend}
    /\ aborted \subseteq Sends
    /\ posted \subseteq Sends
    /\ pc \in [Sends -> Stages]
    /\ polled \in [Sends -> RunIds]
    /\ adopted \subseteq Sends

CountsTypeOK ==
    /\ read \in [Sends -> Nat] /\ \A c \in Sends : read[c] <= Deltas[c]
    /\ count \in [Runs -> Nat] /\ \A r \in Runs : count[r] <= Deltas[r]
    /\ end \in [Runs -> {"open", "completed", "failed"}]
    /\ frames \in [Runs -> Nat] /\ \A r \in Runs : frames[r] <= Deltas[r] + 1

StoreIInv ==
    /\ StoreTypeOK
    /\ RowsWhole(list)
    /\ SettledStays
    /\ RunningHasSender
    /\ StopReaches

\* Who runs and who may be stopped.
Control == ControlTypeOK /\ RunningHasSender /\ StopReaches

\* A send that ends as all of them do leaves no other send behind unreachable.
LEMMA FinishControl ==
    ASSUME Control, NEW c \in Sends, Finish(c), UNCHANGED <<aborted, posted, adopted>>,
           polled' \in [Sends -> RunIds]
    PROVE  Control'
<1>1. ControlTypeOK'
  BY DEF Control, ControlTypeOK, Finish, Stages
<1>2. RunningHasSender'
  BY DEF RunningHasSender, Finish
<1>3. StopReaches'
  <2> SUFFICES ASSUME NEW d \in Sends, Live(d)', d \notin aborted' PROVE active' = d
    BY DEF StopReaches
  <2>1. pc \in [Sends -> Stages]
    BY DEF Control, ControlTypeOK
  <2>2. d # c
    BY <2>1 DEF Finish, Live
  <2>3. Live(d) /\ d \notin aborted
    BY <2>1, <2>2 DEF Finish, Live
  <2>4. active = d
    BY <2>3 DEF Control, StopReaches
  <2> QED BY <2>2, <2>4 DEF Finish
<1> QED BY <1>1, <1>2, <1>3 DEF Control

\* A send that goes on stays reachable.
LEMMA GoesOnControl ==
    ASSUME Control, NEW c \in Sends, Live(c), NEW stage \in Stages \ {"idle", "done"},
           pc' = [pc EXCEPT ![c] = stage], UNCHANGED <<status, active, aborted>>,
           posted' \subseteq Sends, adopted' \subseteq Sends, polled' \in [Sends -> RunIds]
    PROVE  Control'
<1>1. pc \in [Sends -> Stages]
  BY DEF Control, ControlTypeOK
<1>2. ControlTypeOK'
  BY <1>1 DEF Control, ControlTypeOK
<1>3. \A d \in Sends : Live(d)' <=> Live(d)
  <2> TAKE d \in Sends
  <2>1. CASE d = c
    BY <1>1, <2>1 DEF Live
  <2>2. CASE d # c
    BY <1>1, <2>2 DEF Live
  <2> QED BY <2>1, <2>2
<1>4. RunningHasSender'
  BY <1>3 DEF Control, RunningHasSender
<1>5. StopReaches'
  BY <1>3 DEF Control, StopReaches
<1> QED BY <1>2, <1>4, <1>5 DEF Control

LEMMA SameControl ==
    ASSUME Control, UNCHANGED sendVars, status' \in {status, "online"}
    PROVE  Control'
<1>1. ControlTypeOK'
  BY DEF Control, ControlTypeOK, sendVars
<1>2. RunningHasSender'
  BY DEF Control, RunningHasSender, sendVars, Live
<1>3. StopReaches'
  BY DEF Control, StopReaches, sendVars, Live
<1> QED BY <1>1, <1>2, <1>3 DEF Control

LEMMA SendMessageControl ==
    ASSUME Control, NEW c \in Sends, SendMessage(c)
    PROVE  Control'
<1>1. /\ active \in Sends \cup {NoSend}
      /\ pc \in [Sends -> Stages]
      /\ pc[c] = "idle"
      /\ Cut \subseteq Sends
  BY CutFacts DEF Control, ControlTypeOK, SendMessage
<1>2. /\ active' = c
      /\ aborted' = aborted \cup ({active} \ {NoSend})
      /\ pc' = [d \in Sends |-> IF d = c THEN "auth" ELSE IF d \in Cut THEN "done" ELSE pc[d]]
      /\ status' = IF Cut = {} THEN "running" ELSE "online"
      /\ UNCHANGED <<posted, polled, adopted>>
  BY DEF SendMessage
<1>3. ControlTypeOK'
  <2>1. pc' \in [Sends -> Stages]
    BY <1>1, <1>2 DEF Stages
  <2> QED BY <1>1, <1>2, <2>1 DEF Control, ControlTypeOK
<1>4. RunningHasSender'
  <2>1. pc'[c] = "auth"
    BY <1>2
  <2> QED BY <2>1 DEF RunningHasSender, Live
<1>5. StopReaches'
  <2> SUFFICES ASSUME NEW d \in Sends, Live(d)', d \notin aborted', d # c PROVE FALSE
    BY <1>2 DEF StopReaches
  <2>1. Live(d) /\ d \notin aborted
    BY <1>2 DEF Live
  <2>2. active = d
    BY <2>1 DEF Control, StopReaches
  <2> QED BY <1>2, <2>2
<1> QED BY <1>3, <1>4, <1>5 DEF Control

LEMMA StopControl ==
    ASSUME Control, StopStream
    PROVE  Control'
<1>1. active \in Sends /\ pc \in [Sends -> Stages] /\ Cut \subseteq Sends
  BY CutFacts DEF Control, ControlTypeOK, StopStream
<1>2. /\ aborted' = aborted \cup {active}
      /\ status' = IF Cut = {} THEN status ELSE "online"
      /\ active' = IF Cut = {} THEN active ELSE NoSend
      /\ pc' = [d \in Sends |-> IF d \in Cut THEN "done" ELSE pc[d]]
      /\ UNCHANGED <<posted, polled, adopted>>
  BY DEF StopStream
<1>3. ControlTypeOK'
  <2>1. pc' \in [Sends -> Stages]
    BY <1>1, <1>2 DEF Stages
  <2> QED BY <1>1, <1>2, <2>1 DEF Control, ControlTypeOK
<1>4. RunningHasSender'
  <2> SUFFICES ASSUME status' = "running" PROVE \E d \in Sends : Live(d)'
    BY DEF RunningHasSender
  <2>1. Cut = {} /\ status = "running"
    BY <1>2
  <2>2. PICK d \in Sends : Live(d)
    BY <2>1 DEF Control, RunningHasSender
  <2>3. Live(d)'
    BY <1>2, <2>1, <2>2 DEF Live
  <2> QED BY <2>3
<1>5. StopReaches'
  <2> SUFFICES ASSUME NEW d \in Sends, Live(d)', d \notin aborted' PROVE FALSE
    BY DEF StopReaches
  <2>1. Live(d) /\ d \notin aborted
    BY <1>2 DEF Live
  <2>2. active = d
    BY <2>1 DEF Control, StopReaches
  <2> QED BY <1>2, <2>2
<1> QED BY <1>3, <1>4, <1>5 DEF Control

LEMMA AfterStreamControl ==
    ASSUME Control, NEW c \in Sends, Live(c), NEW l \in Seq(Messages), AfterStream(c, l),
           UNCHANGED <<aborted, posted, adopted>>
    PROVE  Control'
<1> DEFINE bubbles == {i \in DOMAIN l : l[i].id = Bubble(c)}
           waiting == {i \in bubbles : c \notin aborted /\ (l[i].text = <<>> \/ InFlight(l[i]))}
<1>1. polled \in [Sends -> RunIds]
  BY DEF Control, ControlTypeOK
<1>2. CASE waiting # {}
  <2> DEFINE k == CHOOSE i \in waiting : TRUE
             run == l[k].run
  <2>1. polled' = [polled EXCEPT ![c] = run] /\ pc' = [pc EXCEPT ![c] = "fallback"]
        /\ UNCHANGED <<status, active>>
    BY <1>2 DEF AfterStream
  <2>2. k \in DOMAIN l
    BY <1>2
  <2> HIDE DEF k
  <2>7. l[k] \in Messages
    BY <2>2
  <2>3. run \in RunIds
    BY <2>7 DEF Messages
  <2> HIDE DEF run
  <2>4. polled' \in [Sends -> RunIds]
    BY <1>1, <2>1, <2>3
  <2>5. posted' \subseteq Sends /\ adopted' \subseteq Sends
    BY DEF Control, ControlTypeOK
  <2>6. "fallback" \in Stages \ {"idle", "done"}
    BY DEF Stages
  <2> QED BY <2>1, <2>4, <2>5, <2>6, GoesOnControl
<1>3. CASE waiting = {}
  <2>1. Finish(c) /\ UNCHANGED polled
    BY <1>3 DEF AfterStream
  <2> QED BY <1>1, <2>1, FinishControl
<1> QED BY <1>2, <1>3


LEMMA CaughtControl ==
    ASSUME Control, NEW c \in Sends, Caught(c)
    PROVE  Control'
BY FinishControl DEF Caught, Control, ControlTypeOK

LEMMA SendStepControl ==
    ASSUME StoreTypeOK, Control, NEW c \in Sends, SendStep(c)
    PROVE  Control'
<1>1. /\ list \in Seq(Messages)
      /\ pc \in [Sends -> Stages]
      /\ polled \in [Sends -> RunIds]
      /\ posted \subseteq Sends /\ adopted \subseteq Sends
  BY DEF StoreTypeOK
<1>2. {"auth", "fetching", "reading", "late", "fallback"} = Stages \ {"idle", "done"}
  BY DEF Stages
<1>3. CASE SendMessage(c)
  BY <1>3, SendMessageControl
<1>4. CASE Post(c)
  <2>1. /\ Live(c) /\ pc' = [pc EXCEPT ![c] = "fetching"] /\ posted' \subseteq Sends
        /\ UNCHANGED <<status, active, aborted, polled, adopted>>
    BY <1>1, <1>4 DEF Post, Live
  <2> QED BY <1>1, <1>2, <2>1, GoesOnControl
<1>5. CASE Respond(c)
  <2>1. /\ Live(c) /\ pc' = [pc EXCEPT ![c] = "reading"] /\ adopted' \subseteq Sends
        /\ UNCHANGED <<status, active, aborted, polled, posted>>
    BY <1>1, <1>5 DEF Respond, Live
  <2> QED BY <1>1, <1>2, <2>1, GoesOnControl
<1>6. CASE FetchFails(c)
  BY <1>6, CaughtControl DEF FetchFails
<1>7. CASE Delta(c)
  <2>1. UNCHANGED <<active, aborted, posted, pc, polled, adopted, status>>
    BY <1>7 DEF Delta
  <2>2. ControlTypeOK' /\ StopReaches' /\ RunningHasSender'
    BY <2>1 DEF Control, ControlTypeOK, StopReaches, RunningHasSender, Live
  <2> QED BY <2>2 DEF Control
<1>8. CASE Done(c)
  <2>1. Chunk(c, <<>>) \in Seq(Messages)
    BY <1>1, TextFacts, ChunkRewrites DEF Rewrites
  <2> QED BY <1>8, <2>1, AfterStreamControl DEF Done, Live
<1>9. CASE StreamError(c)
  BY <1>1, <1>9, FinishControl DEF StreamError
<1>10. CASE StreamCloses(c)
  <2>1. CASE pc' = [pc EXCEPT ![c] = "late"] /\ UNCHANGED <<list, status, active, polled>>
    <3>1. Live(c) /\ UNCHANGED <<aborted, posted, adopted>>
      BY <1>10 DEF StreamCloses, Live
    <3> QED BY <1>1, <1>2, <2>1, <3>1, GoesOnControl
  <2>2. CASE AfterStream(c, list)
    BY <1>1, <1>10, <2>2, AfterStreamControl DEF StreamCloses, Live
  <2> QED BY <1>10, <2>1, <2>2 DEF StreamCloses
<1>11. CASE LateReply(c)
  <2>0. Live(c)
    BY <1>11 DEF LateReply, Live
  <2>1. CASE AfterStream(c, Appended(c)) /\ UNCHANGED <<aborted, posted, read, adopted>>
    <3>1. Appended(c) \in Seq(Messages)
      BY <1>1, AppendedRewrites DEF Rewrites
    <3> QED BY <2>0, <2>1, <3>1, AfterStreamControl
  <2>2. CASE AfterStream(c, list) /\ UNCHANGED <<aborted, posted, read, adopted>>
    BY <1>1, <2>0, <2>2, AfterStreamControl
  <2>3. CASE Caught(c)
    BY <2>3, CaughtControl
  <2> QED BY <1>11, <2>1, <2>2, <2>3 DEF LateReply, WithId, Appended
<1>12. CASE FallbackReply(c)
  BY <1>1, <1>12, FinishControl DEF FallbackReply
<1> QED BY <1>3, <1>4, <1>5, <1>6, <1>7, <1>8, <1>9, <1>10, <1>11, <1>12 DEF SendStep

LEMMA NextControl ==
    ASSUME StoreTypeOK, Control, [StoreNext]_storeVars
    PROVE  Control'
<1>1. CASE UNCHANGED storeVars
  BY <1>1, SameControl DEF storeVars
<1>2. ASSUME NEW r \in Runs, HostEmits(r) \/ HostEnds(r) PROVE Control'
  BY <1>2, SameControl DEF HostEmits, HostEnds
<1>3. ASSUME NEW r \in Runs, WsFrame(r) PROVE Control'
  <2>1. UNCHANGED sendVars /\ status' \in {status, "online"}
    BY <1>3 DEF WsFrame, OnText, OnFailed
  <2> QED BY <2>1, SameControl
<1>4. CASE LoadMessages
  BY <1>4, SameControl DEF LoadMessages
<1>5. CASE ResetContext
  BY <1>5, SameControl DEF ResetContext
<1> QED BY <1>1, <1>2, <1>3, <1>4, <1>5, SendStepControl, StopControl DEF StoreNext

LEMMA NextCounts ==
    ASSUME StoreTypeOK, [StoreNext]_storeVars
    PROVE  CountsTypeOK'
<1>0. (\A r \in Runs : Deltas[r] \in Nat) /\ Sends \subseteq Runs
  BY DEF Runs
<1>1. CountsTypeOK
  BY DEF StoreTypeOK, CountsTypeOK
<1>2. CASE UNCHANGED <<read, gatewayVars, frames>>
  BY <1>1, <1>2 DEF CountsTypeOK, gatewayVars
<1>3. ASSUME NEW r \in Runs, HostEmits(r) PROVE CountsTypeOK'
  <2>1. /\ count' = [count EXCEPT ![r] = @ + 1] /\ count[r] < Deltas[r]
        /\ UNCHANGED <<read, end, frames>>
    BY <1>3 DEF HostEmits, sendVars
  <2>2. count' \in [Runs -> Nat] /\ \A x \in Runs : count'[x] <= Deltas[x]
    BY <1>1, <2>1 DEF CountsTypeOK
  <2> QED BY <1>1, <2>1, <2>2 DEF CountsTypeOK
<1>4. ASSUME NEW r \in Runs, HostEnds(r) PROVE CountsTypeOK'
  <2>1. end' \in [Runs -> {"open", "completed", "failed"}] /\ UNCHANGED <<read, count, frames>>
    BY <1>1, <1>4 DEF HostEnds, sendVars, CountsTypeOK
  <2> QED BY <1>1, <2>1 DEF CountsTypeOK
<1>5. ASSUME NEW r \in Runs, WsFrame(r) PROVE CountsTypeOK'
  <2>1. /\ frames' = [frames EXCEPT ![r] = @ + 1] \/ frames' = frames
        /\ frames[r] < count[r] + 1
        /\ UNCHANGED <<read, count, end>>
    BY <1>1, <1>5 DEF WsFrame, sendVars, gatewayVars, CountsTypeOK
  <2>2. frames' \in [Runs -> Nat] /\ \A x \in Runs : frames'[x] <= Deltas[x] + 1
    <3>1. /\ frames \in [Runs -> Nat] /\ \A x \in Runs : frames[x] <= Deltas[x] + 1
          /\ count[r] \in Nat /\ count[r] <= Deltas[r]
      BY <1>1 DEF CountsTypeOK
    <3>2. CASE frames' = [frames EXCEPT ![r] = @ + 1]
      <4>1. frames' \in [Runs -> Nat]
        BY <3>1, <3>2
      <4>2. ASSUME NEW x \in Runs PROVE frames'[x] <= Deltas[x] + 1
        <5>1. CASE x = r
          BY <1>0, <2>1, <3>1, <3>2, <5>1
        <5>2. CASE x # r
          BY <3>1, <3>2, <5>2
        <5> QED BY <5>1, <5>2
      <4> QED BY <4>1, <4>2
    <3>3. CASE frames' = frames
      BY <3>1, <3>3
    <3> QED BY <2>1, <3>2, <3>3
  <2> QED BY <1>1, <2>1, <2>2 DEF CountsTypeOK
<1>6. ASSUME NEW c \in Sends, Delta(c) PROVE CountsTypeOK'
  <2>0. Deltas[c] \in Nat /\ count[c] \in Nat /\ count[c] <= Deltas[c] /\ c \in Runs
    BY <1>1 DEF CountsTypeOK, Runs
  <2>1. /\ read' = [read EXCEPT ![c] = @ + 1] /\ read[c] < Deltas[c]
        /\ UNCHANGED <<count, end, frames>>
    BY <1>1, <1>6, <2>0 DEF Delta, gatewayVars, CountsTypeOK
  <2>2. read' \in [Sends -> Nat] /\ \A x \in Sends : read'[x] <= Deltas[x]
    <3>1. read \in [Sends -> Nat] /\ \A x \in Sends : read[x] <= Deltas[x]
      BY <1>1 DEF CountsTypeOK
    <3>2. read' \in [Sends -> Nat]
      BY <2>1, <3>1
    <3>3. ASSUME NEW x \in Sends PROVE read'[x] <= Deltas[x]
      <4>1. CASE x = c
        BY <2>0, <2>1, <3>1, <4>1
      <4>2. CASE x # c
        BY <2>1, <3>1, <4>2
      <4> QED BY <4>1, <4>2
    <3> QED BY <3>2, <3>3
  <2> QED BY <1>1, <2>1, <2>2 DEF CountsTypeOK
<1>7. ASSUME NEW c \in Sends, SendStep(c), ~Delta(c) PROVE UNCHANGED <<read, gatewayVars, frames>>
  BY <1>7 DEF SendStep, SendMessage, Post, Respond, FetchFails, Caught, Done, StreamError,
              StreamCloses, LateReply, FallbackReply
<1>8. StopStream \/ LoadMessages \/ ResetContext => UNCHANGED <<read, gatewayVars, frames>>
  BY DEF StopStream, LoadMessages, ResetContext, sendVars
<1>9. UNCHANGED storeVars => UNCHANGED <<read, gatewayVars, frames>>
  BY DEF storeVars, sendVars
<1> QED BY <1>2, <1>3, <1>4, <1>5, <1>6, <1>7, <1>8, <1>9 DEF StoreNext

LEMMA StoreInitIInv == StoreInit => StoreIInv
<1> SUFFICES ASSUME StoreInit PROVE StoreIInv
  OBVIOUS
<1>1. PICK used \in Scenarios :
          /\ list = <<>> /\ status = "online" /\ active = NoSend /\ aborted = {} /\ posted = {}
          /\ pc = [c \in Sends |-> IF c \in used THEN "idle" ELSE "done"]
          /\ read = [c \in Sends |-> 0]
          /\ polled = [c \in Sends |-> ClientId(c)]
          /\ adopted = {}
          /\ count = [r \in Runs |-> 0]
          /\ end = [r \in Runs |-> IF r \in used THEN "open" ELSE "failed"]
          /\ frames = [r \in Runs |-> IF r \in used THEN 0 ELSE 1]
  BY DEF StoreInit
<1>2. StoreTypeOK
  <2>1. list \in Seq(Messages) /\ pc \in [Sends -> Stages] /\ polled \in [Sends -> RunIds]
    BY <1>1 DEF Stages, RunIds
  <2>2. (\A r \in Runs : Deltas[r] \in Nat) /\ Sends \subseteq Runs
    BY DEF Runs
  <2>3. read \in [Sends -> Nat] /\ \A c \in Sends : read[c] <= Deltas[c]
    BY <1>1, <2>2
  <2>4. count \in [Runs -> Nat] /\ \A r \in Runs : count[r] <= Deltas[r]
    BY <1>1, <2>2
  <2>5. frames \in [Runs -> Nat] /\ \A r \in Runs : frames[r] <= Deltas[r] + 1
    BY <1>1, <2>2
  <2>6. end \in [Runs -> {"open", "completed", "failed"}]
    BY <1>1
  <2> QED BY <1>1, <2>1, <2>3, <2>4, <2>5, <2>6 DEF StoreTypeOK
<1>3. RowsWhole(list) /\ SettledStays
  BY <1>1 DEF RowsWhole, SettledStays, BubbleInFlight
<1>4. RunningHasSender /\ StopReaches
  BY <1>1 DEF RunningHasSender, StopReaches, Live
<1> QED BY <1>2, <1>3, <1>4 DEF StoreIInv

LEMMA StoreStepIInv ==
    ASSUME StoreIInv, [StoreNext]_storeVars
    PROVE  StoreIInv'
<1>1. Control
  BY DEF StoreIInv, StoreTypeOK, Control, ControlTypeOK
<1>2. Control' /\ CountsTypeOK' /\ ListStep
  BY <1>1, NextControl, NextCounts, NextList DEF StoreIInv
<1>3. StoreTypeOK'
  BY <1>2 DEF Control, ControlTypeOK, CountsTypeOK, ListStep, StoreTypeOK
<1>4. SettledStays'
  <2> SUFFICES ASSUME NEW c \in Sends, pc'[c] = "done", BubbleInFlightIn(list', c) PROVE FALSE
    BY DEF SettledStays, BubbleInFlight, BubbleInFlightIn
  <2>1. pc[c] = "done" /\ BubbleInFlightIn(list, c)
    BY <1>2 DEF ListStep
  <2> QED BY <2>1 DEF StoreIInv, SettledStays, BubbleInFlight, BubbleInFlightIn
<1> QED BY <1>2, <1>3, <1>4 DEF StoreIInv, ListStep, Control

\* Every state of a chat satisfies the invariant.
THEOREM StoreInvariant == StoreSpec => []StoreIInv
<1>1. StoreInit => StoreIInv
  BY StoreInitIInv
<1>2. StoreIInv /\ [StoreNext]_storeVars => StoreIInv'
  BY StoreStepIInv
<1> QED BY <1>1, <1>2, PTL DEF StoreSpec

\* The state of a chat is of its type: no answer is longer than the run's, no
\* frame is past its end.
THEOREM StoreTypeCorrect == StoreSpec => []StoreTypeOK
<1>1. StoreIInv => StoreTypeOK
  BY DEF StoreIInv
<1> QED BY <1>1, StoreInvariant, PTL

\* A bubble whose send is over is never in flight again, whatever frames, replies
\* and histories come, in any order and of any number of runs: the composer,
\* which is locked while a bubble thinks, is not locked for good.
THEOREM SettledBubblesStay == StoreSpec => []SettledStays
<1>1. StoreIInv => SettledStays
  BY DEF StoreIInv
<1> QED BY <1>1, StoreInvariant, PTL

\* The agent is shown as running only while a send of the page is.
THEOREM RunningIsLive == StoreSpec => []RunningHasSender
<1>1. StoreIInv => RunningHasSender
  BY DEF StoreIInv
<1> QED BY <1>1, StoreInvariant, PTL

\* stopStream always has the controller of the send that is not aborted,
\* whichever of the sends that overlap ends first.
THEOREM StopReachesLastSend == StoreSpec => []StopReaches
<1>1. StoreIInv => StopReaches
  BY DEF StoreIInv
<1> QED BY <1>1, StoreInvariant, PTL

\* No step takes a text off the screen, for lists and histories of any length.
THEOREM TextsStayShown == StoreSpec => ShownTextStays
<1>1. StoreIInv /\ [StoreNext]_storeVars =>
          [list' # list => TextsStay(list, list')]_storeVars
  BY NextList DEF StoreIInv, ListStep
<1>2. TextsStay(list, list') => 
          \A i \in DOMAIN list :
            \/ \E j \in DOMAIN list' :
                  /\ IsPrefix(list[i].text, list'[j].text)
                  /\ list[i].text = <<>> => list'[j].id = list[i].id
            \/ \E j \in DOMAIN list : j # i /\ list[j].id = list[i].id
  BY DEF TextsStay
<1> QED BY <1>1, <1>2, StoreInvariant, PTL DEF StoreSpec, ShownTextStays


-----------------------------------------------------------------------------
(* Every text in the bubble of its own send.                               *)

\* No other page runs the agent and no request ended before it knew its run.
Undisturbed ==
    /\ \A x \in Others : count[x] = 0 /\ end[x] # "completed"
    /\ \A c \in posted \ adopted : pc[c] = "fetching"

OwnText(c, text) ==
    \A k \in DOMAIN text : text[k] \in {<<c, n>> : n \in 1..Deltas[c]} \/ text[k][2] = 0

\* The ids of the messages that may show run r.
IdsOf(r) == {Bubble(r), <<"evt", r>>, <<"row", r>>}

\* A bubble shows its own run's text and no other run, a row or an event its run.
OwnMessage(m) ==
    /\ \A c \in Sends : m.id = Bubble(c) => m.run \in {c, ClientId(c)} /\ OwnText(c, m.text)
    /\ \A r \in Runs : m.id \in {<<"evt", r>>, <<"row", r>>} => m.run = r

UniqueIds(l) == \A i, j \in DOMAIN l : l[i].id = l[j].id => i = j

OwnList(l) == UniqueIds(l) /\ \A i \in DOMAIN l : OwnMessage(l[i])

\* Some message shows run r.
HasRun(l, r) == \E i \in DOMAIN l : l[i].run = r

\* The bubble of c is the last message in flight: a frame of an unknown run finds it.
LastInFlight(l, c) ==
    \E i \in DOMAIN l :
        /\ l[i].id = Bubble(c)
        /\ InFlight(l[i])
        /\ \A j \in DOMAIN l : i < j => ~InFlight(l[j])

\* A frame of the run of c finds a message of its own.
Finds(l, c) == HasRun(l, c) \/ LastInFlight(l, c)

\* What is so whether or not the chat is disturbed.
Orderly ==
    /\ \A c \in aborted : pc[c] \notin {"fetching", "reading"}
    /\ \A c \in posted : pc[c] \notin {"idle", "auth"}
    /\ \A c \in Sends : count[c] > 0 \/ end[c] = "completed" => c \in posted

NotBeforeSent(l, stage) ==
    \A i \in DOMAIN l, c \in Sends : l[i].id = Bubble(c) => stage[c] # "idle"

OwnState ==
    /\ OwnList(list)
    /\ NotBeforeSent(list, pc)
    /\ \A c \in Sends : polled[c] \in {c, ClientId(c)}
    /\ \A c \in adopted : HasRun(list, c)
    /\ \A c \in Sends \ aborted : pc[c] \in {"auth", "fetching"} => Finds(list, c)

OwnIInv == Orderly /\ (Undisturbed => OwnState)


LEMMA IdFacts ==
    \A c, d \in Runs :
        /\ Bubble(c) = Bubble(d) => c = d
        /\ Bubble(c) # <<"evt", d>> /\ Bubble(c) # <<"row", d>>
        /\ <<"evt", c>> # <<"row", d>>
        /\ <<"evt", c>> = <<"evt", d>> => c = d
        /\ <<"row", c>> = <<"row", d>> => c = d
        /\ ClientId(c) = ClientId(d) => c = d
BY DEF Bubble, ClientId

\* Whose message an own message is.
LEMMA OwnerOfMessage ==
    ASSUME NEW m \in Messages, OwnMessage(m)
    PROVE  /\ \A r \in Runs : m.run = r => m.id \in IdsOf(r)
           /\ \A c \in Sends : m.run = ClientId(c) => m.id = Bubble(c)
           /\ \A r \in Runs : m.id \in IdsOf(r) =>
                  m.run = r \/ (r \in Sends /\ m.id = Bubble(r) /\ m.run = ClientId(r))
<1>0. Sends \subseteq Runs
  BY DEF Runs
<1>1. m.id \in {Bubble(c) : c \in Sends} \cup ({"evt", "row"} \X Runs)
  BY DEF Messages
<1>2. CASE \E c \in Sends : m.id = Bubble(c)
  <2>1. PICK c \in Sends : m.id = Bubble(c)
    BY <1>2
  <2>2. m.run \in {c, ClientId(c)}
    BY <2>1 DEF OwnMessage
  <2>3. \A r \in Runs : m.id \in IdsOf(r) => r = c /\ m.id = Bubble(r)
    BY <1>0, <2>1, IdFacts DEF IdsOf
  <2>4. \A r \in Runs : m.run = r => r = c
    BY <1>0, <2>2, ClientIdsAssumption
  <2>5. \A d \in Sends : m.run = ClientId(d) => d = c
    BY <1>0, <2>2, ClientIdsAssumption, IdFacts
  <2> QED BY <2>1, <2>2, <2>3, <2>4, <2>5 DEF IdsOf
<1>3. CASE \E x \in Runs : m.id \in {<<"evt", x>>, <<"row", x>>}
  <2>1. PICK x \in Runs : m.id \in {<<"evt", x>>, <<"row", x>>}
    BY <1>3
  <2>2. m.run = x
    BY <2>1 DEF OwnMessage
  <2>3. \A r \in Runs : m.id \in IdsOf(r) => r = x
    BY <2>1, IdFacts DEF IdsOf
  <2> QED BY <2>1, <2>2, <2>3, ClientIdsAssumption DEF IdsOf
<1> QED BY <1>1, <1>2, <1>3

\* l2 is l where messages of run d may have changed: each is an own message and
\* shows the run it showed, or d; and none is in flight that was not.
Rewrote(d, l, l2) ==
    /\ l2 \in Seq(Messages)
    /\ Len(l2) = Len(l)
    /\ \A i \in 1..Len(l) :
          /\ l2[i].id = l[i].id
          /\ l[i].id \notin IdsOf(d) => l2[i] = l[i]
          /\ OwnMessage(l2[i])
          /\ l2[i].run \in {l[i].run, d}
          /\ InFlight(l2[i]) => InFlight(l[i])

LEMMA RewroteTwice ==
    ASSUME NEW d, NEW l1 \in Seq(Messages), NEW l2, NEW l3,
           Rewrote(d, l1, l2), Rewrote(d, l2, l3)
    PROVE  Rewrote(d, l1, l3)
<1>1. l3 \in Seq(Messages) /\ Len(l2) = Len(l1) /\ Len(l3) = Len(l1)
  BY DEF Rewrote
<1>2. ASSUME NEW i \in 1..Len(l1)
      PROVE  /\ l3[i].id = l1[i].id
             /\ l1[i].id \notin IdsOf(d) => l3[i] = l1[i]
             /\ OwnMessage(l3[i])
             /\ l3[i].run \in {l1[i].run, d}
             /\ InFlight(l3[i]) => InFlight(l1[i])
  BY <1>1 DEF Rewrote
<1> QED BY <1>1, <1>2 DEF Rewrote

LEMMA RewroteOwn ==
    ASSUME NEW l \in Seq(Messages), OwnList(l), NEW d \in Runs, NEW l2, Rewrote(d, l, l2)
    PROVE  /\ OwnList(l2)
           /\ \A r \in Runs : HasRun(l, r) => HasRun(l2, r)
           /\ \A c \in Sends \ {d} : LastInFlight(l, c) => LastInFlight(l2, c)
           /\ \A stage : NotBeforeSent(l, stage) => NotBeforeSent(l2, stage)
<1>1. /\ DOMAIN l = 1..Len(l)
      /\ DOMAIN l2 = 1..Len(l)
      /\ \A i \in 1..Len(l) : l[i] \in Messages
  BY DEF Rewrote
<1>2. \A i \in 1..Len(l) :
          /\ l2[i].id = l[i].id
          /\ l[i].id \notin IdsOf(d) => l2[i] = l[i]
          /\ OwnMessage(l2[i])
          /\ l2[i].run \in {l[i].run, d}
          /\ InFlight(l2[i]) => InFlight(l[i])
  BY DEF Rewrote
<1>3. OwnList(l2)
  BY <1>1, <1>2 DEF OwnList, UniqueIds
<1>4. ASSUME NEW r \in Runs, HasRun(l, r) PROVE HasRun(l2, r)
  <2>1. PICK i \in 1..Len(l) : l[i].run = r
    BY <1>1, <1>4 DEF HasRun
  <2>2. OwnMessage(l[i]) /\ l[i] \in Messages
    BY <1>1 DEF OwnList
  <2>3. l[i].id \in IdsOf(d) => r = d
    BY <2>1, <2>2, OwnerOfMessage, ClientIdsAssumption
  <2>4. l2[i].run = r
    BY <1>2, <2>1, <2>3
  <2> QED BY <1>1, <2>4 DEF HasRun
<1>5. ASSUME NEW c \in Sends \ {d}, LastInFlight(l, c) PROVE LastInFlight(l2, c)
  <2>1. PICK i \in 1..Len(l) : /\ l[i].id = Bubble(c)
                               /\ InFlight(l[i])
                               /\ \A j \in 1..Len(l) : i < j => ~InFlight(l[j])
    BY <1>1, <1>5 DEF LastInFlight
  <2>2. Bubble(c) \notin IdsOf(d)
    BY IdFacts DEF IdsOf, Runs
  <2>3. l2[i] = l[i]
    BY <1>2, <2>1, <2>2
  <2>4. \A j \in 1..Len(l) : i < j => ~InFlight(l2[j])
    BY <1>2, <2>1
  <2> QED BY <1>1, <2>1, <2>3, <2>4 DEF LastInFlight
<1>6. \A stage : NotBeforeSent(l, stage) => NotBeforeSent(l2, stage)
  BY <1>1, <1>2 DEF NotBeforeSent
<1> QED BY <1>3, <1>4, <1>5, <1>6

LEMMA RewroteItself ==
    ASSUME NEW l \in Seq(Messages), OwnList(l), NEW d
    PROVE  Rewrote(d, l, l)
BY DEF Rewrote, OwnList

\* A rewriting of bubbles that gives them their own text, and their own run at most.
LEMMA OwnRewrites ==
    ASSUME NEW c \in Sends, NEW l \in Seq(Messages), OwnList(l), NEW l2, Rewrites(c, l, l2),
           \A i \in 1..Len(l) : l[i].id = Bubble(c) =>
               l2[i].run \in {l[i].run, c} /\ OwnText(c, l2[i].text)
    PROVE  Rewrote(c, l, l2)
<1>0. c \in Runs /\ Sends \subseteq Runs
  BY DEF Runs
<1>1. l2 \in Seq(Messages) /\ Len(l2) = Len(l)
  BY DEF Rewrites
<1>2. ASSUME NEW i \in 1..Len(l)
      PROVE  /\ l2[i].id = l[i].id
             /\ l[i].id \notin IdsOf(c) => l2[i] = l[i]
             /\ OwnMessage(l2[i])
             /\ l2[i].run \in {l[i].run, c}
             /\ InFlight(l2[i]) => InFlight(l[i])
  <2>1. /\ l2[i].id = l[i].id
        /\ l[i].id # Bubble(c) => l2[i] = l[i]
        /\ InFlight(l2[i]) => InFlight(l[i])
    BY DEF Rewrites
  <2>2. OwnMessage(l[i])
    BY DEF OwnList
  <2>3. CASE l[i].id # Bubble(c)
    BY <2>1, <2>2, <2>3
  <2>4. CASE l[i].id = Bubble(c)
    <3>1. l[i].run \in {c, ClientId(c)}
      BY <2>2, <2>4 DEF OwnMessage
    <3>2. l2[i].run \in {c, ClientId(c)} /\ OwnText(c, l2[i].text)
      BY <2>4, <3>1
    <3>3. \A d \in Sends : l2[i].id = Bubble(d) => d = c
      BY <1>0, <2>1, <2>4, IdFacts
    <3>4. \A r \in Runs : l2[i].id \notin {<<"evt", r>>, <<"row", r>>}
      BY <1>0, <2>1, <2>4, IdFacts
    <3>5. OwnMessage(l2[i])
      BY <3>2, <3>3, <3>4 DEF OwnMessage
    <3> QED BY <2>1, <2>4, <3>5 DEF IdsOf
  <2> QED BY <2>3, <2>4
<1> QED BY <1>1, <1>2 DEF Rewrote


LEMMA OwnTextFacts ==
    ASSUME NEW c \in Sends
    PROVE  /\ OwnText(c, <<>>)
           /\ \A what : OwnText(c, Notice(what))
           /\ OwnText(c, Answer(c))
           /\ \A n \in 1..Deltas[c] : OwnText(c, <<<<c, n>>>>)
           /\ \A s, t \in Texts : OwnText(c, s) /\ OwnText(c, t) => OwnText(c, s \o t)
<1>0. Deltas[c] \in Nat
  BY DEF Runs
<1>1. OwnText(c, <<>>)
  BY DEF OwnText
<1>2. ASSUME NEW what PROVE OwnText(c, Notice(what))
  <2>1. DOMAIN Notice(what) = {1} /\ Notice(what)[1] = <<what, 0>>
    BY DEF Notice
  <2> QED BY <2>1 DEF OwnText
<1>3. OwnText(c, Answer(c))
  BY <1>0 DEF OwnText, Answer
<1>4. ASSUME NEW n \in 1..Deltas[c] PROVE OwnText(c, <<<<c, n>>>>)
  <2>1. DOMAIN <<<<c, n>>>> = {1} /\ <<<<c, n>>>>[1] = <<c, n>>
    OBVIOUS
  <2> QED BY <2>1 DEF OwnText
<1>5. ASSUME NEW s \in Texts, NEW t \in Texts, OwnText(c, s), OwnText(c, t)
      PROVE  OwnText(c, s \o t)
  <2>1. /\ DOMAIN s = 1..Len(s) /\ Len(s) \in Nat /\ DOMAIN t = 1..Len(t) /\ Len(t) \in Nat
        /\ DOMAIN (s \o t) = 1..(Len(s) + Len(t))
        /\ \A k \in 1..(Len(s) + Len(t)) :
              (s \o t)[k] = IF k <= Len(s) THEN s[k] ELSE t[k - Len(s)]
    BY DEF Texts
  <2>2. ASSUME NEW k \in 1..(Len(s) + Len(t))
        PROVE  \/ k \in DOMAIN s /\ (s \o t)[k] = s[k]
               \/ k - Len(s) \in DOMAIN t /\ (s \o t)[k] = t[k - Len(s)]
    BY <2>1
  <2>3. ASSUME NEW k \in DOMAIN (s \o t)
        PROVE  (s \o t)[k] \in {<<c, n>> : n \in 1..Deltas[c]} \/ (s \o t)[k][2] = 0
    <3>1. CASE k \in DOMAIN s /\ (s \o t)[k] = s[k]
      BY <1>5, <3>1 DEF OwnText
    <3>2. CASE k - Len(s) \in DOMAIN t /\ (s \o t)[k] = t[k - Len(s)]
      BY <1>5, <3>2 DEF OwnText
    <3> QED BY <2>1, <2>2, <2>3, <3>1, <3>2
  <2> QED BY <2>3 DEF OwnText
<1> QED BY <1>1, <1>2, <1>3, <1>4, <1>5

\* What the bubble of c shows in a list of own messages is a text of c.
LEMMA OwnBubble ==
    ASSUME NEW c \in Sends, NEW l \in Seq(Messages), OwnList(l), NEW i \in 1..Len(l),
           l[i].id = Bubble(c)
    PROVE  l[i].run \in {c, ClientId(c)} /\ OwnText(c, l[i].text) /\ l[i].text \in Texts
<1>1. OwnMessage(l[i])
  BY DEF OwnList
<1> QED BY <1>1, MessageFacts DEF OwnMessage

LEMMA SettledOwn ==
    ASSUME NEW c \in Sends, NEW l \in Seq(Messages), OwnList(l)
    PROVE  Rewrote(c, l, Settled(c, l))
<1>1. Rewrites(c, l, Settled(c, l))
  BY SettledRewrites
<1>2. ASSUME NEW i \in 1..Len(l), l[i].id = Bubble(c)
      PROVE  /\ Settled(c, l)[i].run \in {l[i].run, c}
             /\ OwnText(c, Settled(c, l)[i].text)
  <2>0. l[i] \in Messages /\ DOMAIN l = 1..Len(l)
    OBVIOUS
  <2>1. Settled(c, l)[i] = IF l[i].text # <<>>
                           THEN [l[i] EXCEPT !.status = "sent", !.runStatus = "completed"]
                           ELSE [l[i] EXCEPT !.status = "failed", !.runStatus = "failed",
                                             !.text = Notice("failed")]
    BY <1>2, <2>0 DEF Settled, WithId
  <2>2. Settled(c, l)[i].run = l[i].run /\ Settled(c, l)[i].text \in {l[i].text, Notice("failed")}
    BY <2>0, <2>1 DEF Messages
  <2> QED BY <1>2, <2>2, OwnBubble, OwnTextFacts
<1> QED BY <1>1, <1>2, OwnRewrites

LEMMA CaughtOwn ==
    ASSUME NEW c \in Sends, NEW l \in Seq(Messages), OwnList(l), NEW b \in BOOLEAN
    PROVE  Rewrote(c, l, CaughtIn(c, l, b))
<1>1. Rewrites(c, l, CaughtIn(c, l, b))
  BY CaughtRewrites
<1>2. ASSUME NEW i \in 1..Len(l), l[i].id = Bubble(c)
      PROVE  /\ CaughtIn(c, l, b)[i].run \in {l[i].run, c}
             /\ OwnText(c, CaughtIn(c, l, b)[i].text)
  <2> DEFINE st == IF b THEN "sent" ELSE "failed"
             rs == IF b THEN "completed" ELSE "failed"
             what == IF b THEN "cancelled" ELSE "failed"
             text == IF l[i].text # <<>> THEN l[i].text ELSE Notice(what)
  <2>0. l[i] \in Messages /\ DOMAIN l = 1..Len(l)
    OBVIOUS
  <2>1. CaughtIn(c, l, b)[i] = [l[i] EXCEPT !.status = st, !.runStatus = rs, !.text = text]
    BY <1>2, <2>0 DEF CaughtIn, WithId
  <2> HIDE DEF st, rs, text, what
  <2>2. CaughtIn(c, l, b)[i].run = l[i].run /\ CaughtIn(c, l, b)[i].text = text
    BY <2>0, <2>1 DEF Messages
  <2>3. OwnText(c, text)
    BY <1>2, OwnBubble, OwnTextFacts DEF text
  <2> QED BY <2>2, <2>3
<1> QED BY <1>1, <1>2, OwnRewrites

LEMMA ChunkOwn ==
    ASSUME NEW c \in Sends, list \in Seq(Messages), OwnList(list),
           NEW text \in Texts, OwnText(c, text)
    PROVE  /\ Rewrote(c, list, Chunk(c, text))
           /\ \A i \in DOMAIN list : list[i].id = Bubble(c) => HasRun(Chunk(c, text), c)
<1>1. Rewrites(c, list, Chunk(c, text))
  BY ChunkRewrites
<1>2. ASSUME NEW i \in 1..Len(list), list[i].id = Bubble(c)
      PROVE  Chunk(c, text)[i].run = c /\ OwnText(c, Chunk(c, text)[i].text)
  <2>0. list[i] \in Messages /\ DOMAIN list = 1..Len(list)
    OBVIOUS
  <2>1. Chunk(c, text)[i] = [list[i] EXCEPT !.run = c, !.text = list[i].text \o text]
    BY <1>2, <2>0 DEF Chunk, WithId
  <2>2. Chunk(c, text)[i].run = c /\ Chunk(c, text)[i].text = list[i].text \o text
    BY <2>0, <2>1 DEF Messages
  <2> QED BY <1>2, <2>2, OwnBubble, OwnTextFacts
<1>3. Rewrote(c, list, Chunk(c, text))
  BY <1>1, <1>2, OwnRewrites
<1>4. DOMAIN list = 1..Len(list) /\ DOMAIN Chunk(c, text) = 1..Len(list)
  BY <1>1 DEF Rewrites
<1> QED BY <1>2, <1>3, <1>4 DEF HasRun

LEMMA AppendedOwn ==
    ASSUME NEW c \in Sends, list \in Seq(Messages), OwnList(list)
    PROVE  Rewrote(c, list, Appended(c))
<1>1. Rewrites(c, list, Appended(c))
  BY AppendedRewrites
<1>2. ASSUME NEW i \in 1..Len(list), list[i].id = Bubble(c)
      PROVE  /\ Appended(c)[i].run \in {list[i].run, c}
             /\ OwnText(c, Appended(c)[i].text)
  <2>0. list[i] \in Messages /\ DOMAIN list = 1..Len(list)
    OBVIOUS
  <2>1. Appended(c)[i] = [list[i] EXCEPT !.text = list[i].text \o Answer(c)]
    BY <1>2, <2>0 DEF Appended
  <2>2. Appended(c)[i].run = list[i].run /\ Appended(c)[i].text = list[i].text \o Answer(c)
    BY <2>0, <2>1 DEF Messages
  <2>3. Answer(c) \in Texts
    BY TextFacts DEF Runs
  <2> QED BY <1>2, <2>2, <2>3, OwnBubble, OwnTextFacts
<1> QED BY <1>1, <1>2, OwnRewrites

LEMMA FilledOwn ==
    ASSUME NEW c \in Sends, list \in Seq(Messages), OwnList(list)
    PROVE  Rewrote(c, list, Filled(c, c))
<1>1. Rewrites(c, list, Filled(c, c))
  BY FilledRewrites DEF Runs
<1>2. ASSUME NEW i \in 1..Len(list), list[i].id = Bubble(c)
      PROVE  /\ Filled(c, c)[i].run \in {list[i].run, c}
             /\ OwnText(c, Filled(c, c)[i].text)
  <2> DEFINE text == IF list[i].text # <<>> THEN list[i].text ELSE Answer(c)
  <2>0. list[i] \in Messages /\ DOMAIN list = 1..Len(list)
    OBVIOUS
  <2>1. Filled(c, c)[i] = [list[i] EXCEPT !.text = text]
    BY <1>2, <2>0 DEF Filled
  <2> HIDE DEF text
  <2>2. Filled(c, c)[i].run = list[i].run /\ Filled(c, c)[i].text = text
    BY <2>0, <2>1 DEF Messages
  <2>3. OwnText(c, text)
    BY <1>2, OwnBubble, OwnTextFacts DEF text
  <2> QED BY <2>2, <2>3
<1> QED BY <1>1, <1>2, OwnRewrites


\* A step that rewrites the messages of run d and lets no send of another run
\* start to wait.
LEMMA KeepsOwn ==
    ASSUME StoreTypeOK, OwnState, NEW d \in Runs, Rewrote(d, list, list'),
           \A c \in Sends : pc'[c] = "idle" => pc[c] = "idle",
           \A c \in Sends : polled'[c] \in {c, ClientId(c)},
           \A c \in adopted' : c \in adopted \/ HasRun(list', c),
           \A c \in Sends \ aborted' : pc'[c] \in {"auth", "fetching"} =>
               \/ c # d /\ c \notin aborted /\ pc[c] \in {"auth", "fetching"}
               \/ Finds(list', c)
    PROVE  OwnState'
<1>1. /\ list \in Seq(Messages) /\ OwnList(list)
      /\ adopted \subseteq Sends /\ Sends \subseteq Runs
  BY DEF StoreTypeOK, OwnState, Runs
<1>2. /\ OwnList(list')
      /\ \A r \in Runs : HasRun(list, r) => HasRun(list', r)
      /\ \A c \in Sends \ {d} : LastInFlight(list, c) => LastInFlight(list', c)
      /\ \A stage : NotBeforeSent(list, stage) => NotBeforeSent(list', stage)
  BY <1>1, RewroteOwn
<1>3. NotBeforeSent(list', pc')
  <2>1. NotBeforeSent(list', pc)
    BY <1>2 DEF OwnState
  <2> QED BY <2>1 DEF NotBeforeSent
<1>4. \A c \in adopted' : HasRun(list', c)
  BY <1>1, <1>2 DEF OwnState
<1>5. ASSUME NEW c \in Sends \ aborted', pc'[c] \in {"auth", "fetching"} PROVE Finds(list', c)
  <2>1. CASE c # d /\ c \notin aborted /\ pc[c] \in {"auth", "fetching"}
    <3>1. Finds(list, c)
      BY <2>1 DEF OwnState
    <3> QED BY <1>1, <1>2, <2>1, <3>1 DEF Finds
  <2> QED BY <1>5, <2>1
<1> QED BY <1>2, <1>3, <1>4, <1>5 DEF OwnState

\* A step that leaves the list alone.
LEMMA SameListOwn ==
    ASSUME OwnState, UNCHANGED list, adopted' \subseteq adopted,
           \A c \in Sends : pc'[c] = "idle" => pc[c] = "idle",
           \A c \in Sends : polled'[c] \in {c, ClientId(c)},
           \A c \in Sends \ aborted' : pc'[c] \in {"auth", "fetching"} =>
               c \notin aborted /\ pc[c] \in {"auth", "fetching"}
    PROVE  OwnState'
<1>1. NotBeforeSent(list', pc')
  BY DEF OwnState, NotBeforeSent
<1>2. OwnList(list') /\ \A c \in adopted' : HasRun(list', c)
  BY DEF OwnState
<1>3. \A c \in Sends \ aborted' : pc'[c] \in {"auth", "fetching"} => Finds(list', c)
  BY DEF OwnState
<1> QED BY <1>1, <1>2, <1>3 DEF OwnState

\* A send that ends, or waits for its reply, with its own bubble rewritten.
LEMMA StageOwn ==
    ASSUME StoreTypeOK, OwnState, NEW c \in Sends, Rewrote(c, list, list'),
           NEW stage \in {"late", "fallback", "done"}, pc' = [pc EXCEPT ![c] = stage],
           \A d \in Sends : polled'[d] \in {d, ClientId(d)},
           UNCHANGED <<aborted, adopted>>
    PROVE  OwnState'
<1>1. pc \in [Sends -> Stages] /\ c \in Runs
  BY DEF StoreTypeOK, Runs
<1>2. \A d \in Sends : pc'[d] = IF d = c THEN stage ELSE pc[d]
  BY <1>1
<1>3. \A d \in Sends : pc'[d] = "idle" => pc[d] = "idle"
  BY <1>2
<1>4. \A d \in Sends \ aborted' : pc'[d] \in {"auth", "fetching"} =>
          d # c /\ d \notin aborted /\ pc[d] \in {"auth", "fetching"}
  BY <1>2
<1> QED BY <1>1, <1>3, <1>4, KeepsOwn

LEMMA AfterStreamOwn ==
    ASSUME StoreTypeOK, OwnState, NEW c \in Sends, NEW l, Rewrote(c, list, l),
           AfterStream(c, l), UNCHANGED <<aborted, adopted>>
    PROVE  OwnState'
<1> DEFINE bubbles == {i \in DOMAIN l : l[i].id = Bubble(c)}
           waiting == {i \in bubbles : c \notin aborted /\ (l[i].text = <<>> \/ InFlight(l[i]))}
<1>1. /\ list \in Seq(Messages) /\ OwnList(list) /\ c \in Runs /\ polled \in [Sends -> RunIds]
      /\ \A d \in Sends : polled[d] \in {d, ClientId(d)}
  BY DEF StoreTypeOK, OwnState, Runs
<1>2. l \in Seq(Messages) /\ OwnList(l)
  BY <1>1, RewroteOwn DEF Rewrote
<1>3. CASE waiting # {}
  <2> DEFINE k == CHOOSE i \in waiting : TRUE
             run == l[k].run
  <2>1. polled' = [polled EXCEPT ![c] = run] /\ pc' = [pc EXCEPT ![c] = "fallback"] /\ list' = l
    BY <1>3 DEF AfterStream
  <2>2. k \in 1..Len(l) /\ l[k].id = Bubble(c)
    BY <1>2, <1>3
  <2> HIDE DEF k
  <2>3. run \in {c, ClientId(c)}
    BY <1>2, <2>2, OwnBubble
  <2> HIDE DEF run
  <2>4. \A d \in Sends : polled'[d] \in {d, ClientId(d)}
    BY <1>1, <2>1, <2>3
  <2> QED BY <2>1, <2>4, StageOwn
<1>4. CASE waiting = {}
  <2>1. list' = Settled(c, l) /\ pc' = [pc EXCEPT ![c] = "done"] /\ UNCHANGED polled
    BY <1>4 DEF AfterStream, Finish
  <2>2. Rewrote(c, list, list')
    BY <1>1, <1>2, <2>1, SettledOwn, RewroteTwice
  <2> QED BY <1>1, <2>1, <2>2, StageOwn
<1> QED BY <1>3, <1>4

LEMMA CaughtStageOwn ==
    ASSUME StoreTypeOK, OwnState, NEW c \in Sends, NEW l, Rewrote(c, list, l),
           list' = CaughtIn(c, l, c \in aborted), pc' = [pc EXCEPT ![c] = "done"],
           UNCHANGED <<aborted, polled, adopted>>
    PROVE  OwnState'
<1>1. /\ list \in Seq(Messages) /\ OwnList(list) /\ c \in Runs
      /\ \A d \in Sends : polled[d] \in {d, ClientId(d)}
  BY DEF StoreTypeOK, OwnState, Runs
<1>2. l \in Seq(Messages) /\ OwnList(l)
  BY <1>1, RewroteOwn DEF Rewrote
<1>3. Rewrote(c, list, list')
  <2>1. (c \in aborted) \in BOOLEAN
    OBVIOUS
  <2> QED BY <1>1, <1>2, <2>1, CaughtOwn, RewroteTwice
<1> QED BY <1>1, <1>3, StageOwn

\* The steps of a send that has begun.
LEMMA SendGoesOnOwn ==
    ASSUME StoreTypeOK, Orderly, OwnState, NEW c \in Sends, SendStep(c), ~SendMessage(c)
    PROVE  OwnState'
<1>1. /\ list \in Seq(Messages) /\ OwnList(list) /\ pc \in [Sends -> Stages] /\ c \in Runs
      /\ \A d \in Sends : polled[d] \in {d, ClientId(d)}
      /\ read[c] \in Nat /\ Deltas[c] \in Nat
  BY DEF StoreTypeOK, OwnState, Runs
<1>2. Rewrote(c, list, list)
  BY <1>1, RewroteItself
<1>3. Rewrote(c, list, Chunk(c, <<>>))
  BY <1>1, TextFacts, OwnTextFacts, ChunkOwn
<1>4. CASE Post(c)
  <2>1. /\ \A d \in Sends : pc'[d] = IF d = c THEN "fetching" ELSE pc[d]
        /\ pc[c] = "auth" /\ c \notin aborted
        /\ UNCHANGED <<list, aborted, polled, adopted>>
    BY <1>1, <1>4 DEF Post
  <2>2. \A d \in Sends : pc'[d] = "idle" => pc[d] = "idle"
    BY <2>1
  <2>3. \A d \in Sends \ aborted' : pc'[d] \in {"auth", "fetching"} =>
            d \notin aborted /\ pc[d] \in {"auth", "fetching"}
    BY <2>1
  <2> QED BY <1>1, <2>1, <2>2, <2>3, SameListOwn
<1>5. CASE Respond(c)
  <2>1. /\ \A d \in Sends : pc'[d] = IF d = c THEN "reading" ELSE pc[d]
        /\ pc[c] = "fetching" /\ list' = Chunk(c, <<>>) /\ adopted' = adopted \cup {c}
        /\ UNCHANGED <<aborted, polled>>
    BY <1>1, <1>5 DEF Respond
  <2>2. HasRun(list', c)
    <3>1. c \notin aborted
      BY <2>1 DEF Orderly
    <3>2. HasRun(list, c) \/ LastInFlight(list, c)
      BY <2>1, <3>1 DEF OwnState, Finds
    <3>3. CASE HasRun(list, c)
      BY <1>1, <1>3, <2>1, <3>3, RewroteOwn
    <3>4. CASE LastInFlight(list, c)
      BY <1>1, <2>1, <3>4, TextFacts, OwnTextFacts, ChunkOwn DEF LastInFlight
    <3> QED BY <3>2, <3>3, <3>4
  <2>3. \A d \in adopted' : d \in adopted \/ HasRun(list', d)
    BY <2>1, <2>2
  <2>4. \A d \in Sends \ aborted' : pc'[d] \in {"auth", "fetching"} =>
            d # c /\ d \notin aborted /\ pc[d] \in {"auth", "fetching"}
    BY <2>1
  <2>5. \A d \in Sends : pc'[d] = "idle" => pc[d] = "idle"
    BY <2>1
  <2> QED BY <1>1, <1>3, <2>1, <2>3, <2>4, <2>5, KeepsOwn
<1>6. CASE FetchFails(c)
  BY <1>2, <1>6, CaughtStageOwn DEF FetchFails, Caught, Finish
<1>7. CASE Delta(c)
  <2>1. /\ pc[c] = "reading" /\ list' = Chunk(c, <<<<c, read[c] + 1>>>>)
        /\ UNCHANGED <<aborted, pc, polled, adopted>>
    BY <1>7 DEF Delta
  <2>2. read[c] + 1 \in 1..Deltas[c]
    <3>1. count[c] \in Nat /\ count[c] <= Deltas[c]
      BY <1>1 DEF StoreTypeOK
    <3> QED BY <1>1, <1>7, <3>1 DEF Delta
  <2>3. <<<<c, read[c] + 1>>>> \in Texts
    BY <1>1, <2>2, TextFacts
  <2>4. Rewrote(c, list, list')
    BY <1>1, <2>1, <2>2, <2>3, OwnTextFacts, ChunkOwn
  <2>5. \A d \in Sends \ aborted' : pc'[d] \in {"auth", "fetching"} =>
            d # c /\ d \notin aborted /\ pc[d] \in {"auth", "fetching"}
    BY <2>1
  <2> QED BY <1>1, <2>1, <2>4, <2>5, KeepsOwn
<1>8. CASE Done(c)
  BY <1>3, <1>8, AfterStreamOwn DEF Done
<1>9. CASE StreamError(c)
  <2>1. Rewrote(c, list, Chunk(c, Notice("failed")))
    BY <1>1, TextFacts, OwnTextFacts, ChunkOwn
  <2>2. pc' = [pc EXCEPT ![c] = "done"] /\ UNCHANGED <<aborted, polled, adopted>>
    BY <1>9 DEF StreamError, Finish
  <2>3. CASE list' = CaughtIn(c, Chunk(c, Notice("failed")), c \in aborted)
    BY <2>1, <2>2, <2>3, CaughtStageOwn
  <2>4. CASE list' = CaughtIn(c, list, c \in aborted)
    BY <1>2, <2>2, <2>4, CaughtStageOwn
  <2> QED BY <1>9, <2>3, <2>4 DEF StreamError
<1>10. CASE StreamCloses(c)
  <2>1. CASE pc' = [pc EXCEPT ![c] = "late"] /\ UNCHANGED <<list, polled>>
    <3>1. UNCHANGED <<aborted, adopted>>
      BY <1>10 DEF StreamCloses
    <3> QED BY <1>1, <1>2, <2>1, <3>1, StageOwn
  <2>2. CASE AfterStream(c, list)
    BY <1>2, <1>10, <2>2, AfterStreamOwn DEF StreamCloses
  <2> QED BY <1>10, <2>1, <2>2 DEF StreamCloses
<1>11. CASE LateReply(c)
  <2>1. CASE AfterStream(c, Appended(c)) /\ UNCHANGED <<aborted, adopted>>
    BY <1>1, <2>1, AppendedOwn, AfterStreamOwn
  <2>2. CASE AfterStream(c, list) /\ UNCHANGED <<aborted, adopted>>
    BY <1>2, <2>2, AfterStreamOwn
  <2>3. CASE Caught(c)
    BY <1>2, <2>3, CaughtStageOwn DEF Caught, Finish
  <2> QED BY <1>11, <2>1, <2>2, <2>3 DEF LateReply, WithId, Appended
<1>12. CASE FallbackReply(c)
  <2>1. pc' = [pc EXCEPT ![c] = "done"] /\ UNCHANGED <<aborted, polled, adopted>>
    BY <1>12 DEF FallbackReply, Finish
  <2>2. CASE polled[c] \in Runs /\ list' = Settled(c, Filled(c, polled[c]))
    <3>1. polled[c] = c
      BY <1>1, <2>2, ClientIdsAssumption
    <3>2. Rewrote(c, list, Filled(c, c))
      BY <1>1, FilledOwn
    <3>3. Filled(c, c) \in Seq(Messages) /\ OwnList(Filled(c, c))
      BY <1>1, <3>2, RewroteOwn DEF Rewrote
    <3>4. Rewrote(c, list, list')
      BY <1>1, <2>2, <3>1, <3>2, <3>3, SettledOwn, RewroteTwice
    <3> QED BY <1>1, <2>1, <3>4, StageOwn
  <2>3. CASE list' = Settled(c, list)
    <3>1. Rewrote(c, list, list')
      BY <1>1, <2>3, SettledOwn
    <3> QED BY <1>1, <2>1, <3>1, StageOwn
  <2> QED BY <1>12, <2>2, <2>3 DEF FallbackReply, WithId, Filled
<1> QED BY <1>4, <1>5, <1>6, <1>7, <1>8, <1>9, <1>10, <1>11, <1>12 DEF SendStep


\* The list behind an abort is rewritten for the send that the abort ends.
LEMMA AfterCutOwn ==
    ASSUME active \in Sends \cup {NoSend}, NEW l \in Seq(Messages), OwnList(l)
    PROVE  /\ Cut = {} => AfterCut(l) = l
           /\ Cut # {} => active \in Sends /\ Rewrote(active, l, AfterCut(l))
<1>1. ASSUME Cut # {} PROVE active \in Sends
  BY <1>1, CutFacts
<1>2. ASSUME Cut # {} PROVE AfterCut(l) \in {CaughtIn(active, l, TRUE), Settled(active, l)}
  BY <1>2 DEF AfterCut
<1> QED BY <1>1, <1>2, SettledOwn, CaughtOwn DEF AfterCut

LEMMA StopOwn ==
    ASSUME StoreTypeOK, OwnState, StopStream
    PROVE  OwnState'
<1>1. /\ list \in Seq(Messages) /\ OwnList(list) /\ active \in Sends /\ active \in Runs
      /\ \A d \in Sends : polled[d] \in {d, ClientId(d)}
  BY DEF StoreTypeOK, OwnState, StopStream, Runs
<1>2. /\ \A d \in Sends : pc'[d] = IF d \in Cut THEN "done" ELSE pc[d]
      /\ aborted' = aborted \cup {active} /\ list' = AfterCut(list)
      /\ UNCHANGED <<polled, adopted>>
  BY DEF StopStream
<1>3. \A d \in Sends : pc'[d] = "idle" => pc[d] = "idle"
  BY <1>2
<1>4. \A d \in Sends \ aborted' : pc'[d] \in {"auth", "fetching"} =>
          d # active /\ d \notin aborted /\ pc[d] \in {"auth", "fetching"}
  BY <1>2
<1>5. Rewrote(active, list, list')
  BY <1>1, <1>2, AfterCutOwn, RewroteItself
<1> QED BY <1>1, <1>2, <1>3, <1>4, <1>5, KeepsOwn

LEMMA SendMessageOwn ==
    ASSUME StoreTypeOK, StopReaches', OwnState, NEW c \in Sends, SendMessage(c)
    PROVE  OwnState'
<1> DEFINE m == Message(Bubble(c), ClientId(c), "streaming", "running", <<>>)
           l == Append(list, m)
<1>1. /\ list \in Seq(Messages) /\ OwnList(list) /\ active \in Sends \cup {NoSend}
      /\ c \in Runs /\ Sends \subseteq Runs /\ pc[c] = "idle"
      /\ \A d \in Sends : polled[d] \in {d, ClientId(d)}
      /\ NotBeforeSent(list, pc)
  BY DEF StoreTypeOK, OwnState, SendMessage, Runs
<1>2. /\ \A d \in Sends : pc'[d] = IF d = c THEN "auth" ELSE IF d \in Cut THEN "done" ELSE pc[d]
      /\ list' = AfterCut(l) /\ active' = c
      /\ UNCHANGED <<polled, adopted>>
  BY DEF SendMessage
<1>3. m \in Messages /\ m.id = Bubble(c) /\ m.run = ClientId(c) /\ m.text = <<>> /\ InFlight(m)
  BY TextFacts DEF Message, Messages, RunIds, InFlight
<1> HIDE DEF m
<1>4. /\ l \in Seq(Messages)
      /\ DOMAIN list = 1..Len(list) /\ Len(list) \in Nat
      /\ DOMAIN l = 1..(Len(list) + 1)
      /\ l[Len(list) + 1] = m
      /\ \A i \in 1..Len(list) : l[i] = list[i] /\ i \in DOMAIN l
      /\ \A i \in DOMAIN l : i \in 1..Len(list) \/ i = Len(list) + 1
  BY <1>1, <1>3
<1> HIDE DEF l
<1>5. OwnMessage(m)
  <2>1. OwnText(c, m.text)
    BY <1>3, OwnTextFacts
  <2>2. \A d \in Sends : m.id = Bubble(d) => d = c
    BY <1>1, <1>3, IdFacts
  <2>3. \A r \in Runs : m.id \notin {<<"evt", r>>, <<"row", r>>}
    BY <1>1, <1>3, IdFacts
  <2> QED BY <1>3, <2>1, <2>2, <2>3 DEF OwnMessage
<1>6. OwnList(l)
  <2>1. \A i \in DOMAIN list : list[i].id # Bubble(c)
    BY <1>1 DEF NotBeforeSent
  <2>2. UniqueIds(l)
    <3> SUFFICES ASSUME NEW i \in DOMAIN l, NEW j \in DOMAIN l, l[i].id = l[j].id
                 PROVE  i = j
      BY DEF UniqueIds
    <3>1. CASE i \in 1..Len(list) /\ j \in 1..Len(list)
      BY <1>1, <1>4, <3>1 DEF OwnList, UniqueIds
    <3>2. CASE i \in 1..Len(list) /\ j = Len(list) + 1
      BY <1>3, <1>4, <2>1, <3>2
    <3>3. CASE i = Len(list) + 1 /\ j \in 1..Len(list)
      BY <1>3, <1>4, <2>1, <3>3
    <3> QED BY <1>4, <3>1, <3>2, <3>3
  <2>3. \A i \in DOMAIN l : OwnMessage(l[i])
    BY <1>1, <1>4, <1>5 DEF OwnList
  <2> QED BY <2>2, <2>3 DEF OwnList
<1>7. /\ \A r \in Runs : HasRun(list, r) => HasRun(l, r)
      /\ LastInFlight(l, c)
      /\ NotBeforeSent(l, pc')
  <2>1. \A r \in Runs : HasRun(list, r) => HasRun(l, r)
    BY <1>4 DEF HasRun
  <2>2. LastInFlight(l, c)
    <3>1. Len(list) + 1 \in DOMAIN l /\ l[Len(list) + 1].id = Bubble(c) /\ InFlight(l[Len(list) + 1])
      BY <1>3, <1>4
    <3>2. \A j \in DOMAIN l : ~(Len(list) + 1 < j)
      BY <1>4
    <3> QED BY <3>1, <3>2 DEF LastInFlight
  <2>3. NotBeforeSent(l, pc')
    <3> SUFFICES ASSUME NEW i \in DOMAIN l, NEW d \in Sends, l[i].id = Bubble(d), d # c
                 PROVE  pc'[d] # "idle"
      BY <1>2 DEF NotBeforeSent
    <3>1. i \in DOMAIN list /\ list[i].id = Bubble(d)
      BY <1>1, <1>3, <1>4, IdFacts
    <3> QED BY <1>1, <1>2, <3>1 DEF NotBeforeSent
  <2> QED BY <2>1, <2>2, <2>3
<1>8. /\ OwnList(list')
      /\ \A r \in Runs : HasRun(l, r) => HasRun(list', r)
      /\ LastInFlight(list', c)
      /\ NotBeforeSent(list', pc')
  <2>1. CASE Cut = {}
    <3>1. list' = l
      BY <1>1, <1>2, <1>4, <1>6, <2>1, AfterCutOwn
    <3> QED BY <1>6, <1>7, <3>1
  <2>2. CASE Cut # {}
    <3>1. active \in Sends /\ active \in Runs /\ Rewrote(active, l, list')
      BY <1>1, <1>2, <1>4, <1>6, <2>2, AfterCutOwn
    <3>2. active # c
      BY <1>1, <2>2, CutFacts
    <3> QED BY <1>4, <1>6, <1>7, <3>1, <3>2, RewroteOwn
  <2> QED BY <2>1, <2>2
<1>9. \A d \in adopted' : HasRun(list', d)
  <2>1. adopted \subseteq Runs
    BY <1>1 DEF StoreTypeOK
  <2> QED BY <1>2, <1>7, <1>8, <2>1 DEF OwnState
<1>10. ASSUME NEW d \in Sends \ aborted', pc'[d] \in {"auth", "fetching"} PROVE Finds(list', d)
  <2>1. d = c
    BY <1>2, <1>10 DEF StopReaches, Live
  <2> QED BY <1>8, <2>1 DEF Finds
<1> QED BY <1>1, <1>2, <1>8, <1>9, <1>10 DEF OwnState


\* A set of places that is not empty has a first one.
LEMMA FirstPlace ==
    ASSUME NEW S \in SUBSET Nat, S # {}
    PROVE  \E x \in S : \A y \in S : x <= y
<1>1. PICK x \in S : \A y \in S : ~(<<y, x>> \in OpToRel(<, Nat))
  BY WFMin, NatLessThanWellFounded
<1>2. \A y \in S : ~(y < x)
  BY <1>1 DEF OpToRel
<1> QED BY <1>2

\* One message of run d replaced by one that shows what is its own.
LEMMA ReplaceOwn ==
    ASSUME NEW l \in Seq(Messages), OwnList(l), NEW d, NEW k \in 1..Len(l),
           l[k].id \in IdsOf(d),
           NEW m \in Messages, OwnMessage(m), m.id = l[k].id, m.run \in {l[k].run, d},
           InFlight(m) => InFlight(l[k])
    PROVE  Rewrote(d, l, [l EXCEPT ![k] = m])
<1> DEFINE s == [l EXCEPT ![k] = m]
<1>1. DOMAIN l = 1..Len(l) /\ \A i \in 1..Len(l) : l[i] \in Messages /\ OwnMessage(l[i])
  BY DEF OwnList
<1>2. \A i \in 1..Len(l) : s[i] = IF i = k THEN m ELSE l[i]
  BY <1>1
<1>3. s \in Seq(Messages) /\ Len(s) = Len(l)
  OBVIOUS
<1> HIDE DEF s
<1>4. ASSUME NEW i \in 1..Len(l)
      PROVE  /\ s[i].id = l[i].id
             /\ l[i].id \notin IdsOf(d) => s[i] = l[i]
             /\ OwnMessage(s[i])
             /\ s[i].run \in {l[i].run, d}
             /\ InFlight(s[i]) => InFlight(l[i])
  <2>1. CASE i = k
    <3>1. s[i] = m
      BY <1>2, <2>1
    <3> QED BY <2>1, <3>1
  <2>2. CASE i # k
    <3>1. s[i] = l[i]
      BY <1>2, <2>2
    <3> QED BY <1>1, <3>1
  <2> QED BY <2>1, <2>2
<1> QED BY <1>3, <1>4 DEF Rewrote, s

\* A message of run r that shows r and no other text: an own message.
LEMMA ShownOwn ==
    ASSUME NEW m, NEW r \in Runs, m.id \in IdsOf(r), m.run = r,
           m.id = Bubble(r) => OwnText(r, m.text)
    PROVE  OwnMessage(m)
<1>1. ASSUME NEW c \in Sends, m.id = Bubble(c) PROVE c = r
  <2>1. c \in Runs
    BY DEF Runs
  <2> QED BY <1>1, <2>1, IdFacts DEF IdsOf
<1>2. \A x \in Runs : m.id \in {<<"evt", x>>, <<"row", x>>} => x = r
  BY IdFacts DEF IdsOf
<1> QED BY <1>1, <1>2 DEF OwnMessage

LEMMA AdoptedOwn ==
    ASSUME list \in Seq(Messages), OwnList(list), NEW r \in Sends, Finds(list, r)
    PROVE  Rewrote(r, list, Adopted(r)) /\ HasRun(Adopted(r), r)
<1> DEFINE inFlight == {i \in DOMAIN list : InFlight(list[i])}
           last == CHOOSE i \in inFlight : \A j \in inFlight : j <= i
<1>0. r \in Runs
  BY DEF Runs
<1>1. CASE HasRun(list, r)
  <2>1. Adopted(r) = list
    BY <1>1 DEF Adopted, HasRun
  <2> QED BY <1>1, <2>1, RewroteItself
<1>2. CASE ~HasRun(list, r)
  <2>1. PICK i \in DOMAIN list : /\ list[i].id = Bubble(r)
                                 /\ InFlight(list[i])
                                 /\ \A j \in DOMAIN list : i < j => ~InFlight(list[j])
    BY <1>2 DEF Finds, LastInFlight
  <2>2. DOMAIN list = 1..Len(list) /\ Len(list) \in Nat
    OBVIOUS
  <2>3. last = i
    <3>1. i \in inFlight /\ \A j \in inFlight : j <= i
      BY <2>1, <2>2
    <3>2. last \in inFlight /\ \A j \in inFlight : j <= last
      BY <3>1
    <3>3. inFlight \subseteq Nat
      BY <2>2
    <3> HIDE DEF inFlight, last
    <3> QED BY <3>1, <3>2, <3>3
  <2> DEFINE m == [list[i] EXCEPT !.run = r]
  <2>4. Adopted(r) = [list EXCEPT ![i] = m]
    <3>1. inFlight # {}
      BY <2>1
    <3> QED BY <1>2, <2>3, <3>1 DEF Adopted, HasRun
  <2> HIDE DEF inFlight, last
  <2>5. list[i] \in Messages /\ OwnMessage(list[i])
    BY <2>1 DEF OwnList
  <2>6. m \in Messages /\ m.id = list[i].id /\ m.run = r /\ m.text = list[i].text
        /\ (InFlight(m) <=> InFlight(list[i]))
    BY <1>0, <2>5 DEF Messages, InFlight, RunIds
  <2> HIDE DEF m
  <2>7. list[i].id \in IdsOf(r)
    BY <2>1 DEF IdsOf
  <2>8. OwnText(r, list[i].text)
    BY <2>1, <2>5 DEF OwnMessage
  <2>9. OwnMessage(m)
    BY <1>0, <2>5, <2>6, <2>7, <2>8, ShownOwn
  <2>10. Rewrote(r, list, [list EXCEPT ![i] = m])
    BY <2>1, <2>2, <2>6, <2>7, <2>9, ReplaceOwn
  <2>11. HasRun([list EXCEPT ![i] = m], r)
    <3>1. i \in DOMAIN [list EXCEPT ![i] = m] /\ [list EXCEPT ![i] = m][i] = m
      BY <2>1
    <3> QED BY <2>6, <3>1 DEF HasRun
  <2> QED BY <2>4, <2>10, <2>11
<1> QED BY <1>1, <1>2

LEMMA OnTextOwn ==
    ASSUME list \in Seq(Messages), OwnList(list), NEW r \in Sends, Finds(list, r),
           NEW text \in Texts, OwnText(r, text), NEW isCompleted \in BOOLEAN,
           OnText(r, text, isCompleted)
    PROVE  Rewrote(r, list, list') /\ HasRun(list', r)
<1> DEFINE l == Adopted(r)
           ofRun == {i \in DOMAIN l : l[i].run = r}
           first == CHOOSE i \in ofRun : \A j \in ofRun : i <= j
           shown == [l EXCEPT ![first].text = IF @ = <<>> THEN text ELSE @]
<1>0. r \in Runs
  BY DEF Runs
<1>1. Rewrote(r, list, l) /\ HasRun(l, r)
  BY AdoptedOwn
<1>2. l \in Seq(Messages) /\ OwnList(l)
  BY <1>0, <1>1, RewroteOwn DEF Rewrote
<1>3. list' = IF ofRun = {}
              THEN Append(l, Message(<<"evt", r>>, r, "sent",
                                     IF isCompleted THEN "completed" ELSE "running", text))
              ELSE IF isCompleted
              THEN [shown EXCEPT ![first].status = "sent", ![first].runStatus = "completed"]
              ELSE shown
  BY DEF OnText
<1> HIDE DEF l
<1>4. ofRun # {} /\ ofRun \in SUBSET Nat
  BY <1>1, <1>2 DEF HasRun
<1>5. first \in ofRun
  <2> HIDE DEF ofRun
  <2>1. \E i \in ofRun : \A j \in ofRun : i <= j
    BY <1>4, FirstPlace
  <2> QED BY <2>1
<1>6. first \in 1..Len(l) /\ l[first].run = r
  BY <1>2, <1>5
<1> HIDE DEF ofRun, first
<1> DEFINE t == IF l[first].text = <<>> THEN text ELSE l[first].text
           m1 == [l[first] EXCEPT !.text = t]
           m2 == [l[first] EXCEPT !.text = t, !.status = "sent", !.runStatus = "completed"]
<1>7. list' \in {[l EXCEPT ![first] = m1], [l EXCEPT ![first] = m2]}
  <2>1. shown = [l EXCEPT ![first] = m1] /\ shown[first] = m1
    BY <1>2, <1>6
  <2>2. [shown EXCEPT ![first].status = "sent", ![first].runStatus = "completed"]
            = [l EXCEPT ![first] = m2]
    BY <1>2, <1>6, <2>1
  <2> QED BY <1>3, <1>4, <2>1, <2>2
<1>8. l[first] \in Messages /\ l[first].text \in Texts /\ OwnMessage(l[first])
  BY <1>2, <1>6, MessageFacts DEF OwnList
<1>9. l[first].id \in IdsOf(r)
  BY <1>0, <1>6, <1>8, OwnerOfMessage
<1>10. t \in Texts
  BY <1>8
<1>11. l[first].id = Bubble(r) => OwnText(r, t)
  BY <1>8 DEF OwnMessage
<1> HIDE DEF t
<1>12. /\ m1 \in Messages /\ m2 \in Messages
       /\ m1.id = l[first].id /\ m2.id = l[first].id
       /\ m1.run = r /\ m2.run = r /\ m1.text = t /\ m2.text = t
       /\ (InFlight(m1) => InFlight(l[first])) /\ ~InFlight(m2)
  BY <1>6, <1>8, <1>10 DEF Messages, InFlight
<1> HIDE DEF m1, m2
<1>13. ASSUME NEW m \in {m1, m2}
       PROVE  Rewrote(r, l, [l EXCEPT ![first] = m]) /\ HasRun([l EXCEPT ![first] = m], r)
  <2>1. m \in Messages /\ m.id = l[first].id /\ m.run = r /\ m.text = t
        /\ (InFlight(m) => InFlight(l[first]))
    BY <1>12
  <2>2. OwnMessage(m)
    BY <1>0, <1>9, <1>11, <2>1, ShownOwn
  <2>3. Rewrote(r, l, [l EXCEPT ![first] = m])
    BY <1>2, <1>6, <1>9, <2>1, <2>2, ReplaceOwn
  <2>4. first \in DOMAIN [l EXCEPT ![first] = m] /\ [l EXCEPT ![first] = m][first] = m
    BY <1>2, <1>6
  <2> QED BY <2>1, <2>3, <2>4 DEF HasRun
<1>14. Rewrote(r, l, list') /\ HasRun(list', r)
  BY <1>7, <1>13
<1> QED BY <1>1, <1>14, RewroteTwice


LEMMA OnFailedOwn ==
    ASSUME list \in Seq(Messages), OwnList(list), NEW r \in Runs, OnFailed(r)
    PROVE  /\ Rewrote(r, list, list')
           /\ Finds(list, r) => Finds(list', r)
<1>1. list' = [i \in DOMAIN list |->
           IF list[i].run # r THEN list[i]
           ELSE [list[i] EXCEPT !.status = "failed", !.runStatus = "failed",
                                !.text = IF @ = <<>> THEN Notice("failed") ELSE @]]
  BY DEF OnFailed
<1>2. DOMAIN list = 1..Len(list) /\ \A i \in 1..Len(list) : list[i] \in Messages /\ OwnMessage(list[i])
  BY DEF OwnList
<1>3. ASSUME NEW i \in 1..Len(list)
      PROVE  /\ list'[i] \in Messages
             /\ list'[i].id = list[i].id
             /\ list[i].id \notin IdsOf(r) => list'[i] = list[i]
             /\ OwnMessage(list'[i])
             /\ list'[i].run = list[i].run
             /\ InFlight(list'[i]) => InFlight(list[i])
             /\ list[i].run # r => list'[i] = list[i]
  <2>1. CASE list[i].run # r
    <3>1. list'[i] = list[i]
      BY <1>1, <1>2, <2>1
    <3> QED BY <1>2, <2>1, <3>1
  <2>2. CASE list[i].run = r
    <3> DEFINE t == IF list[i].text = <<>> THEN Notice("failed") ELSE list[i].text
    <3>1. list'[i] = [list[i] EXCEPT !.status = "failed", !.runStatus = "failed", !.text = t]
      BY <1>1, <1>2, <2>2
    <3>2. t \in Texts
      BY MessageFacts, TextFacts
    <3>3. list[i].id \in IdsOf(r)
      BY <1>2, <2>2, OwnerOfMessage
    <3>4. list[i].id = Bubble(r) => OwnText(r, t)
      <4>1. ASSUME list[i].id = Bubble(r) PROVE r \in Sends
        <5>1. list[i].id \in {Bubble(c) : c \in Sends} \cup ({"evt", "row"} \X Runs)
          BY <1>2 DEF Messages
        <5> QED BY <4>1, <5>1 DEF Bubble
      <4> QED BY <1>2, <4>1, OwnTextFacts DEF OwnMessage
    <3> HIDE DEF t
    <3>5. list'[i] \in Messages /\ list'[i].id = list[i].id /\ list'[i].text = t
          /\ list'[i].run = list[i].run /\ ~InFlight(list'[i])
      BY <1>2, <3>1, <3>2 DEF Messages, InFlight
    <3>6. OwnMessage(list'[i])
      BY <2>2, <3>3, <3>4, <3>5, ShownOwn
    <3> QED BY <2>2, <3>3, <3>5, <3>6
  <2> QED BY <2>1, <2>2
<1>4. list' \in [DOMAIN list -> Messages]
  BY <1>1, <1>2, <1>3
<1>5. list' \in Seq(Messages) /\ Len(list') = Len(list) /\ DOMAIN list' = 1..Len(list)
  BY <1>4, SameLength
<1>6. Rewrote(r, list, list')
  BY <1>3, <1>5 DEF Rewrote
<1>7. ASSUME HasRun(list, r) PROVE HasRun(list', r)
  BY <1>2, <1>3, <1>5, <1>7 DEF HasRun
<1>8. ASSUME ~HasRun(list, r), LastInFlight(list, r) PROVE LastInFlight(list', r)
  <2>1. \A i \in 1..Len(list) : list'[i] = list[i]
    BY <1>2, <1>3, <1>8 DEF HasRun
  <2> QED BY <1>2, <1>5, <1>8, <2>1 DEF LastInFlight
<1> QED BY <1>6, <1>7, <1>8 DEF Finds

\* A frame finds a message of its run: the run has answered, so that its request
\* has left, and either it is known or its bubble is the last in flight.
LEMMA WsFrameOwn ==
    ASSUME StoreTypeOK, Orderly, Undisturbed, OwnState, NEW r \in Runs, WsFrame(r)
    PROVE  OwnState'
<1>1. /\ list \in Seq(Messages) /\ OwnList(list)
      /\ \A d \in Sends : polled[d] \in {d, ClientId(d)}
      /\ frames[r] \in Nat /\ count[r] \in Nat /\ count[r] <= Deltas[r] /\ Deltas[r] \in Nat
  BY DEF StoreTypeOK, OwnState
<1>2. UNCHANGED <<aborted, pc, polled, adopted>>
  BY DEF WsFrame, sendVars
<1>3. ASSUME Rewrote(r, list, list'),
             r \in Sends => (Finds(list, r) => Finds(list', r))
      PROVE  OwnState'
  <2>1. \A d \in Sends \ aborted' : pc'[d] \in {"auth", "fetching"} =>
            \/ d # r /\ d \notin aborted /\ pc[d] \in {"auth", "fetching"}
            \/ Finds(list', d)
    BY <1>2, <1>3 DEF OwnState
  <2> QED BY <1>1, <1>2, <1>3, <2>1, KeepsOwn
<1>4. CASE UNCHANGED list
  BY <1>1, <1>3, <1>4, RewroteItself
<1>5. CASE OnFailed(r)
  BY <1>1, <1>3, <1>5, OnFailedOwn
<1>6. ASSUME NEW text \in Texts, NEW b \in BOOLEAN, OnText(r, text, b),
             r \in Sends => OwnText(r, text),
             count[r] > 0 \/ end[r] = "completed"
      PROVE  OwnState'
  <2>1. r \in Sends
    BY <1>6 DEF Undisturbed, Runs
  <2>2. r \in posted
    BY <1>6, <2>1 DEF Orderly
  <2>3. CASE r \in adopted
    <3>1. Finds(list, r)
      BY <2>3 DEF OwnState, Finds
    <3>2. Rewrote(r, list, list') /\ HasRun(list', r)
      BY <1>1, <1>6, <2>1, <3>1, OnTextOwn
    <3> QED BY <1>3, <3>2 DEF Finds
  <2>4. CASE r \notin adopted
    <3>1. pc[r] = "fetching" /\ r \notin aborted
      BY <2>2, <2>4 DEF Undisturbed, Orderly
    <3>2. Finds(list, r)
      BY <2>1, <3>1 DEF OwnState
    <3>3. Rewrote(r, list, list') /\ HasRun(list', r)
      BY <1>1, <1>6, <2>1, <3>2, OnTextOwn
    <3> QED BY <1>3, <3>3 DEF Finds
  <2> QED BY <2>3, <2>4
<1>7. CASE frames[r] < count[r] /\ OnText(r, <<<<r, frames[r] + 1>>>>, FALSE)
  <2>1. frames[r] + 1 \in 1..Deltas[r] /\ count[r] > 0
    BY <1>1, <1>7
  <2>2. <<<<r, frames[r] + 1>>>> \in Texts
    BY <2>1, TextFacts
  <2>3. r \in Sends => OwnText(r, <<<<r, frames[r] + 1>>>>)
    BY <2>1, OwnTextFacts
  <2> QED BY <1>6, <1>7, <2>1, <2>2, <2>3
<1>8. CASE end[r] = "completed" /\ OnText(r, Answer(r), TRUE)
  <2>1. Answer(r) \in Texts
    BY TextFacts
  <2>2. r \in Sends => OwnText(r, Answer(r))
    BY OwnTextFacts
  <2> QED BY <1>6, <1>8, <2>1, <2>2
<1> QED BY <1>4, <1>5, <1>7, <1>8 DEF WsFrame

-----------------------------------------------------------------------------
(* What mergeMessages does to own messages.                                *)

\* What a message appended by mergeMessages is not: one that is shown.
LEMMA TryAddUnique ==
    ASSUME NEW T, NEW l \in Seq(T), NEW m \in T, UniqueIds(l)
    PROVE  UniqueIds(TryAdd(l, m))
<1>1. CASE Shows(l, m)
  BY <1>1 DEF TryAdd, Shows
<1>2. CASE ~Shows(l, m)
  <2>1. TryAdd(l, m) = Append(l, m)
    BY <1>2 DEF TryAdd, Shows
  <2>2. /\ DOMAIN l = 1..Len(l) /\ Len(l) \in Nat
        /\ DOMAIN Append(l, m) = 1..(Len(l) + 1)
        /\ Append(l, m)[Len(l) + 1] = m
        /\ \A j \in 1..Len(l) : Append(l, m)[j] = l[j]
        /\ \A j \in 1..(Len(l) + 1) : j \in 1..Len(l) \/ j = Len(l) + 1
    OBVIOUS
  <2>3. \A j \in 1..Len(l) : l[j].id # m.id
    BY <1>2, <2>2 DEF Shows
  <2> QED BY <2>1, <2>2, <2>3 DEF UniqueIds
<1> QED BY <1>1, <1>2

\* Message m is in l, and nothing behind it is in flight.
LastOf(l, m) == \E j \in DOMAIN l : l[j] = m /\ \A k \in DOMAIN l : j < k => ~InFlight(l[k])

\* Another message of l shows the run and the text of m.
Doubled(l, m) ==
    \E j \in DOMAIN l : l[j].id # m.id /\ l[j].run = m.run /\ l[j].text = m.text

LEMMA TryAddLast ==
    ASSUME NEW T, NEW l \in Seq(T), NEW m \in T, NEW x
    PROVE  /\ Doubled(l, x) => Doubled(TryAdd(l, m), x)
           /\ LastOf(l, x) /\ ~InFlight(m) => LastOf(TryAdd(l, m), x)
<1>1. /\ DOMAIN l = 1..Len(l) /\ Len(l) \in Nat
      /\ DOMAIN Append(l, m) = 1..(Len(l) + 1)
      /\ Append(l, m)[Len(l) + 1] = m
      /\ \A j \in 1..Len(l) : Append(l, m)[j] = l[j] /\ j \in 1..(Len(l) + 1)
      /\ Len(l) + 1 \in 1..(Len(l) + 1)
      /\ \A j \in 1..(Len(l) + 1) : j \in 1..Len(l) \/ j = Len(l) + 1
      /\ \A j \in 1..(Len(l) + 1) : ~(Len(l) + 1 < j)
  OBVIOUS
<1>2. TryAdd(l, m) \in {l, Append(l, m)}
  BY DEF TryAdd
<1>3. Doubled(l, x) => Doubled(Append(l, m), x)
  BY <1>1 DEF Doubled
<1>4. LastOf(l, x) /\ ~InFlight(m) => LastOf(Append(l, m), x)
  BY <1>1 DEF LastOf
<1> QED BY <1>2, <1>3, <1>4

LEMMA TryAddNew ==
    ASSUME NEW T, NEW l \in Seq(T), NEW m \in T, \A j \in DOMAIN l : l[j].id # m.id
    PROVE  LastOf(TryAdd(l, m), m) \/ Doubled(TryAdd(l, m), m)
<1>1. CASE Shows(l, m)
  <2>1. TryAdd(l, m) = l
    BY <1>1 DEF TryAdd, Shows
  <2>2. Doubled(l, m)
    BY <1>1 DEF Shows, Doubled
  <2> QED BY <2>1, <2>2
<1>2. CASE ~Shows(l, m)
  <2>1. TryAdd(l, m) = Append(l, m)
    BY <1>2 DEF TryAdd, Shows
  <2>2. /\ DOMAIN Append(l, m) = 1..(Len(l) + 1) /\ Len(l) \in Nat
        /\ Append(l, m)[Len(l) + 1] = m
    OBVIOUS
  <2>3. LastOf(Append(l, m), m)
    BY <2>2 DEF LastOf
  <2> QED BY <2>1, <2>3
<1> QED BY <1>1, <1>2


LEMMA MergeKeepsLast ==
    ASSUME NEW T, NEW history \in Seq(T), NEW current \in Seq(T),
           UniqueIds(history), UniqueIds(current)
    PROVE  /\ UniqueIds(MergeMessages(history, current))
           /\ \A i \in 1..Len(current) :
                  /\ \A k \in DOMAIN history : history[k].id # current[i].id
                  /\ \A k \in 1..Len(current) : i < k => ~InFlight(current[k])
                  => \/ LastOf(MergeMessages(history, current), current[i])
                     \/ Doubled(MergeMessages(history, current), current[i])
<1> DEFINE L == Len(current)
           Closes(i) == /\ \A k \in DOMAIN history : history[k].id # current[i].id
                        /\ \A k \in 1..L : i < k => ~InFlight(current[k])
           Kept(l, i) == LastOf(l, current[i]) \/ Doubled(l, current[i])
<1>1. L \in Nat /\ DOMAIN current = 1..L /\ \A i \in 1..L : current[i] \in T
  OBVIOUS
<1>2. PICK g : Merging(history, current, g) /\ MergeMessages(history, current) = g[L]
  BY MergeLoop
<1>3. \A k \in 0..L : g[k] = IF k = 0 THEN history ELSE TryAdd(g[k - 1], current[k])
  BY <1>2 DEF Merging
<1> DEFINE Good(n) == /\ g[n] \in Seq(T)
                      /\ FromBoth(history, current, n, g[n])
                      /\ UniqueIds(g[n])
                      /\ \A i \in 1..n : Closes(i) => Kept(g[n], i)
           S == {n \in 0..L : Good(n)}
<1> HIDE DEF Closes, Kept
<1>4. 0 \in S
  <2>1. g[0] = history
    BY <1>1, <1>3
  <2> QED BY <1>1, <2>1 DEF FromBoth
<1>5. ASSUME NEW n \in 0..L, n \in S, n + 1 \in 0..L PROVE n + 1 \in S
  <2>1. g[n + 1] = TryAdd(g[n], current[n + 1])
    BY <1>3, <1>5
  <2>2. current[n + 1] \in T /\ g[n] \in Seq(T) /\ UniqueIds(g[n]) /\ n + 1 \in 1..L
    BY <1>1, <1>5
  <2>3. g[n + 1] \in Seq(T) /\ UniqueIds(g[n + 1])
    BY <2>1, <2>2, TryAddShows, TryAddUnique
  <2>4. FromBoth(history, current, n + 1, g[n + 1])
    <3>1. \A j \in DOMAIN g[n + 1] : \/ j \in DOMAIN g[n] /\ g[n + 1][j] = g[n][j]
                                     \/ g[n + 1][j] = current[n + 1]
      BY <2>1, <2>2, TryAddShows
    <3>2. FromBoth(history, current, n, g[n])
      BY <1>5
    <3>3. 1..n \subseteq 1..(n + 1) /\ n + 1 \in 1..(n + 1)
      BY <1>5
    <3> QED BY <3>1, <3>2, <3>3 DEF FromBoth
  <2>5. \A i \in 1..(n + 1) : Closes(i) => Kept(g[n + 1], i)
    <3> SUFFICES ASSUME NEW i \in 1..(n + 1), Closes(i) PROVE Kept(g[n + 1], i)
      OBVIOUS
    <3>1. CASE i = n + 1
      <4>1. \A j \in DOMAIN g[n] : g[n][j].id # current[n + 1].id
        <5>1. \A j \in DOMAIN g[n] : \/ \E k \in DOMAIN history : g[n][j] = history[k]
                                     \/ \E k \in 1..n : g[n][j] = current[k]
          BY <1>5 DEF FromBoth
        <5>2. \A k \in DOMAIN history : history[k].id # current[n + 1].id
          BY <3>1 DEF Closes
        <5>3. \A k \in 1..n : current[k].id # current[n + 1].id
          <6>1. \A k \in 1..n : k \in 1..L /\ k # n + 1
            BY <1>1, <1>5
          <6> QED BY <1>1, <2>2, <6>1 DEF UniqueIds
        <5> QED BY <5>1, <5>2, <5>3
      <4>2. LastOf(g[n + 1], current[n + 1]) \/ Doubled(g[n + 1], current[n + 1])
        BY <2>1, <2>2, <4>1, TryAddNew
      <4> QED BY <3>1, <4>2 DEF Kept
    <3>2. CASE i # n + 1
      <4>1. i \in 1..n /\ i < n + 1
        BY <3>2, <1>5
      <4>2. ~InFlight(current[n + 1])
        BY <2>2, <4>1 DEF Closes
      <4>3. Kept(g[n], i)
        BY <1>5, <4>1
      <4> QED BY <2>1, <2>2, <4>2, <4>3, TryAddLast DEF Kept
    <3> QED BY <3>1, <3>2
  <2> QED BY <1>5, <2>3, <2>4, <2>5
<1>6. L \in S
  <2>1. \A n \in 0..L : n \in S /\ n + 1 \in 0..L => n + 1 \in S
    BY <1>5
  <2> HIDE DEF S
  <2>2. 0..L \subseteq S
    BY <1>1, <1>4, <2>1, UpTo, Zenon
  <2> QED BY <1>1, <2>2
<1>7. UniqueIds(g[L]) /\ \A i \in 1..L : Closes(i) => Kept(g[L], i)
  BY <1>6
<1> QED BY <1>2, <1>7 DEF Closes, Kept

\* A history merged into a list of own messages: it brings no bubble, and what
\* shows a run, or is found by its frames, still does.
LEMMA MergeOwn ==
    ASSUME NEW h, IsHistory(h), list \in Seq(Messages), OwnList(list),
           list' = MergeMessages(h, list)
    PROVE  /\ OwnList(list')
           /\ \A r \in Runs : HasRun(list, r) => HasRun(list', r)
           /\ \A c \in Sends : LastInFlight(list, c) => Finds(list', c)
           /\ NotBeforeSent(list, pc) => NotBeforeSent(list', pc)
<1>0. Sends \subseteq Runs
  BY DEF Runs
<1>1. h \in Seq(Messages) /\ UniqueIds(h) /\ UniqueIds(list)
  BY DEF IsHistory, UniqueIds, OwnList
<1>2. /\ list' \in Seq(Messages)
      /\ FromBoth(h, list, Len(list), list')
      /\ \A i \in DOMAIN list : Shows(list', list[i])
  BY <1>1, MergeShowsAll
<1>3. \A j \in DOMAIN h : \E r \in Runs : h[j].id = <<"row", r>> /\ h[j].run = r
  BY DEF IsHistory, Message
<1>4. ASSUME NEW j \in DOMAIN list'
      PROVE  \/ \E r \in Runs : list'[j].id = <<"row", r>> /\ list'[j].run = r
             \/ \E i \in DOMAIN list : list'[j] = list[i]
  <2>1. \/ \E i \in DOMAIN h : list'[j] = h[i]
        \/ \E i \in 1..Len(list) : list'[j] = list[i]
    BY <1>2 DEF FromBoth
  <2>2. 1..Len(list) = DOMAIN list
    OBVIOUS
  <2> QED BY <1>3, <2>1, <2>2
<1>5. OwnList(list')
  <2>1. UniqueIds(list')
    BY <1>1, MergeKeepsLast
  <2>2. ASSUME NEW j \in DOMAIN list' PROVE OwnMessage(list'[j])
    <3>1. CASE \E r \in Runs : list'[j].id = <<"row", r>> /\ list'[j].run = r
      <4>1. PICK r \in Runs : list'[j].id = <<"row", r>> /\ list'[j].run = r
        BY <3>1
      <4>2. list'[j].id \in IdsOf(r) /\ list'[j].id # Bubble(r)
        BY <4>1, IdFacts DEF IdsOf
      <4> QED BY <4>1, <4>2, ShownOwn
    <3>2. CASE \E i \in DOMAIN list : list'[j] = list[i]
      BY <3>2 DEF OwnList
    <3> QED BY <1>4, <3>1, <3>2
  <2> QED BY <2>1, <2>2 DEF OwnList
<1>6. ASSUME NEW r \in Runs, HasRun(list, r) PROVE HasRun(list', r)
  <2>1. PICK i \in DOMAIN list : list[i].run = r
    BY <1>6 DEF HasRun
  <2>2. PICK j \in DOMAIN list' : list'[j].id = list[i].id \/ list'[j].run = list[i].run
    BY <1>2 DEF Shows
  <2>3. CASE list'[j].id = list[i].id /\ \E k \in DOMAIN list : list'[j] = list[k]
    <3>1. list'[j] = list[i]
      BY <1>1, <2>3 DEF UniqueIds
    <3> QED BY <2>1, <3>1 DEF HasRun
  <2>4. CASE list'[j].id = list[i].id /\ \E x \in Runs : list'[j].id = <<"row", x>> /\ list'[j].run = x
    <3>1. PICK x \in Runs : list'[j].id = <<"row", x>> /\ list'[j].run = x
      BY <2>4
    <3>2. list[i].run = x
      BY <2>4, <3>1 DEF OwnList, OwnMessage
    <3> QED BY <2>1, <3>1, <3>2 DEF HasRun
  <2>5. CASE list'[j].run = list[i].run
    BY <2>1, <2>5 DEF HasRun
  <2> QED BY <1>4, <2>2, <2>3, <2>4, <2>5
<1>7. ASSUME NEW c \in Sends, LastInFlight(list, c) PROVE Finds(list', c)
  <2>1. PICK i \in DOMAIN list : /\ list[i].id = Bubble(c)
                                 /\ InFlight(list[i])
                                 /\ \A j \in DOMAIN list : i < j => ~InFlight(list[j])
    BY <1>7 DEF LastInFlight
  <2>2. DOMAIN list = 1..Len(list)
    OBVIOUS
  <2>3. \A k \in DOMAIN h : h[k].id # list[i].id
    <3> SUFFICES ASSUME NEW k \in DOMAIN h PROVE h[k].id # Bubble(c)
      BY <2>1
    <3>1. PICK r \in Runs : h[k].id = <<"row", r>>
      BY <1>3
    <3>2. c \in Runs
      BY <1>0
    <3> QED BY <3>1, <3>2, IdFacts
  <2>4. LastOf(list', list[i]) \/ Doubled(list', list[i])
    BY <1>1, <2>1, <2>2, <2>3, MergeKeepsLast
  <2>5. CASE LastOf(list', list[i])
    BY <2>1, <2>5 DEF LastOf, LastInFlight, Finds
  <2>6. CASE Doubled(list', list[i])
    <3>1. PICK j \in DOMAIN list' : list'[j].id # Bubble(c) /\ list'[j].run = list[i].run
      BY <2>1, <2>6 DEF Doubled
    <3>2. list'[j] \in Messages /\ OwnMessage(list'[j])
      BY <1>2, <1>5 DEF OwnList
    <3>3. list'[j].run # ClientId(c)
      BY <3>1, <3>2, OwnerOfMessage
    <3>4. list[i].run \in {c, ClientId(c)}
      BY <2>1 DEF OwnList, OwnMessage
    <3>5. list'[j].run = c
      BY <3>1, <3>3, <3>4
    <3> QED BY <3>5 DEF HasRun, Finds
  <2> QED BY <2>4, <2>5, <2>6
<1>8. ASSUME NotBeforeSent(list, pc) PROVE NotBeforeSent(list', pc)
  <2> SUFFICES ASSUME NEW j \in DOMAIN list', NEW c \in Sends, list'[j].id = Bubble(c)
               PROVE  pc[c] # "idle"
    BY DEF NotBeforeSent
  <2>1. PICK i \in DOMAIN list : list'[j] = list[i]
    BY <1>0, <1>4, IdFacts
  <2> QED BY <1>8, <2>1 DEF NotBeforeSent
<1> QED BY <1>5, <1>6, <1>7, <1>8

LEMMA LoadOwn ==
    ASSUME StoreTypeOK, OwnState, LoadMessages
    PROVE  OwnState'
<1>1. PICK rows \in SUBSET {r \in Runs : end[r] = "completed"} :
          LET order == SetToSeq(rows)
          IN  list' = MergeMessages([i \in DOMAIN order |->
                  Message(<<"row", order[i]>>, order[i], "sent", "completed", Answer(order[i]))],
                  list)
  BY DEF LoadMessages
<1>2. rows \in SUBSET Runs /\ list \in Seq(Messages) /\ OwnList(list)
  BY DEF StoreTypeOK, OwnState
<1>3. \E h : IsHistory(h) /\ list' = MergeMessages(h, list)
  BY <1>1, <1>2, HistoryOfRows
<1>4. /\ OwnList(list')
      /\ \A r \in Runs : HasRun(list, r) => HasRun(list', r)
      /\ \A c \in Sends : LastInFlight(list, c) => Finds(list', c)
      /\ NotBeforeSent(list', pc)
  BY <1>2, <1>3, MergeOwn DEF OwnState
<1>5. UNCHANGED <<aborted, pc, polled, adopted>> /\ Sends \subseteq Runs /\ adopted \subseteq Sends
  BY DEF LoadMessages, sendVars, Runs, StoreTypeOK
<1>6. NotBeforeSent(list', pc')
  BY <1>4, <1>5 DEF NotBeforeSent
<1>7. \A c \in Sends : Finds(list, c) => Finds(list', c)
  BY <1>4, <1>5 DEF Finds
<1> QED BY <1>4, <1>5, <1>6, <1>7 DEF OwnState


-----------------------------------------------------------------------------
(* The stages of a send, and the invariant.                                *)

\* What a step does to the stages: a request leaves, a response comes, sends go
\* further, or the active send is aborted and with it what waits for an answer.
Leaves(c) ==
    /\ pc[c] = "auth" /\ c \notin aborted
    /\ pc' = [pc EXCEPT ![c] = "fetching"]
    /\ posted' = posted \cup {c}
    /\ UNCHANGED <<aborted, adopted>>

Arrives(c) ==
    /\ pc[c] = "fetching"
    /\ pc' = [pc EXCEPT ![c] = "reading"]
    /\ adopted' = adopted \cup {c}
    /\ UNCHANGED <<aborted, posted>>

GoesFurther(c) ==
    /\ \/ pc' = pc
       \/ \E stage \in {"late", "fallback", "done"} : pc' = [pc EXCEPT ![c] = stage]
    /\ UNCHANGED <<aborted, posted, adopted>>

IsAborted ==
    /\ aborted' = aborted \cup ({active} \ {NoSend})
    /\ \A d \in Sends : \/ d \in Cut /\ pc'[d] = "done"
                        \/ d \notin Cut /\ pc'[d] = pc[d]
                        \/ d \notin Cut /\ pc[d] = "idle" /\ pc'[d] = "auth"
    /\ UNCHANGED <<posted, adopted>>

LEMMA SendMoves ==
    ASSUME NEW c \in Sends, SendStep(c), ~SendMessage(c)
    PROVE  Leaves(c) \/ Arrives(c) \/ GoesFurther(c)
<1>1. \A l : AfterStream(c, l) => \E stage \in {"late", "fallback", "done"} :
                                      pc' = [pc EXCEPT ![c] = stage]
  BY DEF AfterStream, Finish
<1>2. CASE Post(c)
  BY <1>2 DEF Post, Leaves
<1>3. CASE Respond(c)
  BY <1>3 DEF Respond, Arrives
<1>4. CASE FetchFails(c)
  BY <1>4 DEF FetchFails, Caught, Finish, GoesFurther
<1>5. CASE Delta(c)
  BY <1>5 DEF Delta, GoesFurther
<1>6. CASE Done(c)
  BY <1>1, <1>6 DEF Done, GoesFurther
<1>7. CASE StreamError(c)
  BY <1>7 DEF StreamError, Finish, GoesFurther
<1>8. CASE StreamCloses(c)
  BY <1>1, <1>8 DEF StreamCloses, GoesFurther
<1>9. CASE LateReply(c)
  BY <1>1, <1>9 DEF LateReply, Caught, Finish, GoesFurther
<1>10. CASE FallbackReply(c)
  BY <1>10 DEF FallbackReply, Finish, GoesFurther
<1> QED BY <1>2, <1>3, <1>4, <1>5, <1>6, <1>7, <1>8, <1>9, <1>10 DEF SendStep

LEMMA AbortMoves ==
    ASSUME StoreTypeOK, StopStream \/ \E c \in Sends : SendMessage(c)
    PROVE  IsAborted /\ UNCHANGED gatewayVars
<1>1. CASE StopStream
  <2>1. aborted' = aborted \cup ({active} \ {NoSend})
    BY <1>1 DEF StopStream
  <2>2. /\ \A d \in Sends : pc'[d] = IF d \in Cut THEN "done" ELSE pc[d]
        /\ UNCHANGED <<posted, adopted, gatewayVars>>
    BY <1>1 DEF StopStream
  <2> QED BY <2>1, <2>2 DEF IsAborted
<1>2. ASSUME NEW c \in Sends, SendMessage(c) PROVE IsAborted /\ UNCHANGED gatewayVars
  <2>1. /\ \A d \in Sends : pc'[d] = IF d = c THEN "auth" ELSE IF d \in Cut THEN "done" ELSE pc[d]
        /\ aborted' = aborted \cup ({active} \ {NoSend})
        /\ UNCHANGED <<posted, adopted, gatewayVars>>
        /\ pc[c] = "idle"
    BY <1>2 DEF SendMessage
  <2>2. c \notin Cut
    BY <2>1, CutFacts
  <2> QED BY <2>1, <2>2 DEF IsAborted
<1> QED BY <1>1, <1>2

\* The stages and the requests that have left, in every step of the sends.
Staged ==
    /\ \A c \in aborted : pc[c] \notin {"fetching", "reading"}
    /\ \A c \in posted : pc[c] \notin {"idle", "auth"}

Unknown == posted \ adopted

LEMMA StagedStep ==
    ASSUME StoreTypeOK, Staged,
           \/ UNCHANGED <<aborted, posted, pc, adopted>>
           \/ IsAborted
           \/ \E c \in Sends : Leaves(c) \/ Arrives(c) \/ GoesFurther(c)
    PROVE  /\ Staged'
           /\ posted \subseteq posted'
           /\ (\A c \in Unknown' : pc'[c] = "fetching") => \A c \in Unknown : pc[c] = "fetching"
<1>1. /\ pc \in [Sends -> Stages] /\ aborted \subseteq Sends /\ posted \subseteq Sends
      /\ active \in Sends \cup {NoSend}
  BY DEF StoreTypeOK
<1>2. CASE UNCHANGED <<aborted, posted, pc, adopted>>
  BY <1>2 DEF Staged, Unknown
<1>3. CASE IsAborted
  <2>1. \A c \in aborted' : c \in Sends /\ pc'[c] \notin {"fetching", "reading"}
    BY <1>1, <1>3, CutFacts DEF IsAborted, Staged
  <2>2. \A c \in posted' : pc'[c] \notin {"idle", "auth"}
    BY <1>1, <1>3 DEF IsAborted, Staged
  <2>3. (\A c \in Unknown' : pc'[c] = "fetching") => \A c \in Unknown : pc[c] = "fetching"
    BY <1>1, <1>3 DEF IsAborted, Unknown
  <2> QED BY <1>3, <2>1, <2>2, <2>3 DEF Staged, IsAborted
<1>4. ASSUME NEW c \in Sends, Leaves(c)
      PROVE  /\ Staged' /\ posted \subseteq posted'
             /\ (\A d \in Unknown' : pc'[d] = "fetching") => \A d \in Unknown : pc[d] = "fetching"
  <2>1. \A d \in Sends : pc'[d] = IF d = c THEN "fetching" ELSE pc[d]
    BY <1>1, <1>4 DEF Leaves
  <2>2. Staged'
    BY <1>1, <1>4, <2>1 DEF Leaves, Staged
  <2>3. c \notin posted
    BY <1>4 DEF Leaves, Staged
  <2>4. (\A d \in Unknown' : pc'[d] = "fetching") => \A d \in Unknown : pc[d] = "fetching"
    BY <1>1, <1>4, <2>1, <2>3 DEF Leaves, Unknown
  <2> QED BY <1>4, <2>2, <2>4 DEF Leaves
<1>5. ASSUME NEW c \in Sends, Arrives(c)
      PROVE  /\ Staged' /\ posted \subseteq posted'
             /\ (\A d \in Unknown' : pc'[d] = "fetching") => \A d \in Unknown : pc[d] = "fetching"
  <2>1. \A d \in Sends : pc'[d] = IF d = c THEN "reading" ELSE pc[d]
    BY <1>1, <1>5 DEF Arrives
  <2>2. c \notin aborted
    BY <1>5 DEF Arrives, Staged
  <2>3. Staged'
    BY <1>1, <1>5, <2>1, <2>2 DEF Arrives, Staged
  <2>4. (\A d \in Unknown' : pc'[d] = "fetching") => \A d \in Unknown : pc[d] = "fetching"
    BY <1>1, <1>5, <2>1 DEF Arrives, Unknown
  <2> QED BY <1>5, <2>3, <2>4 DEF Arrives
<1>6. ASSUME NEW c \in Sends, GoesFurther(c)
      PROVE  /\ Staged' /\ posted \subseteq posted'
             /\ (\A d \in Unknown' : pc'[d] = "fetching") => \A d \in Unknown : pc[d] = "fetching"
  <2>1. \A d \in Sends : pc'[d] = pc[d] \/ pc'[d] \in {"late", "fallback", "done"}
    BY <1>1, <1>6 DEF GoesFurther
  <2> QED BY <1>1, <1>6, <2>1 DEF GoesFurther, Staged, Unknown
<1> QED BY <1>2, <1>3, <1>4, <1>5, <1>6

\* A run answers only when its request has left, and what it has answered stays.
LEMMA AnswersStay ==
    ASSUME StoreTypeOK, Orderly, posted \subseteq posted',
           \/ UNCHANGED gatewayVars
           \/ \E r \in Runs : HostEmits(r) \/ HostEnds(r)
    PROVE  /\ \A c \in Sends : count'[c] > 0 \/ end'[c] = "completed" => c \in posted'
           /\ \A x \in Others : count'[x] = 0 /\ end'[x] # "completed" =>
                                    count[x] = 0 /\ end[x] # "completed"
<1>1. /\ count \in [Runs -> Nat] /\ end \in [Runs -> {"open", "completed", "failed"}]
      /\ Sends \subseteq Runs /\ Others \subseteq Runs
      /\ \A c \in Sends : count[c] > 0 \/ end[c] = "completed" => c \in posted
  BY DEF StoreTypeOK, Orderly, Runs
<1>2. CASE UNCHANGED gatewayVars
  BY <1>1, <1>2 DEF gatewayVars
<1>3. ASSUME NEW r \in Runs, HostEmits(r)
      PROVE  /\ \A c \in Sends : count'[c] > 0 \/ end'[c] = "completed" => c \in posted'
             /\ \A x \in Others : count'[x] = 0 /\ end'[x] # "completed" =>
                                      count[x] = 0 /\ end[x] # "completed"
  <2>1. /\ \A x \in Runs : count'[x] = IF x = r THEN count[x] + 1 ELSE count[x]
        /\ end' = end /\ (r \in Others \/ r \in posted)
    BY <1>1, <1>3 DEF HostEmits, Started
  <2>2. ASSUME NEW c \in Sends, count'[c] > 0 \/ end'[c] = "completed" PROVE c \in posted'
    <3>1. CASE c = r
      BY <2>1, <3>1
    <3>2. CASE c # r
      BY <1>1, <2>1, <2>2, <3>2
    <3> QED BY <3>1, <3>2
  <2>3. ASSUME NEW x \in Others, count'[x] = 0, end'[x] # "completed"
        PROVE  count[x] = 0 /\ end[x] # "completed"
    <3>1. count[x] \in Nat /\ count'[x] \in {count[x], count[x] + 1}
      BY <1>1, <2>1
    <3> QED BY <2>1, <2>3, <3>1
  <2> QED BY <2>2, <2>3
<1>4. ASSUME NEW r \in Runs, HostEnds(r)
      PROVE  /\ \A c \in Sends : count'[c] > 0 \/ end'[c] = "completed" => c \in posted'
             /\ \A x \in Others : count'[x] = 0 /\ end'[x] # "completed" =>
                                      count[x] = 0 /\ end[x] # "completed"
  <2>1. /\ \A x \in Runs : x # r => end'[x] = end[x]
        /\ count' = count /\ end[r] = "open" /\ (r \in Others \/ r \in posted)
    BY <1>1, <1>4 DEF HostEnds, Started
  <2> QED BY <1>1, <2>1
<1> QED BY <1>2, <1>3, <1>4

LEMMA NextMoves ==
    ASSUME StoreTypeOK, [StoreNext]_storeVars
    PROVE  /\ \/ UNCHANGED <<aborted, posted, pc, adopted>>
              \/ IsAborted
              \/ \E c \in Sends : Leaves(c) \/ Arrives(c) \/ GoesFurther(c)
           /\ \/ UNCHANGED gatewayVars
              \/ \E r \in Runs : HostEmits(r) \/ HostEnds(r)
<1>1. ASSUME NEW c \in Sends, SendStep(c), ~SendMessage(c) PROVE UNCHANGED gatewayVars
  BY <1>1 DEF SendStep, Post, Respond, FetchFails, Caught, Done, Delta, StreamError,
              StreamCloses, LateReply, FallbackReply
<1>2. ASSUME NEW c \in Sends, SendStep(c)
      PROVE  /\ IsAborted \/ Leaves(c) \/ Arrives(c) \/ GoesFurther(c)
             /\ UNCHANGED gatewayVars
  <2>1. CASE SendMessage(c)
    BY <2>1, AbortMoves
  <2>2. CASE ~SendMessage(c)
    BY <1>1, <1>2, <2>2, SendMoves
  <2> QED BY <2>1, <2>2
<1>3. ASSUME NEW r \in Runs, HostEmits(r) \/ HostEnds(r) PROVE UNCHANGED <<aborted, posted, pc, adopted>>
  BY <1>3 DEF HostEmits, HostEnds, sendVars
<1>4. ASSUME NEW r \in Runs, WsFrame(r)
      PROVE  UNCHANGED <<aborted, posted, pc, adopted, gatewayVars>>
  BY <1>4 DEF WsFrame, sendVars
<1>5. LoadMessages \/ ResetContext => UNCHANGED <<aborted, posted, pc, adopted, gatewayVars>>
  BY DEF LoadMessages, ResetContext, sendVars
<1>6. UNCHANGED storeVars => UNCHANGED <<aborted, posted, pc, adopted, gatewayVars>>
  BY DEF storeVars, sendVars
<1> QED BY <1>2, <1>3, <1>4, <1>5, <1>6, AbortMoves DEF StoreNext

LEMMA OwnInit == StoreInit => OwnIInv
<1> SUFFICES ASSUME StoreInit PROVE OwnIInv
  OBVIOUS
<1>1. /\ list = <<>> /\ aborted = {} /\ posted = {} /\ adopted = {}
      /\ polled = [c \in Sends |-> ClientId(c)]
      /\ \A c \in Sends : pc[c] \in {"idle", "done"}
      /\ \A c \in Sends : count[c] = 0 /\ end[c] # "completed"
  BY DEF StoreInit, Runs
<1>2. Orderly
  BY <1>1 DEF Orderly
<1>3. OwnState
  BY <1>1 DEF OwnState, OwnList, UniqueIds, NotBeforeSent
<1> QED BY <1>2, <1>3 DEF OwnIInv

LEMMA OwnStep ==
    ASSUME StoreIInv, StoreIInv', OwnIInv, [StoreNext]_storeVars
    PROVE  OwnIInv'
<1>1. StoreTypeOK /\ StopReaches' /\ Orderly /\ Staged
  BY DEF StoreIInv, OwnIInv, Orderly, Staged
<1>2. /\ Staged' /\ posted \subseteq posted'
      /\ (\A c \in Unknown' : pc'[c] = "fetching") => \A c \in Unknown : pc[c] = "fetching"
  BY <1>1, NextMoves, StagedStep
<1>3. /\ \A c \in Sends : count'[c] > 0 \/ end'[c] = "completed" => c \in posted'
      /\ \A x \in Others : count'[x] = 0 /\ end'[x] # "completed" =>
                               count[x] = 0 /\ end[x] # "completed"
  BY <1>1, <1>2, NextMoves, AnswersStay
<1>4. Orderly'
  BY <1>2, <1>3 DEF Orderly, Staged
<1>5. Undisturbed' => Undisturbed
  BY <1>2, <1>3 DEF Undisturbed, Unknown
<1>6. ASSUME Undisturbed' PROVE OwnState'
  <2>1. Undisturbed /\ OwnState
    BY <1>5, <1>6 DEF OwnIInv
  <2>2. CASE UNCHANGED <<list, sendVars>>
    BY <2>1, <2>2, SameListOwn DEF sendVars, OwnState
  <2>3. CASE \E c \in Sends : SendStep(c)
    BY <1>1, <2>1, <2>3, SendMessageOwn, SendGoesOnOwn
  <2>4. ASSUME NEW r \in Runs, HostEmits(r) \/ HostEnds(r) PROVE UNCHANGED <<list, sendVars>>
    BY <2>4 DEF HostEmits, HostEnds
  <2>5. CASE \E r \in Runs : WsFrame(r)
    BY <1>1, <2>1, <2>5, WsFrameOwn
  <2>6. CASE StopStream
    BY <1>1, <2>1, <2>6, StopOwn
  <2>7. CASE LoadMessages
    BY <1>1, <2>1, <2>7, LoadOwn
  <2>8. ResetContext \/ UNCHANGED storeVars => UNCHANGED <<list, sendVars>>
    BY DEF ResetContext, storeVars
  <2> QED BY <2>2, <2>3, <2>4, <2>5, <2>6, <2>7, <2>8 DEF StoreNext
<1> QED BY <1>4, <1>6 DEF OwnIInv

\* While no other page runs the agent and every request that has left is either
\* pending or knows its run, whichever order the response, the frames, replies,
\* histories, stops and the next sends come in, a bubble shows the answer of its
\* own send and no other text but a notice.
THEOREM TextsAreOwn == StoreSpec => []TextIsOwn
<1>1. StoreInit => OwnIInv
  BY OwnInit
<1>2. StoreIInv /\ StoreIInv' /\ OwnIInv /\ [StoreNext]_storeVars => OwnIInv'
  BY OwnStep
<1>3. OwnIInv => TextIsOwn
  <2> SUFFICES ASSUME OwnIInv, Undisturbed, NEW i \in DOMAIN list, NEW c \in Sends,
                      list[i].id = Bubble(c)
               PROVE  OwnText(c, list[i].text)
    BY DEF TextIsOwn, Undisturbed, OwnText
  <2>1. OwnMessage(list[i])
    BY DEF OwnIInv, OwnState, OwnList
  <2> QED BY <2>1 DEF OwnMessage
<1> QED BY <1>1, <1>2, <1>3, StoreInvariant, PTL DEF StoreSpec

=============================================================================
