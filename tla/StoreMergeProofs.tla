-------------------------- MODULE StoreMergeProofs --------------------------
(***************************************************************************)
(* Theorems about StoreMerge, for any number of machines, calls, tags and   *)
(* titles.                                                                 *)
(*                                                                         *)
(* What needs no clock rests on StateOK, the shape of rows, events and     *)
(* logs. While the clocks agree, IInv adds that an event is told by its    *)
(* place: its instant and the id its machine minted at that instant.       *)
(* A total is a sum over a log. SumInv, that every copy is of numbers and  *)
(* its log finite, makes it a number; LedgerInv says which: what each edit *)
(* writes into the row is what its event adds to the count of the log.     *)
(***************************************************************************)
EXTENDS StoreMerge, SumProofs, FiniteSetTheorems, TLAPS

Statuses == {"pending", "active", "done", "cancelled"}

\* A row by its fields.
Shaped(row) ==
    row = [status |-> row.status, since |-> row.since, title |-> row.title, claim |-> row.claim,
           tracked |-> row.tracked, adj |-> row.adj, modified |-> row.modified, tags |-> row.tags,
           rev |-> row.rev]
RowOK(row) ==
    /\ Shaped(row)
    /\ row.status \in Statuses /\ row.since \in Int /\ row.title \in Int /\ row.claim \in Int
    /\ row.modified \in Nat /\ row.rev \in Nat /\ row.tags \subseteq Tags
    /\ ~Open(row) => row.claim = 0

EventOK(e) ==
    /\ e.at \in Nat /\ e.id \in Nat /\ e.since \in Int
    /\ e.op = "stop" => e.secs \in Nat
    /\ e.op = "modify" /\ "active_since" \in e.cols => "status" \in e.cols

HasLast(S) == \E e \in S : \A x \in S : Place(x) <= Place(e)

CopyOK(c) ==
    /\ c = [row |-> c.row, log |-> c.log]
    /\ RowOK(c.row)
    /\ \A e \in c.log : EventOK(e)
    /\ c.log # {} => \E e \in c.log : e.op = "add"
    /\ \A g \in GROUPS : Edits(c.log, g) # {} => HasLast(Edits(c.log, g))

-----------------------------------------------------------------------------
(* The order of events *)

LEMMA PlaceType ==
    ASSUME NEW e, EventOK(e)
    PROVE  Place(e) \in Int /\ When(e) \in Int
<1>1. e.at \in Nat /\ e.since \in Int /\ e.id \in Nat
    BY DEF EventOK
<1>2. When(e) \in Int
    BY <1>1 DEF When
<1>3. (IF Slow(e) THEN 1 ELSE 0) \in Int
    OBVIOUS
<1> QED
    BY <1>1, <1>2, <1>3, LogAssumption DEF Place

LEMMA LastOf ==
    ASSUME NEW S, HasLast(S)
    PROVE  Last(S) \in S /\ \A x \in S : Place(x) <= Place(Last(S))
BY DEF HasLast, Last

LEMMA LastOfOne ==
    ASSUME NEW e, EventOK(e)
    PROVE  HasLast({e}) /\ Last({e}) = e
<1>1. Place(e) <= Place(e)
    BY PlaceType
<1>2. HasLast({e})
    BY <1>1 DEF HasLast
<1> QED
    BY <1>2, LastOf

LEMMA LastOfTwo ==
    ASSUME NEW S, NEW T, \A e \in S \cup T : EventOK(e), S # {} => HasLast(S), T # {} => HasLast(T),
           S \cup T # {}
    PROVE  /\ HasLast(S \cup T)
           /\ S # {} /\ T # {} =>
                /\ Place(Last(T)) > Place(Last(S)) => Place(Last(S \cup T)) = Place(Last(T))
                /\ Place(Last(S)) >= Place(Last(T)) => Place(Last(S \cup T)) = Place(Last(S))
<1>1. CASE S = {} \/ T = {}
    <2>1. S \cup T = S \/ S \cup T = T
        BY <1>1
    <2> QED
        BY <1>1, <2>1
<1>2. CASE S # {} /\ T # {}
    <2> DEFINE a == Last(S)
               b == Last(T)
    <2>1. a \in S /\ (\A x \in S : Place(x) <= Place(a)) /\ Place(a) \in Int
        BY <1>2, LastOf, PlaceType
    <2>2. b \in T /\ (\A x \in T : Place(x) <= Place(b)) /\ Place(b) \in Int
        BY <1>2, LastOf, PlaceType
    <2>3. \A x \in S \cup T : Place(x) \in Int
        BY PlaceType
    <2> HIDE DEF a, b
    <2>4. CASE Place(b) > Place(a)
        <3>1. \A x \in S \cup T : Place(x) <= Place(b)
            BY <2>1, <2>2, <2>3, <2>4
        <3>2. HasLast(S \cup T)
            BY <2>2, <3>1 DEF HasLast
        <3>3. Place(Last(S \cup T)) = Place(b)
            BY <2>2, <2>3, <3>1, <3>2, LastOf
        <3> QED
            BY <2>1, <2>2, <2>4, <3>2, <3>3 DEF a, b
    <2>5. CASE Place(a) >= Place(b)
        <3>1. \A x \in S \cup T : Place(x) <= Place(a)
            BY <2>1, <2>2, <2>3, <2>5
        <3>2. HasLast(S \cup T)
            BY <2>1, <3>1 DEF HasLast
        <3>3. Place(Last(S \cup T)) = Place(a)
            BY <2>1, <2>3, <3>1, <3>2, LastOf
        <3> QED
            BY <2>1, <2>2, <2>5, <3>2, <3>3 DEF a, b
    <2> QED
        BY <2>1, <2>2, <2>4, <2>5
<1> QED
    BY <1>1, <1>2

LEMMA LastOfPair ==
    ASSUME NEW e, EventOK(e), NEW f, EventOK(f), NEW S, S \subseteq {e, f}, S # {}
    PROVE  HasLast(S)
<1>1. Place(e) \in Int /\ Place(f) \in Int
    BY PlaceType
<1>2. S = {e} \/ S = {f} \/ S = {e, f}
    OBVIOUS
<1>3. Place(e) <= Place(f) \/ Place(f) <= Place(e)
    BY <1>1
<1>4. Place(e) <= Place(e) /\ Place(f) <= Place(f)
    BY <1>1
<1> QED
    BY <1>2, <1>3, <1>4 DEF HasLast

LEMMA EditsUnion ==
    ASSUME NEW L, NEW M, NEW g
    PROVE  Edits(L \cup M, g) = Edits(L, g) \cup Edits(M, g)
BY DEF Edits

\* A log that is not empty has edited every group.
LEMMA EveryGroup ==
    ASSUME NEW c, CopyOK(c), c.log # {}, NEW g \in GROUPS
    PROVE  /\ Edits(c.log, g) # {} /\ HasLast(Edits(c.log, g))
           /\ Last(Edits(c.log, g)) \in Edits(c.log, g)
           /\ Place(Last(Edits(c.log, g))) \in Int
<1>1. Edits(c.log, g) # {}
    BY DEF CopyOK, Edits, Touches
<1>2. HasLast(Edits(c.log, g))
    BY <1>1 DEF CopyOK
<1>3. Last(Edits(c.log, g)) \in Edits(c.log, g)
    BY <1>2, LastOf
<1>4. EventOK(Last(Edits(c.log, g)))
    BY <1>3 DEF CopyOK, Edits
<1> QED
    BY <1>1, <1>2, <1>3, <1>4, PlaceType

-----------------------------------------------------------------------------
(* A merge, by the fields of the row it makes *)

\* The value a merge chooses is one of the two.
LEMMA ChosenOne ==
    ASSUME NEW a, NEW b, NEW g
    PROVE  Chosen(a, b, g) \in {Value(a.row, g), Value(b.row, g)}
BY DEF Chosen

RunningOf(status) == IF status[1] = "active" THEN status[2] ELSE 0

\* The row a merge would write.
LEMMA ScalarFields ==
    ASSUME NEW a, CopyOK(a), NEW b
    PROVE  LET status == Chosen(a, b, "status")
               total == MergedTotal(a, b, RunningOf(status))
           IN  MergedScalars(a, b) =
                [status |-> status[1], since |-> status[2], title |-> Chosen(a, b, "title"),
                 claim |-> Chosen(a, b, "claim"), tracked |-> total.tracked, adj |-> total.adj,
                 modified |-> Larger(a.row.modified, b.row.modified), tags |-> a.row.tags,
                 rev |-> a.row.rev]
<1> DEFINE status == Chosen(a, b, "status")
           total == MergedTotal(a, b, RunningOf(status))
           scalars == MergedScalars(a, b)
<1>1. a.row = [status |-> a.row.status, since |-> a.row.since, title |-> a.row.title, claim |-> a.row.claim,
               tracked |-> a.row.tracked, adj |-> a.row.adj, modified |-> a.row.modified,
               tags |-> a.row.tags, rev |-> a.row.rev]
    BY DEF CopyOK, RowOK, Shaped
<1>2. scalars = [status |-> status[1], since |-> status[2], title |-> Chosen(a, b, "title"),
                 claim |-> Chosen(a, b, "claim"), tracked |-> total.tracked, adj |-> total.adj,
                 modified |-> Larger(a.row.modified, b.row.modified), tags |-> a.row.tags, rev |-> a.row.rev]
    <2> DEFINE r == a.row
    <2>1. scalars = [r EXCEPT !.status = status[1], !.since = status[2],
                              !.title = Chosen(a, b, "title"), !.claim = Chosen(a, b, "claim"),
                              !.tracked = total.tracked, !.adj = total.adj,
                              !.modified = Larger(r.modified, b.row.modified)]
        <3>1. ChosenRow(a, b) = [r EXCEPT !.status = status[1], !.since = status[2],
                                          !.title = Chosen(a, b, "title"), !.claim = Chosen(a, b, "claim"),
                                          !.modified = Larger(r.modified, b.row.modified)]
            BY Zenon DEF ChosenRow, WithStatus, MergedStamp
        <3>2. Running(ChosenRow(a, b)) = RunningOf(status)
            <4> HIDE DEF status
            <4> QED
                BY <1>1, <3>1 DEF Running, RunningOf
        <3>3. scalars = [ChosenRow(a, b) EXCEPT !.tracked = total.tracked, !.adj = total.adj]
            BY <3>2, Zenon DEF MergedScalars, Retotalled, WithTotal
        <3> HIDE DEF scalars, status, total
        <3> QED
            BY <1>1, <3>1, <3>3
    <2> HIDE DEF scalars, status, total
    <2> QED
        BY <1>1, <2>1
<1> QED
    BY <1>2

\* Whether the merge wrote the row or left it as it was, its fields are those
\* it chose: a row that is left had them already.
LEMMA MergedFields ==
    ASSUME NEW a, CopyOK(a), NEW b, CopyOK(b), a.log # {}
    PROVE  LET m == Merged(a, b)
               status == Chosen(a, b, "status")
               total == MergedTotal(a, b, RunningOf(status))
           IN  /\ m = [row |-> m.row, log |-> m.log] /\ m.log = a.log \cup b.log
               /\ Shaped(m.row)
               /\ m.row.status = status[1] /\ m.row.since = status[2]
               /\ m.row.title = Chosen(a, b, "title")
               /\ m.row.claim = IF status[1] \in {"pending", "active"} THEN Chosen(a, b, "claim") ELSE 0
               /\ m.row.tracked = total.tracked /\ m.row.adj = total.adj
               /\ m.row.modified = Larger(a.row.modified, b.row.modified)
               /\ m.row.tags = MergedTags(a, b)
               /\ m.row.rev = MergedRev(a, b, MergedScalars(a, b), MergedTags(a, b))
<1> DEFINE status == Chosen(a, b, "status")
           total == MergedTotal(a, b, RunningOf(status))
           scalars == MergedScalars(a, b)
           written == IF scalars # a.row THEN EndClaim(scalars) ELSE a.row
           m == Merged(a, b)
<1>1. a.row = [status |-> a.row.status, since |-> a.row.since, title |-> a.row.title, claim |-> a.row.claim,
               tracked |-> a.row.tracked, adj |-> a.row.adj, modified |-> a.row.modified,
               tags |-> a.row.tags, rev |-> a.row.rev]
    BY DEF CopyOK, RowOK, Shaped
<1>2. scalars = [status |-> status[1], since |-> status[2], title |-> Chosen(a, b, "title"),
                 claim |-> Chosen(a, b, "claim"), tracked |-> total.tracked, adj |-> total.adj,
                 modified |-> Larger(a.row.modified, b.row.modified), tags |-> a.row.tags, rev |-> a.row.rev]
    BY ScalarFields
<1> HIDE DEF status, total
<1>3. /\ written = [status |-> written.status, since |-> written.since, title |-> written.title,
                    claim |-> written.claim, tracked |-> written.tracked, adj |-> written.adj,
                    modified |-> written.modified, tags |-> written.tags, rev |-> written.rev]
      /\ written.status = status[1] /\ written.since = status[2]
      /\ written.title = Chosen(a, b, "title")
      /\ written.claim = IF status[1] \in {"pending", "active"} THEN Chosen(a, b, "claim") ELSE 0
      /\ written.tracked = total.tracked /\ written.adj = total.adj
      /\ written.modified = Larger(a.row.modified, b.row.modified)
    <2> HIDE DEF scalars
    <2>1. CASE scalars # a.row /\ Open(scalars)
        BY <1>2, <2>1 DEF EndClaim, Open
    <2>2. CASE scalars # a.row /\ ~Open(scalars)
        BY <1>2, <2>2 DEF EndClaim, Open
    <2>3. CASE scalars = a.row
        <3>1. ~Open(a.row) => a.row.claim = 0
            BY DEF CopyOK, RowOK
        <3> QED
            BY <1>1, <1>2, <2>3, <3>1 DEF Open
    <2> QED
        BY <2>1, <2>2, <2>3
<1>4. /\ m.row = [written EXCEPT !.tags = MergedTags(a, b),
                                 !.rev = MergedRev(a, b, scalars, MergedTags(a, b))]
      /\ m.log = a.log \cup b.log /\ m = [row |-> m.row, log |-> m.log]
    BY DEF Merged, Rewritten, Upserted
<1> HIDE DEF written, scalars, m
<1> QED
    BY <1>3, <1>4 DEF Shaped, status, total, scalars, m

LEMMA MergedOK ==
    ASSUME NEW a, CopyOK(a), NEW b, CopyOK(b)
    PROVE  CopyOK(Merged(a, b))
<1>1. CASE a.log = {}
    BY <1>1 DEF Merged
<1>2. CASE a.log # {}
    <2> DEFINE m == Merged(a, b)
               status == Chosen(a, b, "status")
    <2>1. status[1] \in Statuses /\ status[2] \in Int
        BY ChosenOne DEF CopyOK, RowOK, Value
    <2>2. Chosen(a, b, "title") \in Int /\ Chosen(a, b, "claim") \in Int
        BY ChosenOne DEF CopyOK, RowOK, Value
    <2>3. Larger(a.row.modified, b.row.modified) \in Nat
        BY DEF CopyOK, RowOK, Larger
    <2>4. MergedRev(a, b, MergedScalars(a, b), MergedTags(a, b)) \in Nat
        BY DEF CopyOK, RowOK, Larger, MergedRev
    <2>45. MergedTags(a, b) \subseteq Tags
        BY DEF CopyOK, RowOK, MergedTags
    <2>5. /\ m = [row |-> m.row, log |-> m.log] /\ m.log = a.log \cup b.log
          /\ Shaped(m.row) /\ m.row.tags = MergedTags(a, b)
          /\ m.row.status = status[1] /\ m.row.since = status[2]
          /\ m.row.title = Chosen(a, b, "title")
          /\ m.row.claim = IF status[1] \in {"pending", "active"} THEN Chosen(a, b, "claim") ELSE 0
          /\ m.row.modified = Larger(a.row.modified, b.row.modified)
          /\ m.row.rev = MergedRev(a, b, MergedScalars(a, b), MergedTags(a, b))
        BY <1>2, MergedFields
    <2> HIDE DEF m, status
    <2>6. RowOK(m.row)
        BY <2>1, <2>2, <2>3, <2>4, <2>45, <2>5 DEF RowOK, Open
    <2>7. \A e \in m.log : EventOK(e)
        BY <2>5 DEF CopyOK
    <2>8. \E e \in m.log : e.op = "add"
        BY <1>2, <2>5 DEF CopyOK
    <2>9. ASSUME NEW g \in GROUPS, Edits(m.log, g) # {}
          PROVE  HasLast(Edits(m.log, g))
        <3>1. Edits(m.log, g) = Edits(a.log, g) \cup Edits(b.log, g)
            BY <2>5, EditsUnion
        <3>2. \A e \in Edits(a.log, g) \cup Edits(b.log, g) : EventOK(e)
            BY DEF CopyOK, Edits
        <3>3. /\ Edits(a.log, g) # {} => HasLast(Edits(a.log, g))
              /\ Edits(b.log, g) # {} => HasLast(Edits(b.log, g))
            BY DEF CopyOK
        <3> QED
            BY <2>9, <3>1, <3>2, <3>3, LastOfTwo
    <2>10. CopyOK(m)
        BY <2>5, <2>6, <2>7, <2>8, <2>9 DEF CopyOK
    <2> QED
        BY <2>10 DEF m
<1> QED
    BY <1>1, <1>2

-----------------------------------------------------------------------------
(* Two merges of the same two copies *)

\* Text orders the values of a group: two that differ, one is higher.
LEMMA TextTells ==
    ASSUME NEW a, RowOK(a), NEW b, RowOK(b), NEW g \in GROUPS
    PROVE  LET x == Text(g, Value(a, g))  y == Text(g, Value(b, g))
           IN  /\ ~(Higher(x, y) /\ Higher(y, x))
               /\ Higher(x, y) \/ Higher(y, x) \/ Value(a, g) = Value(b, g)
<1>1. /\ a.status \in Statuses /\ a.since \in Int /\ a.title \in Int /\ a.claim \in Int
      /\ b.status \in Statuses /\ b.since \in Int /\ b.title \in Int /\ b.claim \in Int
    BY DEF RowOK
<1>2. CASE g = "status"
    <2> DEFINE Rank(v) == CASE v = "active" -> 1 [] v = "cancelled" -> 2 [] v = "done" -> 3 [] OTHER -> 4
    <2>1. Value(a, g) = <<a.status, a.since>> /\ Value(b, g) = <<b.status, b.since>>
        BY <1>2 DEF Value
    <2>2. Text(g, <<a.status, a.since>>) = <<Rank(a.status), a.since>>
        BY <1>2 DEF Text
    <2>3. Text(g, <<b.status, b.since>>) = <<Rank(b.status), b.since>>
        BY <1>2 DEF Text
    <2>4. Rank(a.status) \in Int /\ Rank(b.status) \in Int
        BY <1>1 DEF Statuses
    <2>5. Rank(a.status) = Rank(b.status) => a.status = b.status
        BY <1>1 DEF Statuses
    <2> HIDE DEF Rank
    <2> QED
        BY <1>1, <2>1, <2>2, <2>3, <2>4, <2>5 DEF Higher
<1>3. CASE g = "title"
    <2>1. Text(g, Value(a, g)) = <<0, a.title>> /\ Text(g, Value(b, g)) = <<0, b.title>>
        BY <1>3 DEF Text, Value
    <2>2. Value(a, g) = a.title /\ Value(b, g) = b.title
        BY <1>3 DEF Value
    <2> QED
        BY <1>1, <2>1, <2>2 DEF Higher
<1>4. CASE g = "claim"
    <2>1. /\ Text(g, Value(a, g)) = <<IF a.claim = 0 THEN 1 ELSE 0, a.claim>>
          /\ Text(g, Value(b, g)) = <<IF b.claim = 0 THEN 1 ELSE 0, b.claim>>
        BY <1>4 DEF Text, Value
    <2>2. Value(a, g) = a.claim /\ Value(b, g) = b.claim
        BY <1>4 DEF Value
    <2> QED
        BY <1>1, <2>1, <2>2 DEF Higher
<1> QED
    BY <1>2, <1>3, <1>4 DEF GROUPS

LEMMA ChosenAlike ==
    ASSUME NEW a, CopyOK(a), a.log # {}, NEW b, CopyOK(b), b.log # {}, NEW g \in GROUPS
    PROVE  Chosen(a, b, g) = Chosen(b, a, g)
<1> DEFINE p == Place(Last(Edits(a.log, g)))
           q == Place(Last(Edits(b.log, g)))
<1>1. Edits(a.log, g) # {} /\ Edits(b.log, g) # {} /\ p \in Int /\ q \in Int
    BY EveryGroup
<1>2. LET w == PayloadWins(a.log, b.log, g, TieIsTheirs(a.row, b.row, g))
          v == PayloadWins(b.log, a.log, g, TieIsTheirs(b.row, a.row, g))
      IN  /\ p # q => (w <=> q > p) /\ (v <=> p > q)
          /\ p = q => (w <=> TieIsTheirs(a.row, b.row, g)) /\ (v <=> TieIsTheirs(b.row, a.row, g))
    BY <1>1 DEF PayloadWins
<1> HIDE DEF p, q
<1>3. CASE p # q
    BY <1>1, <1>2, <1>3 DEF Chosen
<1>4. CASE p = q
    <2>1. RowOK(a.row) /\ RowOK(b.row) /\ a.row.modified \in Nat /\ b.row.modified \in Nat
        BY DEF CopyOK, RowOK
    <2>2. ~(TieIsTheirs(a.row, b.row, g) /\ TieIsTheirs(b.row, a.row, g))
        BY <2>1, TextTells DEF TieIsTheirs
    <2>3. TieIsTheirs(a.row, b.row, g) \/ TieIsTheirs(b.row, a.row, g) \/ Value(a.row, g) = Value(b.row, g)
        BY <2>1, TextTells DEF TieIsTheirs
    <2> QED
        BY <1>2, <1>4, <2>2, <2>3 DEF Chosen
<1> QED
    BY <1>3, <1>4

LEMMA Commutes ==
    ASSUME NEW a, CopyOK(a), a.log # {}, NEW b, CopyOK(b), b.log # {}
    PROVE  Visible(Merged(a, b).row) = Visible(Merged(b, a).row)
<1> DEFINE m == Merged(a, b).row
           n == Merged(b, a).row
<1>1. a.log \cup b.log = b.log \cup a.log /\ {a, b} = {b, a}
    OBVIOUS
<1>2. /\ Chosen(a, b, "status") = Chosen(b, a, "status")
      /\ Chosen(a, b, "title") = Chosen(b, a, "title")
      /\ Chosen(a, b, "claim") = Chosen(b, a, "claim")
    BY ChosenAlike DEF GROUPS
<1>3. \A r : MergedTotal(a, b, r) = MergedTotal(b, a, r)
    <2>1. Kept(a, b) = Kept(b, a)
        BY <1>1 DEF Kept
    <2> QED
        BY <1>1, <2>1, Zenon DEF MergedTotal
<1>4. MergedTags(a, b) = MergedTags(b, a)
    <2>1. a.row.tags \cup b.row.tags = b.row.tags \cup a.row.tags
        OBVIOUS
    <2> QED
        BY <1>1, <2>1, Zenon DEF MergedTags
<1>5. Larger(a.row.modified, b.row.modified) = Larger(b.row.modified, a.row.modified)
    BY DEF CopyOK, RowOK, Larger
<1>6. Shaped(m) /\ Shaped(n)
    BY MergedFields
<1>7. /\ m.status = n.status /\ m.since = n.since /\ m.title = n.title /\ m.claim = n.claim
      /\ m.modified = n.modified /\ m.tags = n.tags
    BY <1>2, <1>4, <1>5, MergedFields
<1>8. m.tracked = n.tracked /\ m.adj = n.adj
    BY <1>2, <1>3, MergedFields
<1> HIDE DEF m, n
<1>9. Visible(m) = Visible(n)
    <2>1. Visible(m) = [status |-> m.status, since |-> m.since, title |-> m.title, claim |-> m.claim,
                        tracked |-> m.tracked, adj |-> m.adj, modified |-> m.modified, tags |-> m.tags,
                        rev |-> 0]
        BY <1>6 DEF Visible, Shaped
    <2>2. Visible(n) = [status |-> n.status, since |-> n.since, title |-> n.title, claim |-> n.claim,
                        tracked |-> n.tracked, adj |-> n.adj, modified |-> n.modified, tags |-> n.tags,
                        rev |-> 0]
        BY <1>6 DEF Visible, Shaped
    <2> QED
        BY <1>7, <1>8, <2>1, <2>2
<1> QED
    BY <1>9 DEF m, n

-----------------------------------------------------------------------------
(* What every edit writes *)

\* An event that attached or took off a tag, by the tags after and before it.
Labelled(e, new, old) ==
    /\ e.op = "tag.add" => new = old \cup {e.tag}
    /\ e.op = "tag.remove" => e.tag \in old /\ new = old \ {e.tag}
Labels(e, new, old) ==
    /\ Labelled(e, new, old)
    /\ \A tag \in Tags : tag \in new <=> (Writes(e, tag) \/ (tag \in old /\ ~Removes(e, tag)))

\* A group a modify did not write is on the row as it was before.
Spared(ev, row, before) ==
    ev.op = "modify" =>
        /\ "status" \notin ev.cols => before.status = row.status /\ before.since = row.since
        /\ "title" \notin ev.cols => before.title = row.title

OverStores(f) == f = [s \in Stores |-> f[s]]

StateOK ==
    /\ now \in Nat /\ now > SECOND /\ scene \in Scenes
    /\ OverStores(copy) /\ OverStores(doc) /\ OverStores(last)
    /\ \A s \in Stores :
        /\ CopyOK(copy[s]) /\ CopyOK(doc[s])
        /\ last[s] = [ev |-> last[s].ev, before |-> last[s].before]
        /\ EventOK(last[s].ev) /\ RowOK(last[s].before)
        /\ Spared(last[s].ev, copy[s].row, last[s].before)
        /\ Labelled(last[s].ev, copy[s].row.tags, last[s].before.tags)

Scalar == {"status", "title"}

\* A clock that runs was started by the edit, restored by an undo, or ran on; a
\* close names the one that ran.
Clocked(s, row, events) ==
    /\ \A e \in events : e.op = "start" => e.id = Id(s, 0) /\ e.since = Clock(s)
    /\ \A e \in events : e.op \in Closing => e.since = Running(copy[s].row)
    /\ row.status = "active" =>
            \/ Resumed(events) # {}
            \/ row.since = Clock(s) /\ \E e \in events : events = {e} /\ e.op = "start"
            \/ /\ copy[s].row.status = "active" /\ row.since = copy[s].row.since
               /\ \A e \in events : ~Touches(e, "status")

\* The row and the events of an edit: a group no event touches stays as it was.
Edited(s, row, events) ==
    /\ RowOK(row) /\ Clocked(s, row, events)
    /\ HasLast(events) /\ \A g \in GROUPS : Edits(events, g) # {} => HasLast(Edits(events, g))
    /\ \A e \in events : EventOK(e) /\ e.op # "add" /\ e.at = Clock(s) /\ e.id \in {Id(s, 0), Id(s, 1)}
    /\ \A e, f \in events : e.id = f.id => e = f
    /\ \A g \in Scalar : (\A e \in events : ~Touches(e, g)) => Value(row, g) = Value(copy[s].row, g)
    /\ \A e \in events : Spared(e, row, copy[s].row)
    /\ \A e \in events : Labels(e, row.tags, copy[s].row.tags)

\* No close is stamped before its start, and no clock runs since later than now.
Bounded(row, log) == row.status = "active" => \E e \in log : row.since <= e.at
Timely(s, row, events) ==
    (/\ Bounded(copy[s].row, copy[s].log) /\ Bounded(last[s].before, copy[s].log)
     /\ last[s].ev.at <= Clock(s) /\ \A e \in copy[s].log : e.at < Clock(s))
    => /\ \A e \in events : ~Slow(e)
       /\ row.status = "active" => row.since <= Clock(s)

LEMMA ClockType ==
    ASSUME StateOK, NEW s \in Stores
    PROVE  /\ Clock(s) \in Nat /\ Clock(s) > SECOND
           /\ Id(s, 0) \in Nat /\ Id(s, 1) \in Nat /\ Id(s, 0) # Id(s, 1)
<1>1. scene.skew[s] \in Nat
    BY StoresAssumption DEF StateOK, Stores
<1>2. Clock(s) \in Nat /\ Clock(s) > SECOND
    BY <1>1, LogAssumption DEF Clock, StateOK
<1>3. Machines + 1 \in Nat /\ s \in Nat
    BY StoresAssumption DEF Stores
<1>4. Clock(s) * (Machines + 1) \in Nat
    BY <1>2, <1>3
<1>5. Clock(s) * (Machines + 1) + s \in Nat
    BY <1>3, <1>4
<1> HIDE DEF Clock
<1> QED
    BY <1>2, <1>5 DEF Id

\* The row an edit makes of the old one.
Made(old, status, since, title, claim, tracked, adj, tags) ==
    [status |-> status, since |-> since, title |-> title, claim |-> claim, tracked |-> tracked,
     adj |-> adj, modified |-> old.modified, tags |-> tags, rev |-> old.rev]

LEMMA MadeOK ==
    ASSUME NEW old, RowOK(old), NEW status \in Statuses, NEW since \in Int, NEW title \in Int,
           NEW claim \in Int, status \in {"pending", "active"} \/ claim = 0,
           NEW tracked, NEW adj, NEW tags \in SUBSET Tags
    PROVE  LET row == Made(old, status, since, title, claim, tracked, adj, tags)
           IN  /\ RowOK(row) /\ row.status = status /\ row.since = since /\ row.title = title
               /\ row.claim = claim /\ row.tags = tags
BY DEF Made, RowOK, Shaped, Open

LEMMA LoggedFields ==
    ASSUME NEW s, NEW op
    PROVE  Logged(s, op) =
              [op |-> op, id |-> Id(s, 0), at |-> Clock(s), since |-> 0, secs |-> 0, cols |-> {},
               total |-> 0, delta |-> 0, tag |-> 0, undone |-> 0, of |-> "none"]
BY DEF Logged, Event

\* An edit that logs one event: what it leaves alone, and where the instants it
\* writes come from.
LEMMA OneEvent ==
    ASSUME StateOK, NEW s \in Stores, NEW row, RowOK(row), NEW e,
           e.op # "add", e.at = Clock(s), e.id \in {Id(s, 0), Id(s, 1)}, e.since \in Int,
           e.op = "stop" => e.secs \in Nat,
           e.op = "modify" /\ "active_since" \in e.cols => "status" \in e.cols,
           Touches(e, "status") \/ (row.status = copy[s].row.status /\ row.since = copy[s].row.since),
           Touches(e, "title") \/ row.title = copy[s].row.title,
           Labels(e, row.tags, copy[s].row.tags),
           e.op \in Closing => e.since = Running(copy[s].row),
           e.op = "start" => e.id = Id(s, 0) /\ e.since = Clock(s),
           row.status = "active" /\ Touches(e, "status") =>
               (e.op = "start" /\ row.since = Clock(s)) \/ e.op = "undo",
           row.status = "active" =>
               \/ row.since = Clock(s) \/ row.since <= last[s].ev.at
               \/ row.since = copy[s].row.since /\ copy[s].row.status = "active"
               \/ row.since = last[s].before.since /\ last[s].before.status = "active"
    PROVE  Edited(s, row, {e}) /\ Timely(s, row, {e})
<1>1. Clock(s) \in Nat /\ Id(s, 0) \in Nat /\ Id(s, 1) \in Nat
    BY ClockType
<1>2. EventOK(e)
    BY <1>1 DEF EventOK
<1>3. ASSUME NEW g \in Scalar, ~Touches(e, g) PROVE Value(row, g) = Value(copy[s].row, g)
    BY <1>3 DEF Scalar, Value
<1>31. Spared(e, row, copy[s].row)
    BY DEF Spared, Touches
<1>4. Edited(s, row, {e})
    <2>1. \A g \in GROUPS : Edits({e}, g) # {} => HasLast(Edits({e}, g))
        <3>1. \A g \in GROUPS : Edits({e}, g) \subseteq {e, e}
            BY DEF Edits
        <3> QED
            BY <1>2, <3>1, LastOfPair
    <2>2. HasLast({e})
        BY <1>2, LastOfOne
    <2> HIDE DEF HasLast
    <2>3. \A x \in {e} : x = e
        OBVIOUS
    <2>31. Clocked(s, row, {e})
        BY DEF Clocked, Resumed
    <2>4. \A g \in Scalar : (\A x \in {e} : ~Touches(x, g)) => Value(row, g) = Value(copy[s].row, g)
        BY <1>3
    <2> QED
        BY <1>2, <1>31, <2>1, <2>2, <2>3, <2>31, <2>4 DEF Edited
<1>5. ASSUME Bounded(copy[s].row, copy[s].log), Bounded(last[s].before, copy[s].log),
             last[s].ev.at <= Clock(s), \A x \in copy[s].log : x.at < Clock(s)
      PROVE  ~Slow(e) /\ (row.status = "active" => row.since <= Clock(s))
    <2>1. \A x \in copy[s].log : x.at \in Nat
        BY DEF StateOK, CopyOK, EventOK
    <2>2. copy[s].row.since \in Int /\ last[s].before.since \in Int /\ last[s].ev.at \in Nat /\ row.since \in Int
        BY DEF StateOK, CopyOK, RowOK, EventOK
    <2>3. copy[s].row.status = "active" => copy[s].row.since < Clock(s)
        BY <1>1, <1>5, <2>1, <2>2 DEF Bounded
    <2>4. last[s].before.status = "active" => last[s].before.since < Clock(s)
        BY <1>1, <1>5, <2>1, <2>2 DEF Bounded
    <2>5. ~Slow(e)
        BY <1>1, <2>2, <2>3 DEF Slow, Running
    <2>6. row.status = "active" => row.since <= Clock(s)
        BY <1>1, <1>5, <2>2, <2>3, <2>4
    <2> QED
        BY <2>5, <2>6
<1>6. Timely(s, row, {e})
    BY <1>5 DEF Timely
<1> QED
    BY <1>4, <1>6

LEMMA PlainLabels ==
    ASSUME NEW e, e.op \notin {"add", "tag.add", "tag.remove"},
           e.op # "undo" \/ e.of \notin {"tag.add", "tag.remove"}, NEW tags
    PROVE  Labels(e, tags, tags)
BY DEF Labels, Labelled, Writes, Removes

LEMMA OldType ==
    ASSUME StateOK, NEW s \in Stores
    PROVE  LET old == copy[s].row
           IN  /\ RowOK(old) /\ old.status \in Statuses /\ old.since \in Int /\ old.title \in Int
               /\ old.claim \in Int /\ old.tags \in SUBSET Tags /\ (old.status \notin {"pending", "active"} => old.claim = 0)
               /\ old = Made(old, old.status, old.since, old.title, old.claim, old.tracked, old.adj, old.tags)
BY DEF StateOK, CopyOK, RowOK, Shaped, Open, Made

LEMMA StartWrites ==
    ASSUME StateOK, NEW s \in Stores, Start(s, copy[s].row)
    PROVE  \E row, events : Edit(s, row, events) /\ Edited(s, row, events) /\ Timely(s, row, events)
<1> DEFINE old == copy[s].row
           row == [old EXCEPT !.status = "active", !.since = Clock(s)]
           e == [Logged(s, "start") EXCEPT !.since = Clock(s)]
<1>1. Edit(s, row, {e})
    BY DEF Start
<1>2. e.op = "start" /\ e.id = Id(s, 0) /\ e.at = Clock(s) /\ e.since = Clock(s)
    BY LoggedFields
<1>3. row = [old EXCEPT !.status = "active", !.since = Clock(s)]
    OBVIOUS
<1> HIDE DEF row, e
<1>4. old = Made(old, old.status, old.since, old.title, old.claim, old.tracked, old.adj, old.tags)
    BY OldType
<1>5. row = Made(old, "active", Clock(s), old.title, old.claim, old.tracked, old.adj, old.tags)
    BY <1>3, <1>4 DEF Made
<1>6. Clock(s) \in Nat
    BY ClockType
<1>7. RowOK(row) /\ row.status = "active" /\ row.since = Clock(s) /\ row.title = old.title
    BY <1>1, <1>5, <1>6, OldType, MadeOK DEF Statuses
<1>71. row.tags = old.tags
    BY <1>5 DEF Made
<1>72. Labels(e, row.tags, old.tags)
    BY <1>1, <1>2, <1>71, PlainLabels
<1>8. Edited(s, row, {e}) /\ Timely(s, row, {e})
    BY <1>72, <1>1, <1>2, <1>6, <1>7, OldType, OneEvent DEF Closing, Touches, Running
<1> QED
    BY <1>1, <1>8

LEMMA StopWrites ==
    ASSUME StateOK, NEW s \in Stores, Stop(s, copy[s].row)
    PROVE  \E row, events : Edit(s, row, events) /\ Edited(s, row, events) /\ Timely(s, row, events)
<1> DEFINE old == copy[s].row
           row == [old EXCEPT !.status = "pending", !.since = 0, !.tracked = old.tracked + Elapsed(s, old)]
           e == [Logged(s, "stop") EXCEPT !.since = old.since, !.secs = Elapsed(s, old)]
<1>1. Edit(s, row, {e}) /\ old.status = "active"
    BY DEF Stop
<1>2. e.op = "stop" /\ e.id = Id(s, 0) /\ e.at = Clock(s) /\ e.since = old.since /\ e.secs = Elapsed(s, old)
    BY LoggedFields
<1>3. row = [old EXCEPT !.status = "pending", !.since = 0, !.tracked = old.tracked + Elapsed(s, old)]
    OBVIOUS
<1> HIDE DEF row, e
<1>4. old = Made(old, old.status, old.since, old.title, old.claim, old.tracked, old.adj, old.tags)
    BY OldType
<1>5. row = Made(old, "pending", 0, old.title, old.claim, old.tracked + Elapsed(s, old), old.adj, old.tags)
    BY <1>3, <1>4 DEF Made
<1>6. Elapsed(s, old) \in Nat
    <2>1. old.since \in Int /\ Clock(s) \in Nat /\ SECOND \in Nat \ {0}
        BY OldType, ClockType, LogAssumption
    <2>2. Clock(s) \div SECOND \in Int /\ old.since \div SECOND \in Int
        BY <2>1
    <2> QED
        BY <2>2 DEF Elapsed, Secs
<1>7. RowOK(row) /\ row.status = "pending" /\ row.title = old.title
    BY <1>1, <1>5, <1>6, OldType, MadeOK DEF Statuses
<1>71. row.tags = old.tags
    BY <1>5 DEF Made
<1>72. Labels(e, row.tags, old.tags)
    BY <1>1, <1>2, <1>71, PlainLabels
<1>8. Edited(s, row, {e}) /\ Timely(s, row, {e})
    BY <1>72, <1>1, <1>2, <1>6, <1>7, OldType, OneEvent DEF Closing, Touches, Running
<1> QED
    BY <1>1, <1>8

LEMMA CloseWrites ==
    ASSUME StateOK, NEW s \in Stores, NEW op \in {"done", "cancel"}, NEW status \in {"done", "cancelled"},
           Close(s, copy[s].row, op, status)
    PROVE  \E row, events : Edit(s, row, events) /\ Edited(s, row, events) /\ Timely(s, row, events)
<1> DEFINE old == copy[s].row
           row == [old EXCEPT !.status = status, !.since = 0, !.claim = 0, !.tracked = old.tracked + Elapsed(s, old)]
           e == [Logged(s, op) EXCEPT !.since = Running(old)]
<1>1. Edit(s, row, {e})
    BY DEF Close
<1>2. e.op = op /\ e.id = Id(s, 0) /\ e.at = Clock(s) /\ e.since = Running(old)
    BY LoggedFields
<1>3. row = [old EXCEPT !.status = status, !.since = 0, !.claim = 0, !.tracked = old.tracked + Elapsed(s, old)]
    OBVIOUS
<1> HIDE DEF row, e
<1>4. old = Made(old, old.status, old.since, old.title, old.claim, old.tracked, old.adj, old.tags)
    BY OldType
<1>5. row = Made(old, status, 0, old.title, 0, old.tracked + Elapsed(s, old), old.adj, old.tags)
    BY <1>3, <1>4 DEF Made
<1>6. Running(old) \in Int
    BY OldType DEF Running
<1>7. RowOK(row) /\ row.status = status /\ row.title = old.title
    BY <1>1, <1>5, <1>6, OldType, MadeOK DEF Statuses
<1>71. row.tags = old.tags
    BY <1>5 DEF Made
<1>72. Labels(e, row.tags, old.tags)
    BY <1>1, <1>2, <1>71, PlainLabels
<1>8. Edited(s, row, {e}) /\ Timely(s, row, {e})
    BY <1>72, <1>1, <1>2, <1>6, <1>7, OldType, OneEvent DEF Closing, Touches, Running
<1> QED
    BY <1>1, <1>8

LEMMA ReopenWrites ==
    ASSUME StateOK, NEW s \in Stores, Reopen(s, copy[s].row)
    PROVE  \E row, events : Edit(s, row, events) /\ Edited(s, row, events) /\ Timely(s, row, events)
<1> DEFINE old == copy[s].row
           row == [old EXCEPT !.status = "pending"]
           e == Logged(s, "reopen")
<1>1. Edit(s, row, {e})
    BY DEF Reopen
<1>2. e.op = "reopen" /\ e.id = Id(s, 0) /\ e.at = Clock(s) /\ e.since = 0
    BY LoggedFields
<1>3. row = [old EXCEPT !.status = "pending"]
    OBVIOUS
<1> HIDE DEF row, e
<1>4. old = Made(old, old.status, old.since, old.title, old.claim, old.tracked, old.adj, old.tags)
    BY OldType
<1>5. row = Made(old, "pending", old.since, old.title, old.claim, old.tracked, old.adj, old.tags)
    BY <1>3, <1>4 DEF Made
<1>6. 0 \in Int
    OBVIOUS
<1>7. RowOK(row) /\ row.status = "pending" /\ row.title = old.title
    BY <1>1, <1>5, <1>6, OldType, MadeOK DEF Statuses
<1>71. row.tags = old.tags
    BY <1>5 DEF Made
<1>72. Labels(e, row.tags, old.tags)
    BY <1>1, <1>2, <1>71, PlainLabels
<1>8. Edited(s, row, {e}) /\ Timely(s, row, {e})
    BY <1>72, <1>1, <1>2, <1>6, <1>7, OldType, OneEvent DEF Closing, Touches, Running
<1> QED
    BY <1>1, <1>8

LEMMA ClaimWrites ==
    ASSUME StateOK, NEW s \in Stores, Claim(s, copy[s].row)
    PROVE  \E row, events : Edit(s, row, events) /\ Edited(s, row, events) /\ Timely(s, row, events)
<1> DEFINE old == copy[s].row
           row == [old EXCEPT !.claim = s]
           e == Logged(s, IF old.claim = s THEN "renew" ELSE "claim")
<1>1. Edit(s, row, {e}) /\ old.status \in {"pending", "active"}
    BY DEF Claim, Open
<1>2. e.op \in {"renew", "claim"} /\ e.id = Id(s, 0) /\ e.at = Clock(s) /\ e.since = 0
    BY LoggedFields
<1>3. row = [old EXCEPT !.claim = s]
    OBVIOUS
<1> HIDE DEF row, e
<1>4. old = Made(old, old.status, old.since, old.title, old.claim, old.tracked, old.adj, old.tags)
    BY OldType
<1>5. row = Made(old, old.status, old.since, old.title, s, old.tracked, old.adj, old.tags)
    BY <1>3, <1>4 DEF Made
<1>6. s \in Int
    BY DEF Stores
<1>7. RowOK(row) /\ row.status = old.status /\ row.since = old.since /\ row.title = old.title
    BY <1>1, <1>5, <1>6, OldType, MadeOK DEF Statuses
<1>71. row.tags = old.tags
    BY <1>5 DEF Made
<1>72. Labels(e, row.tags, old.tags)
    BY <1>1, <1>2, <1>71, PlainLabels
<1>8. Edited(s, row, {e}) /\ Timely(s, row, {e})
    BY <1>72, <1>1, <1>2, <1>6, <1>7, OldType, OneEvent DEF Closing, Touches, Running
<1> QED
    BY <1>1, <1>8

LEMMA ReleaseWrites ==
    ASSUME StateOK, NEW s \in Stores, Release(s, copy[s].row)
    PROVE  \E row, events : Edit(s, row, events) /\ Edited(s, row, events) /\ Timely(s, row, events)
<1> DEFINE old == copy[s].row
           row == [old EXCEPT !.claim = 0]
           e == Logged(s, "release")
<1>1. Edit(s, row, {e})
    BY DEF Release
<1>2. e.op = "release" /\ e.id = Id(s, 0) /\ e.at = Clock(s) /\ e.since = 0
    BY LoggedFields
<1>3. row = [old EXCEPT !.claim = 0]
    OBVIOUS
<1> HIDE DEF row, e
<1>4. old = Made(old, old.status, old.since, old.title, old.claim, old.tracked, old.adj, old.tags)
    BY OldType
<1>5. row = Made(old, old.status, old.since, old.title, 0, old.tracked, old.adj, old.tags)
    BY <1>3, <1>4 DEF Made
<1>6. 0 \in Int
    OBVIOUS
<1>7. RowOK(row) /\ row.status = old.status /\ row.since = old.since /\ row.title = old.title
    BY <1>1, <1>5, <1>6, OldType, MadeOK DEF Statuses
<1>71. row.tags = old.tags
    BY <1>5 DEF Made
<1>72. Labels(e, row.tags, old.tags)
    BY <1>1, <1>2, <1>71, PlainLabels
<1>8. Edited(s, row, {e}) /\ Timely(s, row, {e})
    BY <1>72, <1>1, <1>2, <1>6, <1>7, OldType, OneEvent DEF Closing, Touches, Running
<1> QED
    BY <1>1, <1>8

LEMMA RenameWrites ==
    ASSUME StateOK, NEW s \in Stores, NEW title \in Titles, Rename(s, copy[s].row, title)
    PROVE  \E row, events : Edit(s, row, events) /\ Edited(s, row, events) /\ Timely(s, row, events)
<1> DEFINE old == copy[s].row
           row == [old EXCEPT !.title = title]
           e == [Logged(s, "modify") EXCEPT !.cols = {"title"}]
<1>1. Edit(s, row, {e})
    BY DEF Rename
<1>2. e.op = "modify" /\ e.id = Id(s, 0) /\ e.at = Clock(s) /\ e.since = 0 /\ e.cols = {"title"}
    BY LoggedFields
<1>3. row = [old EXCEPT !.title = title]
    OBVIOUS
<1> HIDE DEF row, e
<1>4. old = Made(old, old.status, old.since, old.title, old.claim, old.tracked, old.adj, old.tags)
    BY OldType
<1>5. row = Made(old, old.status, old.since, title, old.claim, old.tracked, old.adj, old.tags)
    BY <1>3, <1>4 DEF Made
<1>6. title \in Int
    BY StoresAssumption
<1>7. RowOK(row) /\ row.status = old.status /\ row.since = old.since
    BY <1>1, <1>5, <1>6, OldType, MadeOK DEF Statuses
<1>71. row.tags = old.tags
    BY <1>5 DEF Made
<1>72. Labels(e, row.tags, old.tags)
    BY <1>1, <1>2, <1>71, PlainLabels
<1>73. Touches(e, "title") /\ ~Touches(e, "status") /\ e.op \notin Closing
    BY <1>2 DEF Touches, Closing
<1>8. Edited(s, row, {e}) /\ Timely(s, row, {e})
    BY <1>72, <1>73, <1>1, <1>2, <1>6, <1>7, OldType, OneEvent DEF Running
<1> QED
    BY <1>1, <1>8

LEMMA SetTotalWrites ==
    ASSUME StateOK, NEW s \in Stores, NEW total \in Totals, SetTotal(s, copy[s].row, total)
    PROVE  \E row, events : Edit(s, row, events) /\ Edited(s, row, events) /\ Timely(s, row, events)
<1> DEFINE old == copy[s].row
           row == [old EXCEPT !.tracked = total, !.adj = 0]
           e == [Logged(s, "modify") EXCEPT !.cols = {"tracked"}, !.total = total]
<1>1. Edit(s, row, {e})
    BY DEF SetTotal
<1>2. e.op = "modify" /\ e.id = Id(s, 0) /\ e.at = Clock(s) /\ e.since = 0 /\ e.cols = {"tracked"}
    BY LoggedFields
<1>3. row = [old EXCEPT !.tracked = total, !.adj = 0]
    OBVIOUS
<1> HIDE DEF row, e
<1>4. old = Made(old, old.status, old.since, old.title, old.claim, old.tracked, old.adj, old.tags)
    BY OldType
<1>5. row = Made(old, old.status, old.since, old.title, old.claim, total, 0, old.tags)
    BY <1>3, <1>4 DEF Made
<1>6. 0 \in Int
    OBVIOUS
<1>7. RowOK(row) /\ row.status = old.status /\ row.since = old.since /\ row.title = old.title
    BY <1>1, <1>5, <1>6, OldType, MadeOK DEF Statuses
<1>71. row.tags = old.tags
    BY <1>5 DEF Made
<1>72. Labels(e, row.tags, old.tags)
    BY <1>1, <1>2, <1>71, PlainLabels
<1>8. Edited(s, row, {e}) /\ Timely(s, row, {e})
    BY <1>72, <1>1, <1>2, <1>6, <1>7, OldType, OneEvent DEF Closing, Touches, Running
<1> QED
    BY <1>1, <1>8

LEMMA AdjustWrites ==
    ASSUME StateOK, NEW s \in Stores, NEW delta \in Deltas, Adjust(s, copy[s].row, delta)
    PROVE  \E row, events : Edit(s, row, events) /\ Edited(s, row, events) /\ Timely(s, row, events)
<1> DEFINE old == copy[s].row
           row == [old EXCEPT !.tracked = old.tracked + delta, !.adj = old.adj + delta]
           e == [Logged(s, "adjust_tracked") EXCEPT !.delta = delta]
<1>1. Edit(s, row, {e})
    BY DEF Adjust
<1>2. e.op = "adjust_tracked" /\ e.id = Id(s, 0) /\ e.at = Clock(s) /\ e.since = 0
    BY LoggedFields
<1>3. row = [old EXCEPT !.tracked = old.tracked + delta, !.adj = old.adj + delta]
    OBVIOUS
<1> HIDE DEF row, e
<1>4. old = Made(old, old.status, old.since, old.title, old.claim, old.tracked, old.adj, old.tags)
    BY OldType
<1>5. row = Made(old, old.status, old.since, old.title, old.claim, old.tracked + delta, old.adj + delta, old.tags)
    BY <1>3, <1>4 DEF Made
<1>6. 0 \in Int
    OBVIOUS
<1>7. RowOK(row) /\ row.status = old.status /\ row.since = old.since /\ row.title = old.title
    BY <1>1, <1>5, <1>6, OldType, MadeOK DEF Statuses
<1>71. row.tags = old.tags
    BY <1>5 DEF Made
<1>72. Labels(e, row.tags, old.tags)
    BY <1>1, <1>2, <1>71, PlainLabels
<1>8. Edited(s, row, {e}) /\ Timely(s, row, {e})
    BY <1>72, <1>1, <1>2, <1>6, <1>7, OldType, OneEvent DEF Closing, Touches, Running
<1> QED
    BY <1>1, <1>8

LEMMA AddTagWrites ==
    ASSUME StateOK, NEW s \in Stores, NEW tag \in Tags, AddTag(s, copy[s].row, tag)
    PROVE  \E row, events : Edit(s, row, events) /\ Edited(s, row, events) /\ Timely(s, row, events)
<1> DEFINE old == copy[s].row
           row == [old EXCEPT !.tags = old.tags \cup {tag}]
           e == [Logged(s, "tag.add") EXCEPT !.tag = tag]
<1>1. Edit(s, row, {e})
    BY DEF AddTag
<1>2. e.op = "tag.add" /\ e.id = Id(s, 0) /\ e.at = Clock(s) /\ e.since = 0 /\ e.tag = tag
    BY LoggedFields
<1>3. row = [old EXCEPT !.tags = old.tags \cup {tag}]
    OBVIOUS
<1> HIDE DEF row, e
<1>4. old = Made(old, old.status, old.since, old.title, old.claim, old.tracked, old.adj, old.tags)
    BY OldType
<1>5. row = Made(old, old.status, old.since, old.title, old.claim, old.tracked, old.adj, old.tags \cup {tag})
    BY <1>3, <1>4 DEF Made
<1>6. 0 \in Int
    OBVIOUS
<1>7. RowOK(row) /\ row.status = old.status /\ row.since = old.since /\ row.title = old.title
    BY <1>1, <1>5, <1>6, OldType, MadeOK DEF Statuses
<1>71. row.tags = old.tags \cup {tag}
    BY <1>5 DEF Made
<1>72. Labels(e, row.tags, old.tags)
    BY <1>2, <1>71 DEF Labels, Labelled, Writes, Removes
<1>8. Edited(s, row, {e}) /\ Timely(s, row, {e})
    BY <1>72, <1>1, <1>2, <1>6, <1>7, OldType, OneEvent DEF Closing, Touches, Running
<1> QED
    BY <1>1, <1>8

LEMMA RemoveTagWrites ==
    ASSUME StateOK, NEW s \in Stores, NEW tag \in Tags, RemoveTag(s, copy[s].row, tag)
    PROVE  \E row, events : Edit(s, row, events) /\ Edited(s, row, events) /\ Timely(s, row, events)
<1> DEFINE old == copy[s].row
           row == [old EXCEPT !.tags = old.tags \ {tag}]
           e == [Logged(s, "tag.remove") EXCEPT !.tag = tag]
<1>1. Edit(s, row, {e}) /\ tag \in old.tags
    BY DEF RemoveTag
<1>2. e.op = "tag.remove" /\ e.id = Id(s, 0) /\ e.at = Clock(s) /\ e.since = 0 /\ e.tag = tag
    BY LoggedFields
<1>3. row = [old EXCEPT !.tags = old.tags \ {tag}]
    OBVIOUS
<1> HIDE DEF row, e
<1>4. old = Made(old, old.status, old.since, old.title, old.claim, old.tracked, old.adj, old.tags)
    BY OldType
<1>5. row = Made(old, old.status, old.since, old.title, old.claim, old.tracked, old.adj, old.tags \ {tag})
    BY <1>3, <1>4 DEF Made
<1>6. 0 \in Int
    OBVIOUS
<1>7. RowOK(row) /\ row.status = old.status /\ row.since = old.since /\ row.title = old.title
    BY <1>1, <1>5, <1>6, OldType, MadeOK DEF Statuses
<1>71. row.tags = old.tags \ {tag}
    BY <1>5 DEF Made
<1>72. Labels(e, row.tags, old.tags)
    BY <1>1, <1>2, <1>71 DEF Labels, Labelled, Writes, Removes
<1>8. Edited(s, row, {e}) /\ Timely(s, row, {e})
    BY <1>72, <1>1, <1>2, <1>6, <1>7, OldType, OneEvent DEF Closing, Touches, Running
<1> QED
    BY <1>1, <1>8

LEMMA UndoStopWrites ==
    ASSUME StateOK, NEW s \in Stores, UndoStop(s, copy[s].row)
    PROVE  \E row, events : Edit(s, row, events) /\ Edited(s, row, events) /\ Timely(s, row, events)
<1> DEFINE old == copy[s].row
           ev == last[s].ev
           before == last[s].before
           row == [old EXCEPT !.status = "active", !.since = Rebuilt(ev), !.tracked = old.tracked - ev.secs]
           e == [UndoEvent(s) EXCEPT !.since = Rebuilt(ev), !.secs = ev.secs]
<1>1. Edit(s, row, {e}) /\ ev.op = "stop"
    BY DEF UndoStop
<1>2. e.op = "undo" /\ e.id = Id(s, 0) /\ e.at = Clock(s) /\ e.of = ev.op /\ e.since = Rebuilt(ev)
    BY LoggedFields DEF UndoEvent
<1>3. row = [old EXCEPT !.status = "active", !.since = Rebuilt(ev), !.tracked = old.tracked - ev.secs]
    OBVIOUS
<1> HIDE DEF row, e
<1>4. old = Made(old, old.status, old.since, old.title, old.claim, old.tracked, old.adj, old.tags)
    BY OldType
<1>5. row = Made(old, "active", Rebuilt(ev), old.title, old.claim, old.tracked - ev.secs, old.adj, old.tags)
    BY <1>3, <1>4 DEF Made
<1>6. RowOK(before) /\ EventOK(ev)
    BY DEF StateOK
<1>7. Rebuilt(ev) \in Int /\ Rebuilt(ev) <= ev.at
    <2>1. ev.at \in Nat /\ ev.secs \in Nat /\ SECOND \in Nat \ {0}
        BY <1>1, <1>6, LogAssumption DEF EventOK
    <2> DEFINE q == ev.at \div SECOND
    <2>2. q \in Int /\ SECOND * q <= ev.at
        BY <2>1
    <2> HIDE DEF q
    <2>3. SECOND * (q - ev.secs) = SECOND * q - SECOND * ev.secs /\ SECOND * ev.secs \in Nat
        BY <2>1, <2>2
    <2>4. SECOND * (q - ev.secs) \in Int /\ SECOND * q \in Int
        BY <2>1, <2>2
    <2>5. Rebuilt(ev) = SECOND * (q - ev.secs)
        BY DEF Rebuilt, q
    <2> QED
        BY <2>1, <2>2, <2>3, <2>4, <2>5
<1>8. RowOK(row) /\ row.status = "active" /\ row.since = Rebuilt(ev) /\ row.title = old.title
    BY <1>5, <1>7, OldType, MadeOK DEF Statuses
<1>71. row.tags = old.tags
    BY <1>5 DEF Made
<1>72. Labels(e, row.tags, old.tags)
    BY <1>1, <1>2, <1>71, PlainLabels
<1>9. Edited(s, row, {e}) /\ Timely(s, row, {e})
    BY <1>72, <1>1, <1>2, <1>6, <1>7, <1>8, OldType, OneEvent DEF Closing, Touches, Running
<1> QED
    BY <1>1, <1>9

LEMMA UndoAdjustWrites ==
    ASSUME StateOK, NEW s \in Stores, UndoAdjust(s, copy[s].row)
    PROVE  \E row, events : Edit(s, row, events) /\ Edited(s, row, events) /\ Timely(s, row, events)
<1> DEFINE old == copy[s].row
           ev == last[s].ev
           before == last[s].before
           row == [old EXCEPT !.tracked = old.tracked - ev.delta, !.adj = old.adj - ev.delta]
           e == UndoEvent(s)
<1>1. Edit(s, row, {e}) /\ ev.op = "adjust_tracked"
    BY DEF UndoAdjust
<1>2. e.op = "undo" /\ e.id = Id(s, 0) /\ e.at = Clock(s) /\ e.of = ev.op /\ e.since = 0
    BY LoggedFields DEF UndoEvent
<1>3. row = [old EXCEPT !.tracked = old.tracked - ev.delta, !.adj = old.adj - ev.delta]
    OBVIOUS
<1> HIDE DEF row, e
<1>4. old = Made(old, old.status, old.since, old.title, old.claim, old.tracked, old.adj, old.tags)
    BY OldType
<1>5. row = Made(old, old.status, old.since, old.title, old.claim, old.tracked - ev.delta, old.adj - ev.delta, old.tags)
    BY <1>3, <1>4 DEF Made
<1>6. RowOK(before) /\ EventOK(ev)
    BY DEF StateOK
<1>7. 0 \in Int
    OBVIOUS
<1>8. RowOK(row) /\ row.status = old.status /\ row.since = old.since /\ row.title = old.title
    BY <1>5, OldType, MadeOK DEF Statuses
<1>71. row.tags = old.tags
    BY <1>5 DEF Made
<1>72. Labels(e, row.tags, old.tags)
    BY <1>1, <1>2, <1>71, PlainLabels
<1>9. Edited(s, row, {e}) /\ Timely(s, row, {e})
    BY <1>72, <1>1, <1>2, <1>6, <1>7, <1>8, OldType, OneEvent DEF Closing, Touches, Running
<1> QED
    BY <1>1, <1>9

LEMMA UndoTagWrites ==
    ASSUME StateOK, NEW s \in Stores, UndoTag(s, copy[s].row)
    PROVE  \E row, events : Edit(s, row, events) /\ Edited(s, row, events) /\ Timely(s, row, events)
<1> DEFINE old == copy[s].row
           ev == last[s].ev
           before == last[s].before
           row == [old EXCEPT !.tags = before.tags]
           e == [UndoEvent(s) EXCEPT !.tag = IF before.tags = old.tags THEN 0 ELSE ev.tag]
<1>1. Edit(s, row, {e}) /\ ev.op \in {"tag.add", "tag.remove"}
    BY DEF UndoTag
<1>2. /\ e.op = "undo" /\ e.id = Id(s, 0) /\ e.at = Clock(s) /\ e.of = ev.op /\ e.since = 0
      /\ e.tag = IF before.tags = old.tags THEN 0 ELSE ev.tag
    BY LoggedFields DEF UndoEvent
<1>3. row = [old EXCEPT !.tags = before.tags]
    OBVIOUS
<1> HIDE DEF row, e
<1>4. old = Made(old, old.status, old.since, old.title, old.claim, old.tracked, old.adj, old.tags)
    BY OldType
<1>5. row = Made(old, old.status, old.since, old.title, old.claim, old.tracked, old.adj, before.tags)
    BY <1>3, <1>4 DEF Made
<1>6. RowOK(before) /\ EventOK(ev)
    BY DEF StateOK
<1>7. 0 \in Int
    OBVIOUS
<1>8. RowOK(row) /\ row.status = old.status /\ row.since = old.since /\ row.title = old.title
    <2>1. before.tags \in SUBSET Tags
        BY <1>6 DEF RowOK
    <2> QED
        BY <1>5, <2>1, OldType, MadeOK DEF Statuses
<1>71. row.tags = before.tags
    BY <1>5 DEF Made
<1>72. Labels(e, row.tags, old.tags)
    <2>1. Labelled(ev, old.tags, before.tags)
        BY DEF StateOK
    <2>2. 0 \notin Tags
        BY StoresAssumption
    <2>3. e.op = "undo" /\ e.of = ev.op
        BY <1>2
    <2> HIDE DEF ev, before, old
    <2>4. CASE before.tags = old.tags
        BY <1>2, <1>71, <2>2, <2>3, <2>4 DEF Labels, Labelled, Writes, Removes
    <2>5. CASE before.tags # old.tags
        <3>1. e.tag = ev.tag
            BY <1>2, <2>5
        <3>2. CASE ev.op = "tag.add"
            BY <1>71, <2>1, <2>3, <2>5, <3>1, <3>2 DEF Labels, Labelled, Writes, Removes
        <3>3. CASE ev.op = "tag.remove"
            BY <1>71, <2>1, <2>3, <2>5, <3>1, <3>3 DEF Labels, Labelled, Writes, Removes
        <3> QED
            BY <1>1, <3>2, <3>3
    <2> QED
        BY <2>4, <2>5
<1>9. Edited(s, row, {e}) /\ Timely(s, row, {e})
    BY <1>72, <1>1, <1>2, <1>6, <1>7, <1>8, OldType, OneEvent DEF Closing, Touches, Running
<1> QED
    BY <1>1, <1>9

LEMMA CancelByModifyWrites ==
    ASSUME StateOK, NEW s \in Stores, CancelByModify(s, copy[s].row)
    PROVE  \E row, events : Edit(s, row, events) /\ Edited(s, row, events) /\ Timely(s, row, events)
<1> DEFINE old == copy[s].row
           row == [old EXCEPT !.status = "cancelled", !.since = 0, !.claim = 0,
                              !.tracked = old.tracked + Elapsed(s, old)]
           cols == {"status"} \cup IF old.status = "active" THEN {"active_since"} ELSE {}
           e == [Logged(s, "modify") EXCEPT !.cols = cols]
<1>1. Edit(s, row, {e})
    BY DEF CancelByModify
<1>2. e.op = "modify" /\ e.id = Id(s, 0) /\ e.at = Clock(s) /\ e.since = 0 /\ e.cols = cols
    BY LoggedFields
<1>3. row = [old EXCEPT !.status = "cancelled", !.since = 0, !.claim = 0,
                        !.tracked = old.tracked + Elapsed(s, old)]
    OBVIOUS
<1>31. "status" \in cols
    OBVIOUS
<1> HIDE DEF row, e, cols
<1>4. old = Made(old, old.status, old.since, old.title, old.claim, old.tracked, old.adj, old.tags)
    BY OldType
<1>5. row = Made(old, "cancelled", 0, old.title, 0, old.tracked + Elapsed(s, old), old.adj, old.tags)
    BY <1>3, <1>4 DEF Made
<1>7. RowOK(row) /\ row.status = "cancelled" /\ row.title = old.title
    BY <1>1, <1>5, OldType, MadeOK DEF Statuses
<1>71. row.tags = old.tags
    BY <1>5 DEF Made
<1>72. Labels(e, row.tags, old.tags)
    BY <1>1, <1>2, <1>71, PlainLabels
<1>73. Touches(e, "status") /\ "status" \in e.cols /\ e.op \notin Closing
    BY <1>2, <1>31 DEF Touches, Closing
<1>8. Edited(s, row, {e}) /\ Timely(s, row, {e})
    <2> HIDE DEF old
    <2> QED
        BY <1>72, <1>73, <1>2, <1>7, OneEvent DEF old
<1> QED
    BY <1>1, <1>8

\* The undo of a close writes a second event where it gives a claim back.
LEMMA UndoCloseWrites ==
    ASSUME StateOK, NEW s \in Stores, UndoClose(s, copy[s].row)
    PROVE  \E row, events : Edit(s, row, events) /\ Edited(s, row, events) /\ Timely(s, row, events)
<1> DEFINE old == copy[s].row
           ev == last[s].ev
           before == last[s].before
           row == [old EXCEPT !.status = before.status, !.since = before.since,
                              !.claim = before.claim, !.tracked = before.tracked]
           e == [UndoEvent(s) EXCEPT !.id = Id(s, 1), !.since = ev.since, !.secs = old.tracked - before.tracked]
           f == Logged(s, "renew")
<1>1. /\ Edit(s, row, {e} \cup IF before.claim = 0 THEN {} ELSE {f})
      /\ ev.op \in {"done", "cancel"}
    BY DEF UndoClose
<1>2. /\ e.op = "undo" /\ e.id = Id(s, 1) /\ e.at = Clock(s) /\ e.of = ev.op /\ e.since = ev.since
      /\ f.op = "renew" /\ f.id = Id(s, 0) /\ f.at = Clock(s) /\ f.since = 0
    BY LoggedFields DEF UndoEvent
<1>3. row = [old EXCEPT !.status = before.status, !.since = before.since,
                        !.claim = before.claim, !.tracked = before.tracked]
    OBVIOUS
<1> HIDE DEF row, e, f
<1>4. old = Made(old, old.status, old.since, old.title, old.claim, old.tracked, old.adj, old.tags)
    BY OldType
<1>5. row = Made(old, before.status, before.since, old.title, before.claim, before.tracked, old.adj, old.tags)
    BY <1>3, <1>4 DEF Made
<1>6. /\ before.status \in Statuses /\ before.since \in Int /\ before.claim \in Int
      /\ before.status \in {"pending", "active"} \/ before.claim = 0
      /\ ev.since \in Int
    BY DEF StateOK, RowOK, EventOK, Open
<1>7. RowOK(row) /\ row.status = before.status /\ row.since = before.since /\ row.title = old.title
    BY <1>5, <1>6, OldType, MadeOK
<1>71. row.tags = old.tags
    BY <1>5 DEF Made
<1>72. Labels(e, row.tags, old.tags)
    BY <1>1, <1>2, <1>71, PlainLabels
<1>8. Edited(s, row, {e}) /\ Timely(s, row, {e})
    BY <1>72, <1>1, <1>2, <1>6, <1>7, OldType, OneEvent DEF Closing, Touches, Running
<1>9. CASE before.claim = 0
    <2>1. {e} \cup (IF before.claim = 0 THEN {} ELSE {f}) = {e}
        BY <1>9
    <2> QED
        BY <1>1, <1>8, <2>1
<1>10. CASE before.claim # 0
    <2>1. Edit(s, row, {e} \cup {f})
        BY <1>1, <1>10
    <2>2. Id(s, 0) \in Nat /\ Clock(s) \in Nat /\ Id(s, 0) # Id(s, 1)
        BY ClockType
    <2>3. EventOK(f) /\ ~Slow(f)
        BY <1>2, <2>2 DEF EventOK, Slow, Closing
    <2>4. EventOK(e) /\ HasLast({e})
        BY <1>8 DEF Edited
    <2>5. /\ HasLast({e} \cup {f})
          /\ \A g \in GROUPS : Edits({e} \cup {f}, g) # {} => HasLast(Edits({e} \cup {f}, g))
        <3>1. {e} \cup {f} \subseteq {e, f} /\ {e} \cup {f} # {}
            OBVIOUS
        <3>2. \A g \in GROUPS : Edits({e} \cup {f}, g) \subseteq {e, f}
            BY DEF Edits
        <3> QED
            BY <2>3, <2>4, <3>1, <3>2, LastOfPair
    <2>6. \A x, y \in {e} \cup {f} : x.id = y.id => x = y
        BY <1>2, <2>2
    <2>7. \A g \in Scalar : (\A x \in {e} \cup {f} : ~Touches(x, g)) => Value(row, g) = Value(old, g)
        BY <1>8 DEF Edited
    <2>8. \A x \in {e} \cup {f} : EventOK(x) /\ x.op # "add" /\ x.op # "modify" /\ x.at = Clock(s)
                                    /\ x.id \in {Id(s, 0), Id(s, 1)}
        BY <1>2, <2>3, <2>4
    <2>81. \A x \in {e} \cup {f} : Labels(x, row.tags, old.tags)
        BY <1>2, <1>71, <1>72, PlainLabels
    <2>82. Clocked(s, row, {e} \cup {f})
        BY <1>1, <1>2 DEF Clocked, Resumed, Touches, Closing
    <2> HIDE DEF ev, before
    <2>9. Edited(s, row, {e} \cup {f})
        BY <1>7, <2>5, <2>6, <2>7, <2>8, <2>81, <2>82 DEF Edited, Spared
    <2>10. Timely(s, row, {e} \cup {f})
        BY <1>8, <2>3 DEF Timely
    <2> QED
        BY <2>1, <2>9, <2>10
<1> QED
    BY <1>9, <1>10

\* So does the undo of a modify.
LEMMA UndoModifyWrites ==
    ASSUME StateOK, NEW s \in Stores, UndoModify(s, copy[s].row)
    PROVE  \E row, events : Edit(s, row, events) /\ Edited(s, row, events) /\ Timely(s, row, events)
<1> DEFINE old == copy[s].row
           ev == last[s].ev
           before == last[s].before
           row == [old EXCEPT !.status = before.status, !.since = before.since,
                              !.title = before.title, !.claim = before.claim,
                              !.tracked = before.tracked, !.adj = before.adj]
           e == [UndoEvent(s) EXCEPT !.id = Id(s, 1), !.cols = ev.cols]
           f == Logged(s, "renew")
<1>1. /\ Edit(s, row, {e} \cup IF before.claim = old.claim THEN {} ELSE {f})
      /\ ev.op = "modify"
    BY DEF UndoModify
<1>2. /\ e.op = "undo" /\ e.id = Id(s, 1) /\ e.at = Clock(s) /\ e.of = ev.op /\ e.since = 0 /\ e.cols = ev.cols
      /\ f.op = "renew" /\ f.id = Id(s, 0) /\ f.at = Clock(s) /\ f.since = 0
    BY LoggedFields DEF UndoEvent
<1>3. row = [old EXCEPT !.status = before.status, !.since = before.since,
                        !.title = before.title, !.claim = before.claim,
                        !.tracked = before.tracked, !.adj = before.adj]
    OBVIOUS
<1> HIDE DEF row, e, f
<1>4. old = Made(old, old.status, old.since, old.title, old.claim, old.tracked, old.adj, old.tags)
    BY OldType
<1>5. row = Made(old, before.status, before.since, before.title, before.claim, before.tracked, before.adj, old.tags)
    BY <1>3, <1>4 DEF Made
<1>6. /\ before.status \in Statuses /\ before.since \in Int /\ before.claim \in Int /\ before.title \in Int
      /\ before.status \in {"pending", "active"} \/ before.claim = 0
      /\ Spared(ev, old, before)
    BY DEF StateOK, RowOK, Open
<1>7. RowOK(row) /\ row.status = before.status /\ row.since = before.since /\ row.title = before.title
    BY <1>5, <1>6, OldType, MadeOK
<1>71. row.tags = old.tags
    BY <1>5 DEF Made
<1>72. Labels(e, row.tags, old.tags)
    BY <1>1, <1>2, <1>71, PlainLabels
<1>73. /\ Touches(e, "status") \/ (row.status = old.status /\ row.since = old.since)
       /\ Touches(e, "title") \/ row.title = old.title
       /\ e.op \notin Closing /\ ~Touches(f, "status") /\ ~Touches(f, "title")
       /\ Touches(e, "status") => Resumed({e}) # {} /\ Resumed({e} \cup {f}) # {}
    BY <1>1, <1>2, <1>6, <1>7 DEF Touches, Closing, Spared, Resumed
<1>8. Edited(s, row, {e}) /\ Timely(s, row, {e})
    <2>1. row.status = "active" =>
             \/ row.since = copy[s].row.since /\ copy[s].row.status = "active"
             \/ row.since = last[s].before.since /\ last[s].before.status = "active"
        BY <1>7
    <2> HIDE DEF old, before, ev
    <2> QED
        BY <2>1, <1>72, <1>73, <1>1, <1>2, <1>6, <1>7, OldType, OneEvent DEF old
<1>9. CASE before.claim = old.claim
    <2>1. {e} \cup (IF before.claim = old.claim THEN {} ELSE {f}) = {e}
        BY <1>9
    <2> QED
        BY <1>1, <1>8, <2>1
<1>10. CASE before.claim # old.claim
    <2>1. Edit(s, row, {e} \cup {f})
        BY <1>1, <1>10
    <2>2. Id(s, 0) \in Nat /\ Clock(s) \in Nat /\ Id(s, 0) # Id(s, 1)
        BY ClockType
    <2>3. EventOK(f) /\ ~Slow(f)
        BY <1>2, <2>2 DEF EventOK, Slow, Closing
    <2>4. EventOK(e) /\ HasLast({e})
        BY <1>8 DEF Edited
    <2>5. /\ HasLast({e} \cup {f})
          /\ \A g \in GROUPS : Edits({e} \cup {f}, g) # {} => HasLast(Edits({e} \cup {f}, g))
        <3>1. {e} \cup {f} \subseteq {e, f} /\ {e} \cup {f} # {}
            OBVIOUS
        <3>2. \A g \in GROUPS : Edits({e} \cup {f}, g) \subseteq {e, f}
            BY DEF Edits
        <3> QED
            BY <2>3, <2>4, <3>1, <3>2, LastOfPair
    <2>6. \A x, y \in {e} \cup {f} : x.id = y.id => x = y
        BY <1>2, <2>2
    <2>7. \A g \in Scalar : (\A x \in {e} \cup {f} : ~Touches(x, g)) => Value(row, g) = Value(old, g)
        BY <1>8 DEF Edited
    <2>8. \A x \in {e} \cup {f} : EventOK(x) /\ x.op # "add" /\ x.op # "modify" /\ x.at = Clock(s)
                                    /\ x.id \in {Id(s, 0), Id(s, 1)}
        BY <1>2, <2>3, <2>4
    <2>81. \A x \in {e} \cup {f} : Labels(x, row.tags, old.tags)
        BY <1>2, <1>71, <1>72, PlainLabels
    <2>82. Clocked(s, row, {e} \cup {f})
        <3>1. Clocked(s, row, {e})
            BY <1>8 DEF Edited
        <3>2. Resumed({e}) # {} => Resumed({e} \cup {f}) # {}
            BY DEF Resumed
        <3>3. ~(\E x \in {e} : {e} = {x} /\ x.op = "start")
            BY <1>2
        <3> QED
            BY <1>2, <1>73, <3>1, <3>2, <3>3 DEF Clocked, Closing
    <2> HIDE DEF ev, before
    <2>9. Edited(s, row, {e} \cup {f})
        BY <1>7, <2>5, <2>6, <2>7, <2>8, <2>81, <2>82 DEF Edited, Spared
    <2>10. Timely(s, row, {e} \cup {f})
        BY <1>8, <2>3 DEF Timely
    <2> QED
        BY <2>1, <2>9, <2>10
<1> QED
    BY <1>9, <1>10

LEMMA EveryEdit ==
    ASSUME StateOK, NEW s \in Stores, UserEdit(s, copy[s].row) \/ Undo(s, copy[s].row)
    PROVE  \E row, events : Edit(s, row, events) /\ Edited(s, row, events) /\ Timely(s, row, events)
<1> DEFINE Goal == \E row, events : Edit(s, row, events) /\ Edited(s, row, events) /\ Timely(s, row, events)
<1>1. CASE UserEdit(s, copy[s].row)
    <2>1. Start(s, copy[s].row) => Goal
        BY StartWrites
    <2>2. Stop(s, copy[s].row) => Goal
        BY StopWrites
    <2>3. Close(s, copy[s].row, "done", "done") \/ Close(s, copy[s].row, "cancel", "cancelled") => Goal
        BY CloseWrites
    <2>4. Reopen(s, copy[s].row) => Goal
        BY ReopenWrites
    <2>5. Claim(s, copy[s].row) => Goal
        BY ClaimWrites
    <2>6. Release(s, copy[s].row) => Goal
        BY ReleaseWrites
    <2>61. CancelByModify(s, copy[s].row) => Goal
        BY CancelByModifyWrites
    <2>7. (\E title \in Titles : Rename(s, copy[s].row, title)) => Goal
        BY RenameWrites
    <2>8. (\E total \in Totals : SetTotal(s, copy[s].row, total)) => Goal
        BY SetTotalWrites
    <2>9. (\E delta \in Deltas : Adjust(s, copy[s].row, delta)) => Goal
        BY AdjustWrites
    <2>10. (\E tag \in Tags : AddTag(s, copy[s].row, tag) \/ RemoveTag(s, copy[s].row, tag)) => Goal
        BY AddTagWrites, RemoveTagWrites
    <2> HIDE DEF Goal
    <2>11. Goal
        BY <1>1, <2>1, <2>2, <2>3, <2>4, <2>5, <2>6, <2>61, <2>7, <2>8, <2>9, <2>10, Zenon DEF UserEdit
    <2> QED
        BY <2>11 DEF Goal
<1>2. CASE Undo(s, copy[s].row)
    BY <1>2, UndoStopWrites, UndoCloseWrites, UndoModifyWrites, UndoAdjustWrites, UndoTagWrites DEF Undo
<1> QED
    BY <1>1, <1>2

-----------------------------------------------------------------------------
(* The steps *)

Stamped(s, row) == [row EXCEPT !.modified = Clock(s), !.rev = copy[s].row.rev + 1]

LEMMA StampedOK ==
    ASSUME StateOK, NEW s \in Stores, NEW row, RowOK(row)
    PROVE  /\ RowOK(Stamped(s, row))
           /\ Stamped(s, row).rev = copy[s].row.rev + 1
           /\ Stamped(s, row).status = row.status /\ Stamped(s, row).since = row.since
           /\ Stamped(s, row).title = row.title /\ Stamped(s, row).tags = row.tags
           /\ \A g \in GROUPS : Value(Stamped(s, row), g) = Value(row, g)
<1> DEFINE m == Stamped(s, row)
<1>1. Clock(s) \in Nat /\ copy[s].row.rev \in Nat
    BY ClockType DEF StateOK, CopyOK, RowOK
<1>2. row = [status |-> row.status, since |-> row.since, title |-> row.title, claim |-> row.claim,
             tracked |-> row.tracked, adj |-> row.adj, modified |-> row.modified, tags |-> row.tags,
             rev |-> row.rev]
    BY DEF RowOK, Shaped
<1>3. m = [row EXCEPT !.modified = Clock(s), !.rev = copy[s].row.rev + 1]
    BY DEF Stamped
<1> HIDE DEF m
<1>4. m = [status |-> row.status, since |-> row.since, title |-> row.title, claim |-> row.claim,
           tracked |-> row.tracked, adj |-> row.adj, modified |-> Clock(s), tags |-> row.tags,
           rev |-> copy[s].row.rev + 1]
    BY <1>2, <1>3
<1>5. /\ m.status = row.status /\ m.since = row.since /\ m.title = row.title /\ m.claim = row.claim
      /\ m.modified = Clock(s) /\ m.rev = copy[s].row.rev + 1 /\ m.tags = row.tags /\ Shaped(m)
    BY <1>4 DEF Shaped
<1>6. RowOK(m)
    BY <1>1, <1>5 DEF RowOK, Open
<1> QED
    BY <1>5, <1>6 DEF m, Value

LEMMA EditMoves ==
    ASSUME StateOK, NEW s \in Stores, NEW row, NEW events, Edit(s, row, events)
    PROVE  /\ now' \in Nat /\ now' >= now /\ scene' = scene /\ doc' = doc
           /\ OverStores(copy)' /\ OverStores(last)'
           /\ copy'[s] = [row |-> Stamped(s, row), log |-> copy[s].log \cup events]
           /\ last'[s] = [ev |-> Last(events), before |-> copy[s].row]
           /\ \A r \in Stores \ {s} : copy'[r] = copy[r] /\ last'[r] = last[r]
           /\ \A e \in copy[s].log : e.at # Clock(s)
<1>1. now' \in Nat /\ now' >= now
    <2>1. \A step \in Steps : step \in Nat
        BY StoresAssumption
    <2> QED
        BY <2>1 DEF Edit, StateOK
<1>2. /\ copy' = [copy EXCEPT ![s] = [row |-> Stamped(s, row), log |-> copy[s].log \cup events]]
      /\ last' = [last EXCEPT ![s] = [ev |-> Last(events), before |-> copy[s].row]]
      /\ scene' = scene /\ doc' = doc /\ \A e \in copy[s].log : e.at # Clock(s)
    BY DEF Edit, Stamped
<1>3. OverStores(copy) /\ OverStores(last)
    BY DEF StateOK
<1> QED
    BY <1>1, <1>2, <1>3 DEF OverStores

LEMMA EditCopyOK ==
    ASSUME StateOK, NEW s \in Stores, Has(s), NEW row, NEW events, Edit(s, row, events), Edited(s, row, events)
    PROVE  CopyOK(copy'[s])
<1> DEFINE c == copy'[s]
           old == copy[s]
<1>0. /\ now' \in Nat /\ now' >= now /\ scene' = scene /\ doc' = doc
      /\ OverStores(copy)' /\ OverStores(last)'
      /\ copy'[s] = [row |-> Stamped(s, row), log |-> copy[s].log \cup events]
      /\ last'[s] = [ev |-> Last(events), before |-> copy[s].row]
      /\ \A r \in Stores \ {s} : copy'[r] = copy[r] /\ last'[r] = last[r]
    BY EditMoves
<1>1. c = [row |-> Stamped(s, row), log |-> old.log \cup events]
    BY <1>0
<1>2. RowOK(Stamped(s, row))
    BY StampedOK DEF Edited
<1>3. \A e \in events : EventOK(e)
    BY DEF Edited
<1>4. CopyOK(old) /\ old.log # {}
    BY DEF StateOK, Has
<1> HIDE DEF c, old
<1>5. \A e \in c.log : EventOK(e)
    BY <1>1, <1>3, <1>4 DEF CopyOK
<1>6. \E e \in c.log : e.op = "add"
    BY <1>1, <1>4 DEF CopyOK
<1>7. ASSUME NEW g \in GROUPS, Edits(c.log, g) # {}
      PROVE  HasLast(Edits(c.log, g))
    <2>1. Edits(c.log, g) = Edits(old.log, g) \cup Edits(events, g)
        BY <1>1, EditsUnion
    <2>2. Edits(old.log, g) # {} => HasLast(Edits(old.log, g))
        BY <1>4 DEF CopyOK
    <2>3. Edits(events, g) # {} => HasLast(Edits(events, g))
        BY <1>7 DEF Edited
    <2>4. \A e \in Edits(old.log, g) \cup Edits(events, g) : EventOK(e)
        BY <1>3, <1>4 DEF CopyOK, Edits
    <2> QED
        BY <1>7, <2>1, <2>2, <2>3, <2>4, LastOfTwo
<1>8. CopyOK(c)
    BY <1>1, <1>2, <1>5, <1>6, <1>7 DEF CopyOK
<1> QED
    BY <1>8 DEF c

LEMMA StateStart == Init => StateOK
<1> SUFFICES ASSUME Init PROVE StateOK
    OBVIOUS
<1> DEFINE add == Event("add", 0, SECOND)
           nothing == Event("import", 0, 0)
<1>1. SECOND \in Nat \ {0}
    BY LogAssumption
<1>2. RowOK(NewRow)
    BY <1>1 DEF RowOK, NewRow, Shaped, Statuses, Open
<1>3. EventOK(add) /\ add.op = "add"
    BY <1>1 DEF EventOK, Event
<1>4. /\ EventOK(nothing) /\ nothing.op = "import" /\ \A tags : Labelled(nothing, tags, tags)
      /\ \A row, before : Spared(nothing, row, before)
    BY DEF EventOK, Event, Labelled, Spared
<1>5. CopyOK(Absent)
    BY <1>2 DEF CopyOK, Absent, Edits
<1> HIDE DEF add, nothing
<1>6. ASSUME NEW c, c = [row |-> NewRow, log |-> {add}]
      PROVE  CopyOK(c)
    <2>1. \A g \in GROUPS : Edits(c.log, g) = {add}
        BY <1>3, <1>6 DEF Edits, Touches
    <2> QED
        BY <1>2, <1>3, <1>6, <2>1, LastOfOne DEF CopyOK
<1>7. /\ copy = [s \in Stores |-> IF s = 1 THEN [row |-> NewRow, log |-> {add}] ELSE Absent]
      /\ doc = [s \in Stores |-> Absent]
      /\ last = [s \in Stores |-> [ev |-> nothing, before |-> NewRow]]
      /\ now = SECOND + 1 /\ scene \in Scenes
    BY DEF Init, Nothing, add, nothing
<1>8. \A s \in Stores : copy[s].row = NewRow /\ last[s] = [ev |-> nothing, before |-> NewRow]
    BY <1>7 DEF Absent
<1> QED
    BY <1>1, <1>2, <1>4, <1>5, <1>6, <1>7, <1>8 DEF StateOK, OverStores

LEMMA StateEdit ==
    ASSUME StateOK, NEW s \in Stores, Has(s), NEW row, NEW events, Edit(s, row, events), Edited(s, row, events)
    PROVE  StateOK'
<1>1. CopyOK(copy'[s])
    BY EditCopyOK
<1>2. EventOK(Last(events)) /\ Last(events) \in events
    BY LastOf DEF Edited
<1>3. Spared(Last(events), Stamped(s, row), copy[s].row)
    BY <1>2, StampedOK DEF Edited, Spared
<1>31. Labelled(Last(events), Stamped(s, row).tags, copy[s].row.tags)
    BY <1>2, StampedOK DEF Edited, Labels
<1>4. RowOK(copy[s].row)
    BY DEF StateOK, CopyOK
<1>5. /\ now' \in Nat /\ now' >= now /\ scene' = scene /\ doc' = doc
      /\ OverStores(copy)' /\ OverStores(last)'
      /\ copy'[s] = [row |-> Stamped(s, row), log |-> copy[s].log \cup events]
      /\ last'[s] = [ev |-> Last(events), before |-> copy[s].row]
      /\ \A r \in Stores \ {s} : copy'[r] = copy[r] /\ last'[r] = last[r]
    BY EditMoves
<1>6. ASSUME NEW r \in Stores
      PROVE  /\ CopyOK(copy'[r]) /\ CopyOK(doc'[r])
             /\ last'[r] = [ev |-> last'[r].ev, before |-> last'[r].before]
             /\ EventOK(last'[r].ev) /\ RowOK(last'[r].before)
             /\ Spared(last'[r].ev, copy'[r].row, last'[r].before)
             /\ Labelled(last'[r].ev, copy'[r].row.tags, last'[r].before.tags)
    <2>1. CASE r = s
        <3>1. copy'[s].row = Stamped(s, row)
            BY <1>5
        <3>2. /\ last'[s] = [ev |-> last'[s].ev, before |-> last'[s].before]
              /\ last'[s].ev = Last(events) /\ last'[s].before = copy[s].row
            BY <1>5
        <3>3. CopyOK(doc'[s])
            BY <1>5 DEF StateOK
        <3> QED
            BY <1>1, <1>2, <1>3, <1>31, <1>4, <2>1, <3>1, <3>2, <3>3
    <2>2. CASE r # s
        BY <1>5, <2>2 DEF StateOK
    <2> QED
        BY <2>1, <2>2
<1>7. now' > SECOND /\ scene' \in Scenes /\ OverStores(doc)'
    BY <1>5, LogAssumption DEF StateOK, OverStores
<1> QED
    BY <1>5, <1>6, <1>7 DEF StateOK

LEMMA StateSync ==
    ASSUME StateOK, Sync
    PROVE  StateOK'
<1>1. ASSUME NEW s \in Stores, Export(s)
      PROVE  StateOK'
    <2>1. /\ doc' = [doc EXCEPT ![s] = copy[s]]
          /\ now' = now /\ scene' = scene /\ copy' = copy /\ last' = last
        BY <1>1 DEF Export
    <2>2. OverStores(doc)' /\ \A r \in Stores : doc'[r] \in {doc[r], copy[r]}
        BY <2>1 DEF StateOK, OverStores
    <2> QED
        BY <2>1, <2>2 DEF StateOK, OverStores
<1>2. ASSUME NEW r \in Stores, NEW s \in Stores, Merge(r, s)
      PROVE  StateOK'
    <2> DEFINE m == Merged(copy[r], doc[s])
    <2>1. CopyOK(m)
        BY MergedOK DEF StateOK
    <2>2. /\ copy' = [copy EXCEPT ![r] = m] /\ last' = [last EXCEPT ![r] = Nothing]
          /\ now' = now /\ scene' = scene /\ doc' = doc
        BY <1>2 DEF Merge
    <2>3. /\ Nothing = [ev |-> Nothing.ev, before |-> Nothing.before]
          /\ EventOK(Nothing.ev) /\ Nothing.ev.op = "import" /\ RowOK(Nothing.before)
        <3>1. EventOK(Event("import", 0, 0)) /\ Event("import", 0, 0).op = "import"
            BY DEF EventOK, Event
        <3>2. RowOK(NewRow)
            BY LogAssumption DEF RowOK, NewRow, Shaped, Statuses, Open
        <3> QED
            BY <3>1, <3>2 DEF Nothing
    <2> HIDE DEF m
    <2>4. OverStores(copy) /\ OverStores(last)
        BY DEF StateOK
    <2>5. /\ OverStores(copy)' /\ OverStores(last)' /\ copy'[r] = m /\ last'[r] = Nothing
          /\ \A q \in Stores \ {r} : copy'[q] = copy[q] /\ last'[q] = last[q]
        BY <2>2, <2>4 DEF OverStores
    <2>6. ASSUME NEW q \in Stores
          PROVE  /\ CopyOK(copy'[q]) /\ CopyOK(doc'[q])
                 /\ last'[q] = [ev |-> last'[q].ev, before |-> last'[q].before]
                 /\ EventOK(last'[q].ev) /\ RowOK(last'[q].before)
                 /\ Spared(last'[q].ev, copy'[q].row, last'[q].before)
                 /\ Labelled(last'[q].ev, copy'[q].row.tags, last'[q].before.tags)
        <3>1. CASE q = r
            <4>1. CopyOK(copy'[q]) /\ CopyOK(doc'[q])
                BY <2>1, <2>2, <2>5, <3>1 DEF StateOK
            <4>2. last'[q] = Nothing
                BY <2>5, <3>1
            <4>3. /\ Spared(Nothing.ev, copy'[q].row, Nothing.before)
                  /\ Labelled(Nothing.ev, copy'[q].row.tags, Nothing.before.tags)
                BY <2>3 DEF Labelled, Spared
            <4> HIDE DEF Nothing
            <4> QED
                BY <2>3, <4>1, <4>2, <4>3
        <3>2. CASE q # r
            BY <2>2, <2>5, <3>2 DEF StateOK
        <3> QED
            BY <3>1, <3>2
    <2> QED
        BY <2>2, <2>5, <2>6 DEF StateOK, OverStores
<1> QED
    BY <1>1, <1>2 DEF Sync

LEMMA NextEdits ==
    ASSUME StateOK, Next
    PROVE  \/ Sync
           \/ \E s \in Stores : \E row, events :
                /\ Has(s) /\ Edit(s, row, events) /\ Edited(s, row, events) /\ Timely(s, row, events)
BY EveryEdit DEF Next

LEMMA StateStep == StateOK /\ [Next]_vars => StateOK'
<1> SUFFICES ASSUME StateOK, [Next]_vars PROVE StateOK'
    OBVIOUS
<1>1. CASE Next
    BY <1>1, NextEdits, StateSync, StateEdit
<1>2. CASE UNCHANGED vars
    BY <1>2 DEF vars, StateOK, OverStores
<1> QED
    BY <1>1, <1>2

LEMMA StateAlways == Spec => []StateOK
<1>1. Init => StateOK
    BY StateStart
<1>2. StateOK /\ [Next]_vars => StateOK'
    BY StateStep
<1> QED
    BY <1>1, <1>2, PTL DEF Spec

-----------------------------------------------------------------------------
(* What holds however far the clocks are apart *)

\* Two machines that merge each other's document end on one row, whatever the
\* edits, the clocks and the age of the documents were.
THEOREM MergeCommutesCorrect == Spec => []MergeCommutes
<1>1. StateOK => MergeCommutes
    <2> SUFFICES ASSUME StateOK, NEW a \in Rows, NEW b \in Rows
                 PROVE  Visible(Merged(a, b).row) = Visible(Merged(b, a).row)
        BY DEF MergeCommutes
    <2>1. CopyOK(a) /\ a.log # {} /\ CopyOK(b) /\ b.log # {}
        BY DEF Rows, Has, StateOK
    <2> QED
        BY <2>1, Commutes
<1> QED
    BY <1>1, StateAlways, PTL

\* When every store has exported what it holds and no document would bring any
\* of them anything, all of them hold one row.
THEOREM QuietIsOneRowCorrect == Spec => []QuietIsOneRow
<1>1. StateOK => QuietIsOneRow
    <2> SUFFICES ASSUME StateOK, Quiet, NEW r \in Stores, NEW s \in Stores
                 PROVE  Visible(copy[r].row) = Visible(copy[s].row)
        BY DEF QuietIsOneRow
    <2>1. /\ CopyOK(copy[r]) /\ copy[r].log # {} /\ CopyOK(copy[s]) /\ copy[s].log # {}
          /\ Merged(copy[r], copy[s]) = copy[r] /\ Merged(copy[s], copy[r]) = copy[s]
        <3>1. CopyOK(copy[r]) /\ CopyOK(copy[s])
            BY DEF StateOK
        <3>2. copy[r].log # {} /\ copy[s].log # {}
            BY DEF Quiet, Has
        <3>3. doc[r] = copy[r] /\ doc[s] = copy[s]
            BY DEF Quiet
        <3>4. Merged(copy[r], doc[s]) = copy[r] /\ Merged(copy[s], doc[r]) = copy[s]
            BY DEF Quiet
        <3> QED
            BY <3>1, <3>2, <3>3, <3>4
    <2>2. Visible(Merged(copy[r], copy[s]).row) = Visible(Merged(copy[s], copy[r]).row)
        BY <2>1, Commutes
    <2> QED
        BY <2>1, <2>2
<1> QED
    BY <1>1, StateAlways, PTL

LEMMA MergeTells ==
    ASSUME NEW a, CopyOK(a), a.log # {}, NEW b, CopyOK(b),
           Visible(Merged(a, b).row) # Visible(a.row)
    PROVE  Merged(a, b).row.rev > a.row.rev
<1> DEFINE scalars == MergedScalars(a, b)
           tags == MergedTags(a, b)
           m == Merged(a, b).row
<1>1. a.row.rev \in Nat /\ b.row.rev \in Nat /\ Shaped(a.row)
    BY DEF CopyOK, RowOK
<1>2. m.rev = MergedRev(a, b, scalars, tags)
    BY MergedFields
<1>3. CASE scalars # a.row \/ tags # a.row.tags
    BY <1>1, <1>2, <1>3 DEF MergedRev, Larger
<1>4. CASE scalars = a.row /\ tags = a.row.tags
    <2>1. m = [a.row EXCEPT !.tags = tags, !.rev = MergedRev(a, b, scalars, tags)]
        BY <1>4 DEF Merged, Rewritten, Upserted
    <2>2. MergedRev(a, b, scalars, tags) = a.row.rev
        BY <1>4 DEF MergedRev
    <2> HIDE DEF m, scalars, tags
    <2>3. m = [a.row EXCEPT !.tags = a.row.tags, !.rev = a.row.rev]
        BY <1>4, <2>1, <2>2
    <2>4. m = a.row
        BY <1>1, <2>3 DEF Shaped
    <2> QED
        BY <2>4 DEF m
<1> QED
    BY <1>3, <1>4

\* A caller who guards a write with the rev it has read is told of a merge that
\* changed the row in between.
THEOREM RevTellsOfMergeCorrect == Spec => RevTellsOfMerge
<1>1. ASSUME StateOK, [Next]_vars, NEW s \in Stores, Has(s), Visible(copy'[s].row) # Visible(copy[s].row)
      PROVE  copy'[s].row.rev > copy[s].row.rev
    <2>1. copy'[s] # copy[s]
        BY <1>1
    <2>2. CASE UNCHANGED vars
        BY <2>1, <2>2 DEF vars
    <2>3. CASE Sync
        <3>1. ASSUME NEW q \in Stores, Export(q)
              PROVE  FALSE
            <4>1. copy' = copy
                BY <3>1 DEF Export
            <4> QED
                BY <2>1, <4>1
        <3>2. PICK r \in Stores, q \in Stores : Merge(r, q)
            BY <2>3, <3>1 DEF Sync
        <3>3. copy' = [copy EXCEPT ![r] = Merged(copy[r], doc[q])]
            BY <3>2 DEF Merge
        <3>4. r = s /\ copy'[s] = Merged(copy[s], doc[q])
            BY <1>1, <2>1, <3>3 DEF StateOK, OverStores
        <3>5. CopyOK(copy[s]) /\ CopyOK(doc[q]) /\ copy[s].log # {}
            BY <1>1 DEF StateOK, Has
        <3> QED
            BY <1>1, <3>4, <3>5, MergeTells
    <2>4. ASSUME NEW q \in Stores, NEW row, NEW events, Edit(q, row, events), Edited(q, row, events)
          PROVE  copy'[s].row.rev > copy[s].row.rev
        <3>1. /\ now' \in Nat /\ now' >= now /\ scene' = scene /\ doc' = doc
              /\ OverStores(copy)' /\ OverStores(last)'
              /\ copy'[q] = [row |-> Stamped(q, row), log |-> copy[q].log \cup events]
              /\ last'[q] = [ev |-> Last(events), before |-> copy[q].row]
              /\ \A r \in Stores \ {q} : copy'[r] = copy[r] /\ last'[r] = last[r]
            BY <1>1, <2>4, EditMoves
        <3>2. s = q /\ copy'[s].row = Stamped(s, row)
            BY <2>1, <3>1
        <3>3. Stamped(s, row).rev = copy[s].row.rev + 1
            BY <1>1, <2>4, <3>2, StampedOK DEF Edited
        <3>4. copy[s].row.rev \in Nat
            BY <1>1 DEF StateOK, CopyOK, RowOK
        <3> QED
            BY <3>2, <3>3, <3>4
    <2> QED
        BY <1>1, <2>2, <2>3, <2>4, NextEdits
<1>2. StateOK /\ [Next]_vars =>
        \A s \in Stores : Has(s) /\ Visible(copy'[s].row) # Visible(copy[s].row)
                              => copy'[s].row.rev > copy[s].row.rev
    BY <1>1
<1> QED
    BY <1>2, StateAlways, PTL DEF Spec, RevTellsOfMerge

-----------------------------------------------------------------------------
(* What holds while the clocks agree: events are told apart by their places *)

Known == UNION {copy[s].log \cup doc[s].log : s \in Stores}

\* An id of its machine and its instant.
Minted(e) ==
    \/ e.op = "add" /\ e.at = SECOND /\ e.id = 0
    \/ e.at > SECOND /\ \E t \in Stores, n \in {0, 1} : e.id = 2 * (e.at * (Machines + 1) + t) + n

InTime ==
    /\ \A e \in Known, s \in Stores : e.at <= Clock(s)
    /\ \A e \in Known : ~Slow(e) /\ Minted(e)
    /\ \A s \in Stores :
        /\ Bounded(copy[s].row, copy[s].log) /\ Bounded(doc[s].row, doc[s].log)
        /\ Bounded(last[s].before, copy[s].log) /\ last[s].ev.at <= Clock(s)
Unique ==
    /\ \A e, f \in Known : e.at = f.at /\ e.id = f.id => e = f
    /\ \A s \in Stores, e \in Known : e.at = Clock(s) /\ e.id \in {Id(s, 0), Id(s, 1)} => e \in copy[s].log

LEMMA KnownOK ==
    ASSUME StateOK
    PROVE  \A e \in Known : EventOK(e)
BY DEF StateOK, CopyOK, Known

\* One more instant outweighs what an id adds within one.
LEMMA OneMore ==
    ASSUME NEW k \in Nat, NEW a \in Nat, NEW b \in Nat, a < b
    PROVE  k * b >= k * a + k /\ k * a \in Nat /\ k * b \in Nat
<1>1. PICK d \in Nat : b = a + 1 + d
    <2>1. b - a - 1 \in Nat /\ b = a + 1 + (b - a - 1)
        OBVIOUS
    <2> QED
        BY <2>1
<1>2. k * b = k * a + k + k * d
    BY <1>1
<1>3. k * d \in Nat /\ k * a \in Nat /\ k * b \in Nat
    OBVIOUS
<1> QED
    BY <1>2, <1>3

\* The place of an event that is not slow, its instant times one weight and a
\* remainder that is less.
Weight == 2 * MaxId + 2 * (Machines + 1)

LEMMA PlaceOf ==
    ASSUME NEW e, EventOK(e), ~Slow(e)
    PROVE  Place(e) = (2 * e.at) * MaxId + e.id
<1>1. e.at \in Nat /\ e.id \in Nat
    BY DEF EventOK
<1>2. When(e) = e.at
    BY DEF When
<1>3. (IF Slow(e) THEN 1 ELSE 0) = 0
    OBVIOUS
<1> QED
    BY <1>1, <1>2, <1>3 DEF Place

LEMMA PlaceMinted ==
    ASSUME NEW e, EventOK(e), ~Slow(e), NEW t \in Stores, NEW n \in {0, 1},
           e.id = 2 * (e.at * (Machines + 1) + t) + n
    PROVE  /\ Place(e) = Weight * e.at + (2 * t + n)
           /\ 2 * t + n \in Nat /\ 2 * t + n < Weight /\ Weight \in Nat
<1>1. e.at \in Nat /\ MaxId \in Nat /\ Machines \in Nat /\ t \in Nat /\ t <= Machines /\ n \in Nat /\ n <= 1
    BY LogAssumption, StoresAssumption DEF EventOK, Stores
<1>2. Place(e) = (2 * e.at) * MaxId + (2 * (e.at * (Machines + 1) + t) + n)
    BY PlaceOf
<1>3. (2 * e.at) * MaxId + (2 * (e.at * (Machines + 1) + t) + n)
        = (2 * MaxId + 2 * (Machines + 1)) * e.at + (2 * t + n)
    <2> DEFINE a == e.at
               m == Machines + 1
    <2>1. a \in Nat /\ m \in Nat
        BY <1>1
    <2> HIDE DEF a, m
    <2>2. (2 * a) * MaxId + (2 * (a * m + t) + n) = (2 * MaxId + 2 * m) * a + (2 * t + n)
        <3>1. a * MaxId \in Nat /\ a * m \in Nat
            BY <1>1, <2>1
        <3>2. (2 * a) * MaxId = 2 * (a * MaxId)
            BY <1>1, <2>1
        <3>3. (2 * MaxId + 2 * m) * a = 2 * (a * MaxId) + 2 * (a * m)
            BY <1>1, <2>1
        <3>4. 2 * (a * m + t) = 2 * (a * m) + 2 * t
            BY <1>1, <3>1
        <3> QED
            BY <1>1, <3>1, <3>2, <3>3, <3>4
    <2> QED
        BY <2>2 DEF a, m
<1> QED
    BY <1>1, <1>2, <1>3 DEF Weight

LEMMA PlaceTells ==
    ASSUME NEW e, EventOK(e), ~Slow(e), Minted(e), NEW f, EventOK(f), ~Slow(f), Minted(f)
    PROVE  /\ Place(e) = Place(f) => e.at = f.at /\ e.id = f.id
           /\ e.at < f.at => Place(e) < Place(f)
<1> DEFINE Own(x) == \E t \in Stores, n \in {0, 1} : x.id = 2 * (x.at * (Machines + 1) + t) + n
<1>1. ASSUME NEW x, EventOK(x), ~Slow(x), Own(x), NEW y, EventOK(y), ~Slow(y), Own(y), x.at < y.at
      PROVE  Place(x) < Place(y)
    <2>1. PICK t \in Stores, n \in {0, 1} : x.id = 2 * (x.at * (Machines + 1) + t) + n
        BY <1>1
    <2>2. PICK u \in Stores, m \in {0, 1} : y.id = 2 * (y.at * (Machines + 1) + u) + m
        BY <1>1
    <2>3. /\ Place(x) = Weight * x.at + (2 * t + n)
          /\ 2 * t + n \in Nat /\ 2 * t + n < Weight /\ Weight \in Nat
        BY <1>1, <2>1, PlaceMinted
    <2>4. Place(y) = Weight * y.at + (2 * u + m) /\ 2 * u + m \in Nat
        BY <1>1, <2>2, PlaceMinted
    <2>5. x.at \in Nat /\ y.at \in Nat
        BY <1>1 DEF EventOK
    <2>6. Weight * y.at >= Weight * x.at + Weight /\ Weight * x.at \in Nat /\ Weight * y.at \in Nat
        BY <1>1, <2>3, <2>5, OneMore
    <2> HIDE DEF Weight
    <2> QED
        BY <2>3, <2>4, <2>6
<1>2. ASSUME NEW x, EventOK(x), ~Slow(x), x.at = SECOND, x.id = 0,
             NEW y, EventOK(y), ~Slow(y), Own(y), SECOND < y.at
      PROVE  Place(x) < Place(y)
    <2>1. SECOND \in Nat /\ y.at \in Nat /\ y.id \in Nat /\ MaxId \in Nat
        BY <1>2, LogAssumption DEF EventOK
    <2>2. Place(x) = (2 * SECOND) * MaxId + 0 /\ Place(y) = (2 * y.at) * MaxId + y.id
        BY <1>2, PlaceOf
    <2>3. y.id > 0
        <3>1. PICK u \in Stores, m \in {0, 1} : y.id = 2 * (y.at * (Machines + 1) + u) + m
            BY <1>2
        <3>2. u \in Nat \ {0} /\ m \in Nat /\ Machines + 1 \in Nat
            BY StoresAssumption DEF Stores
        <3>3. y.at * (Machines + 1) \in Nat
            BY <2>1, <3>2
        <3> QED
            BY <3>1, <3>2, <3>3
    <2>4. MaxId * (2 * y.at) >= MaxId * (2 * SECOND) + MaxId /\ MaxId * (2 * SECOND) \in Nat
        <3>1. 2 * y.at \in Nat /\ 2 * SECOND \in Nat /\ 2 * SECOND < 2 * y.at
            BY <1>2, <2>1
        <3> QED
            BY <2>1, <3>1, OneMore
    <2>5. (2 * SECOND) * MaxId = MaxId * (2 * SECOND) /\ (2 * y.at) * MaxId = MaxId * (2 * y.at)
        BY <2>1
    <2>6. MaxId * (2 * y.at) \in Nat
        BY <2>1
    <2> QED
        BY <2>1, <2>2, <2>3, <2>4, <2>5, <2>6
<1>3. (e.at = SECOND /\ e.id = 0) \/ (e.at > SECOND /\ Own(e))
    BY DEF Minted
<1>4. (f.at = SECOND /\ f.id = 0) \/ (f.at > SECOND /\ Own(f))
    BY DEF Minted
<1> HIDE DEF Own
<1>5. e.at \in Nat /\ f.at \in Nat /\ e.id \in Nat /\ f.id \in Nat /\ SECOND \in Nat
    BY LogAssumption DEF EventOK
<1>6. e.at < f.at => Place(e) < Place(f)
    BY <1>1, <1>2, <1>3, <1>4, <1>5
<1>7. f.at < e.at => Place(f) < Place(e)
    BY <1>1, <1>2, <1>3, <1>4, <1>5
<1>8. Place(e) \in Int /\ Place(f) \in Int
    BY PlaceType
<1>9. Place(e) = Place(f) => e.at = f.at
    BY <1>5, <1>6, <1>7, <1>8
<1>10. e.at = f.at /\ Place(e) = Place(f) => e.id = f.id
    <2>1. Place(e) = (2 * e.at) * MaxId + e.id /\ Place(f) = (2 * f.at) * MaxId + f.id
        BY PlaceOf
    <2>2. (2 * e.at) * MaxId \in Nat
        BY <1>5, LogAssumption
    <2> QED
        BY <1>5, <2>1, <2>2
<1> QED
    BY <1>6, <1>9, <1>10

LEMMA KnownTold ==
    ASSUME StateOK, InTime, Unique, NEW e \in Known, NEW f \in Known
    PROVE  /\ Place(e) = Place(f) => e = f
           /\ e.at < f.at => Place(e) < Place(f)
BY KnownOK, PlaceTells DEF InTime, Unique

-----------------------------------------------------------------------------
(* The inductive invariant while the clocks agree *)

Alike ==
    \A a, b \in Copies, g \in Scalar :
        Last(Edits(a.log, g)) = Last(Edits(b.log, g)) => Value(a.row, g) = Value(b.row, g)

Told == InTime /\ Unique /\ Alike
IInv == StateOK /\ (Agree => Told)

LEMMA CopiesOK ==
    ASSUME StateOK, NEW c \in Copies
    PROVE  CopyOK(c) /\ c.log # {} /\ c.log \subseteq Known
<1>0. \A s \in Stores : copy[s].log \subseteq Known /\ doc[s].log \subseteq Known
    BY DEF Known
<1>1. CASE c \in Rows
    <2>1. PICK s \in Stores : copy[s].log # {} /\ c = copy[s]
        BY <1>1 DEF Rows, Has
    <2> QED
        BY <1>0, <2>1 DEF StateOK
<1>2. CASE c \in Documents
    <2>1. PICK s \in Stores : doc[s].log # {} /\ c = doc[s]
        BY <1>2 DEF Documents
    <2> QED
        BY <1>0, <2>1 DEF StateOK
<1> QED
    BY <1>1, <1>2 DEF Copies

LEMMA IdsApart ==
    ASSUME StateOK, NEW r \in Stores, NEW s \in Stores, Clock(r) = Clock(s), NEW n \in {0, 1}, NEW m \in {0, 1},
           Id(r, n) = Id(s, m)
    PROVE  r = s
<1> DEFINE x == Clock(s) * (Machines + 1)
<1>1. x \in Nat /\ r \in Nat /\ s \in Nat
    BY ClockType, StoresAssumption DEF Stores
<1>2. Id(r, n) = 2 * (x + r) + n /\ Id(s, m) = 2 * (x + s) + m
    BY DEF Id
<1> HIDE DEF x
<1>3. 2 * (x + r) + n = 2 * (x + s) + m
    BY <1>2
<1>4. \A i, j, k \in Nat : /\ 2 * (i + j) + 0 # 2 * (i + k) + 1
                           /\ 2 * (i + j) + 0 = 2 * (i + k) + 0 => j = k
                           /\ 2 * (i + j) + 1 = 2 * (i + k) + 1 => j = k
    OBVIOUS
<1>5. (n = 0 \/ n = 1) /\ (m = 0 \/ m = 1)
    OBVIOUS
<1> QED
    BY <1>1, <1>3, <1>4, <1>5

LEMMA ClocksAgree ==
    ASSUME StateOK, Agree, NEW s \in Stores, NEW row, NEW events, Edit(s, row, events), NEW r \in Stores
    PROVE  /\ Clock(r) = Clock(s) /\ Clock(r)' = Clock(s)' /\ Clock(r) \in Nat /\ Clock(r)' \in Nat
           /\ Clock(r)' >= Clock(r)
<1>1. scene.skew[r] = scene.skew[s] /\ scene.skew[r] \in Nat /\ now \in Nat
    BY StoresAssumption DEF StateOK, Agree, Stores
<1>2. /\ now' \in Nat /\ now' >= now /\ scene' = scene /\ doc' = doc
      /\ OverStores(copy)' /\ OverStores(last)'
      /\ copy'[s] = [row |-> Stamped(s, row), log |-> copy[s].log \cup events]
      /\ last'[s] = [ev |-> Last(events), before |-> copy[s].row]
      /\ \A q \in Stores \ {s} : copy'[q] = copy[q] /\ last'[q] = last[q]
    BY EditMoves
<1> QED
    BY <1>1, <1>2 DEF Clock

\* What an edit logs is no event any store or document has.
LEMMA Fresh ==
    ASSUME StateOK, Agree, InTime, Unique, NEW s \in Stores, NEW row, NEW events,
           Edit(s, row, events), Edited(s, row, events), Timely(s, row, events)
    PROVE  /\ \A e \in events, f \in Known : ~(e.at = f.at /\ e.id = f.id)
           /\ \A e \in events : ~Slow(e) /\ Minted(e)
           /\ row.status = "active" => row.since <= Clock(s)
           /\ \A f \in copy[s].log : f.at < Clock(s)
<1>1. \A f \in copy[s].log : f.at # Clock(s)
    BY DEF Edit
<1>2. copy[s].log \subseteq Known
    BY DEF Known
<1>3. \A f \in copy[s].log : f.at < Clock(s)
    BY <1>1, <1>2, ClockType, KnownOK DEF InTime, EventOK
<1>4. ASSUME NEW e \in events, NEW f \in Known, e.at = f.at, e.id = f.id
      PROVE  FALSE
    <2>1. e.at = Clock(s) /\ e.id \in {Id(s, 0), Id(s, 1)}
        BY DEF Edited
    <2>2. f.at = Clock(s) /\ f.id \in {Id(s, 0), Id(s, 1)}
        BY <1>4, <2>1
    <2>3. f \in copy[s].log
        BY <2>2 DEF Unique
    <2> QED
        BY <1>1, <2>2, <2>3
<1>5. (\A e \in events : ~Slow(e)) /\ (row.status = "active" => row.since <= Clock(s))
    BY <1>3 DEF Timely, InTime
<1>6. ASSUME NEW e \in events PROVE Minted(e)
    <2>1. e.at = Clock(s) /\ (e.id = Id(s, 0) \/ e.id = Id(s, 1))
        BY DEF Edited
    <2>2. Clock(s) > SECOND
        BY ClockType
    <2>3. \E n \in {0, 1} : e.id = 2 * (e.at * (Machines + 1) + s) + n
        BY <2>1 DEF Id
    <2> QED
        BY <2>1, <2>2, <2>3 DEF Minted
<1> QED
    BY <1>3, <1>4, <1>5, <1>6

LEMMA EditKnown ==
    ASSUME StateOK, NEW s \in Stores, NEW row, NEW events, Edit(s, row, events), Edited(s, row, events)
    PROVE  /\ Known' \subseteq Known \cup events
           /\ \A r \in Stores : copy[r].log \subseteq copy'[r].log
           /\ events \subseteq copy'[s].log
           /\ Copies' \subseteq Copies \cup {copy'[s]}
<1>1. /\ now' \in Nat /\ now' >= now /\ scene' = scene /\ doc' = doc
      /\ OverStores(copy)' /\ OverStores(last)'
      /\ copy'[s] = [row |-> Stamped(s, row), log |-> copy[s].log \cup events]
      /\ last'[s] = [ev |-> Last(events), before |-> copy[s].row]
      /\ \A q \in Stores \ {s} : copy'[q] = copy[q] /\ last'[q] = last[q]
    BY EditMoves
<1>2. \A r \in Stores : copy'[r].log = IF r = s THEN copy[s].log \cup events ELSE copy[r].log
    <2>1. copy'[s].log = copy[s].log \cup events
        BY <1>1
    <2>2. \A r \in Stores \ {s} : copy'[r].log = copy[r].log
        BY <1>1
    <2> QED
        BY <2>1, <2>2
<1>3. Known' \subseteq Known \cup events
    BY <1>1, <1>2 DEF Known
<1>4. Copies' \subseteq Copies \cup {copy'[s]}
    <2>1. ASSUME NEW c \in Rows' PROVE c \in Rows \/ c = copy'[s]
        BY <1>1, <2>1 DEF Rows, Has
    <2>2. Documents' = Documents
        BY <1>1 DEF Documents
    <2> QED
        BY <2>1, <2>2 DEF Copies
<1> QED
    BY <1>2, <1>3, <1>4

LEMMA EditInTime ==
    ASSUME StateOK, Agree, InTime, Unique, NEW s \in Stores, NEW row, NEW events,
           Edit(s, row, events), Edited(s, row, events), Timely(s, row, events)
    PROVE  InTime'
<1>1. /\ now' \in Nat /\ now' >= now /\ scene' = scene /\ doc' = doc
      /\ OverStores(copy)' /\ OverStores(last)'
      /\ copy'[s] = [row |-> Stamped(s, row), log |-> copy[s].log \cup events]
      /\ last'[s] = [ev |-> Last(events), before |-> copy[s].row]
      /\ \A q \in Stores \ {s} : copy'[q] = copy[q] /\ last'[q] = last[q]
    BY EditMoves
<1>2. \A r \in Stores : /\ Clock(r) = Clock(s) /\ Clock(r)' = Clock(s)' /\ Clock(r) \in Nat /\ Clock(r)' \in Nat
                         /\ Clock(r)' >= Clock(r)
    BY ClocksAgree
<1>3. Known' \subseteq Known \cup events
    BY EditKnown
<1>4. \A e \in events : e.at = Clock(s)
    BY DEF Edited
<1>5. ASSUME NEW e \in Known', NEW r \in Stores PROVE e.at <= Clock(r)'
    <2>1. CASE e \in Known
        BY <1>2, <2>1, KnownOK DEF InTime, EventOK
    <2>2. CASE e \in events
        BY <1>2, <1>4, <2>2
    <2> QED
        BY <1>3, <2>1, <2>2
<1>6. \A e \in Known' : ~Slow(e) /\ Minted(e)
    BY <1>3, Fresh DEF InTime
<1>7. copy'[s].row = Stamped(s, row) /\ copy'[s].log = copy[s].log \cup events
    BY <1>1
<1>8. last'[s].ev = Last(events) /\ last'[s].before = copy[s].row
    BY <1>1
<1>9. Last(events) \in events
    BY LastOf DEF Edited
<1>10. Bounded(copy'[s].row, copy'[s].log)
    <2>1. Stamped(s, row).status = row.status /\ Stamped(s, row).since = row.since
        BY StampedOK DEF Edited
    <2>2. row.status = "active" => row.since <= Clock(s)
        BY Fresh
    <2> QED
        BY <1>4, <1>7, <1>9, <2>1, <2>2 DEF Bounded
<1>11. Bounded(last'[s].before, copy'[s].log)
    <2>1. Bounded(copy[s].row, copy[s].log)
        BY DEF InTime
    <2> QED
        BY <1>7, <1>8, <2>1 DEF Bounded
<1>12. last'[s].ev.at <= Clock(s)'
    BY <1>2, <1>4, <1>8, <1>9
<1>13. ASSUME NEW r \in Stores
       PROVE  /\ Bounded(copy'[r].row, copy'[r].log) /\ Bounded(doc'[r].row, doc'[r].log)
              /\ Bounded(last'[r].before, copy'[r].log) /\ last'[r].ev.at <= Clock(r)'
    <2>1. Bounded(doc'[r].row, doc'[r].log)
        BY <1>1 DEF InTime
    <2>2. CASE r = s
        BY <1>10, <1>11, <1>12, <2>1, <2>2
    <2>3. CASE r # s
        <3>1. last[r].ev.at \in Nat
            BY DEF StateOK, EventOK
        <3> QED
            BY <1>1, <1>2, <2>1, <2>3, <3>1 DEF InTime
    <2> QED
        BY <2>2, <2>3
<1> QED
    BY <1>5, <1>6, <1>13 DEF InTime

LEMMA EditUnique ==
    ASSUME StateOK, Agree, InTime, Unique, NEW s \in Stores, NEW row, NEW events,
           Edit(s, row, events), Edited(s, row, events), Timely(s, row, events)
    PROVE  Unique'
<1>1. /\ now' \in Nat /\ now' >= now /\ scene' = scene /\ doc' = doc
      /\ OverStores(copy)' /\ OverStores(last)'
      /\ copy'[s] = [row |-> Stamped(s, row), log |-> copy[s].log \cup events]
      /\ last'[s] = [ev |-> Last(events), before |-> copy[s].row]
      /\ \A q \in Stores \ {s} : copy'[q] = copy[q] /\ last'[q] = last[q]
    BY EditMoves
<1>2. \A r \in Stores : /\ Clock(r) = Clock(s) /\ Clock(r)' = Clock(s)' /\ Clock(r) \in Nat /\ Clock(r)' \in Nat
                         /\ Clock(r)' >= Clock(r)
    BY ClocksAgree
<1>3. Known' \subseteq Known \cup events
    BY EditKnown
<1>4. \A e \in events : e.at = Clock(s) /\ e.id \in {Id(s, 0), Id(s, 1)}
    BY DEF Edited
<1>5. ASSUME NEW e \in Known', NEW f \in Known', e.at = f.at, e.id = f.id PROVE e = f
    <2>1. CASE e \in Known /\ f \in Known
        BY <1>5, <2>1 DEF Unique
    <2>2. CASE e \in events /\ f \in events
        BY <1>5, <2>2 DEF Edited
    <2>3. CASE (e \in events /\ f \in Known) \/ (e \in Known /\ f \in events)
        BY <1>5, <2>3, Fresh
    <2> QED
        BY <1>3, <2>1, <2>2, <2>3
<1>6. ASSUME NEW r \in Stores, NEW e \in Known', e.at = Clock(r)', e.id \in {Id(r, 0)', Id(r, 1)'}
      PROVE  e \in copy'[r].log
    <2>1. e.at <= Clock(r)
        <3>1. CASE e \in Known
            BY <3>1 DEF InTime
        <3>2. CASE e \in events
            BY <1>2, <1>4, <3>2
        <3> QED
            BY <1>3, <3>1, <3>2
    <2>2. Clock(r)' = Clock(r)
        BY <1>2, <1>6, <2>1
    <2>3. Id(r, 0)' = Id(r, 0) /\ Id(r, 1)' = Id(r, 1)
        BY <2>2 DEF Id
    <2>4. CASE e \in Known
        BY <1>6, <2>2, <2>3, <2>4, EditKnown DEF Unique
    <2>5. CASE e \in events
        <3>1. r = s
            BY <1>2, <1>4, <1>6, <2>3, <2>5, IdsApart
        <3> QED
            BY <2>5, <3>1, EditKnown
    <2> QED
        BY <1>3, <2>4, <2>5
<1> QED
    BY <1>5, <1>6 DEF Unique

LEMMA EditAlike ==
    ASSUME StateOK, Agree, Told, NEW s \in Stores, Has(s), NEW row, NEW events,
           Edit(s, row, events), Edited(s, row, events), Timely(s, row, events)
    PROVE  Alike'
<1> DEFINE c == copy'[s]
           old == copy[s]
<1>1. /\ now' \in Nat /\ now' >= now /\ scene' = scene /\ doc' = doc
      /\ OverStores(copy)' /\ OverStores(last)'
      /\ c = [row |-> Stamped(s, row), log |-> old.log \cup events]
      /\ last'[s] = [ev |-> Last(events), before |-> old.row]
      /\ \A q \in Stores \ {s} : copy'[q] = copy[q] /\ last'[q] = last[q]
    BY EditMoves
<1>2. Copies' \subseteq Copies \cup {c} /\ old \in Copies
    BY EditKnown DEF Copies, Rows
<1>3. c.row = Stamped(s, row) /\ c.log = old.log \cup events
    BY <1>1
<1>4. CopyOK(c)
    BY EditCopyOK
<1>5. CopyOK(old) /\ old.log # {} /\ old.log \subseteq Known
    BY <1>2, CopiesOK
<1>6. \A e \in events, f \in Known : ~(e.at = f.at /\ e.id = f.id)
    BY Fresh DEF Told
<1>7. \A f \in old.log : f.at < Clock(s)
    BY Fresh DEF Told
<1>8. \A g \in GROUPS : Value(Stamped(s, row), g) = Value(row, g)
    BY StampedOK DEF Edited
<1> HIDE DEF c, old
<1>9. ASSUME NEW a \in Copies, NEW g \in Scalar, Last(Edits(a.log, g)) = Last(Edits(c.log, g))
      PROVE  Value(a.row, g) = Value(c.row, g)
    <2>1. g \in GROUPS
        BY DEF Scalar, GROUPS
    <2>2. CopyOK(a) /\ a.log # {} /\ a.log \subseteq Known
        BY CopiesOK
    <2>3. Last(Edits(a.log, g)) \in Known
        BY <2>1, <2>2, EveryGroup DEF Edits
    <2>4. Last(Edits(c.log, g)) \notin events
        BY <1>6, <1>9, <2>3
    <2>5. Edits(c.log, g) = Edits(old.log, g) \cup Edits(events, g)
        BY <1>3, EditsUnion
    <2>6. Edits(events, g) = {}
        <3> SUFFICES ASSUME Edits(events, g) # {} PROVE FALSE
            OBVIOUS
        <3>1. PICK e \in events : e \in Edits(events, g)
            BY DEF Edits
        <3>2. c.log # {} /\ \A x \in c.log : EventOK(x)
            BY <1>3, <1>4, <1>5 DEF CopyOK
        <3> DEFINE l == Last(Edits(c.log, g))
        <3>3. l \in Edits(c.log, g) /\ HasLast(Edits(c.log, g))
            BY <1>4, <2>1, <3>2, EveryGroup
        <3>4. Place(e) <= Place(l)
            BY <2>5, <3>1, <3>3, LastOf
        <3>5. l \in old.log
            BY <1>3, <2>4, <3>3 DEF Edits
        <3>6. l.at < e.at
            BY <1>7, <3>5 DEF Edited
        <3>7. EventOK(e) /\ ~Slow(e) /\ Minted(e)
            BY Fresh DEF Told, Edited
        <3>8. EventOK(l) /\ ~Slow(l) /\ Minted(l)
            BY <1>5, <3>5, KnownOK DEF Told, InTime
        <3>9. Place(l) < Place(e)
            BY <3>6, <3>7, <3>8, PlaceTells
        <3>10. Place(l) \in Int /\ Place(e) \in Int
            BY <3>7, <3>8, PlaceType
        <3> HIDE DEF l
        <3> QED
            BY <3>4, <3>9, <3>10
    <2>7. Edits(c.log, g) = Edits(old.log, g)
        BY <2>5, <2>6
    <2>8. Value(a.row, g) = Value(old.row, g)
        BY <1>2, <1>9, <2>7 DEF Told, Alike
    <2>9. \A e \in events : ~Touches(e, g)
        BY <2>6 DEF Edits
    <2>10. Value(row, g) = Value(old.row, g)
        BY <2>9 DEF Edited, old
    <2> QED
        BY <1>3, <1>8, <2>1, <2>8, <2>10
<1>10. ASSUME NEW a \in Copies', NEW b \in Copies', NEW g \in Scalar,
              Last(Edits(a.log, g)) = Last(Edits(b.log, g))
       PROVE  Value(a.row, g) = Value(b.row, g)
    <2>1. CASE a \in Copies /\ b \in Copies
        BY <1>10, <2>1 DEF Told, Alike
    <2>2. CASE a = c \/ b = c
        BY <1>2, <1>9, <1>10, <2>2
    <2> QED
        BY <1>2, <2>1, <2>2
<1> QED
    BY <1>10 DEF Alike

\* A merge chooses a group's value from the copy that edited it last; where
\* both name one event as the last, they hold one value.
LEMMA MergeKeepsValue ==
    ASSUME StateOK, Told, NEW a \in Copies, NEW b \in Copies, NEW g \in Scalar
    PROVE  \E x \in {a, b} : /\ Last(Edits(Merged(a, b).log, g)) = Last(Edits(x.log, g))
                             /\ Value(Merged(a, b).row, g) = Value(x.row, g)
<1> DEFINE m == Merged(a, b)
           la == Last(Edits(a.log, g))
           lb == Last(Edits(b.log, g))
           lm == Last(Edits(m.log, g))
<1>1. g \in GROUPS
    BY DEF Scalar, GROUPS
<1>2. CopyOK(a) /\ a.log # {} /\ a.log \subseteq Known /\ CopyOK(b) /\ b.log # {} /\ b.log \subseteq Known
    BY CopiesOK
<1>3. m.log = a.log \cup b.log
    BY <1>2, MergedFields
<1>4. Value(m.row, g) = Chosen(a, b, g)
    <2>1. /\ m.row.status = Chosen(a, b, "status")[1] /\ m.row.since = Chosen(a, b, "status")[2]
          /\ m.row.title = Chosen(a, b, "title")
        BY <1>2, MergedFields
    <2>2. CASE g = "status"
        <3>1. \E x \in {a, b} : Chosen(a, b, g) = <<x.row.status, x.row.since>>
            BY <2>2, ChosenOne DEF Value
        <3> QED
            BY <2>1, <2>2, <3>1 DEF Value
    <2>3. CASE g = "title"
        BY <2>1, <2>3 DEF Value
    <2> QED
        BY <2>2, <2>3 DEF Scalar
<1>5. /\ Edits(a.log, g) # {} /\ HasLast(Edits(a.log, g)) /\ la \in Edits(a.log, g) /\ Place(la) \in Int
      /\ Edits(b.log, g) # {} /\ HasLast(Edits(b.log, g)) /\ lb \in Edits(b.log, g) /\ Place(lb) \in Int
    BY <1>1, <1>2, EveryGroup
<1>6. Edits(m.log, g) = Edits(a.log, g) \cup Edits(b.log, g)
    BY <1>3, EditsUnion
<1>7. la \in Known /\ lb \in Known
    BY <1>2, <1>5 DEF Edits
<1>8. /\ Place(lb) > Place(la) => Place(lm) = Place(lb)
      /\ Place(la) >= Place(lb) => Place(lm) = Place(la)
    <2>1. \A e \in Edits(a.log, g) \cup Edits(b.log, g) : EventOK(e)
        BY <1>2 DEF CopyOK, Edits
    <2> DEFINE A == Edits(a.log, g)
               B == Edits(b.log, g)
    <2>2. /\ \A e \in A \cup B : EventOK(e)
          /\ A # {} /\ B # {} /\ HasLast(A) /\ HasLast(B) /\ A \cup B # {}
          /\ Edits(m.log, g) = A \cup B
        BY <1>5, <1>6, <2>1
    <2> HIDE DEF A, B, m
    <2>3. /\ Place(Last(B)) > Place(Last(A)) => Place(Last(A \cup B)) = Place(Last(B))
          /\ Place(Last(A)) >= Place(Last(B)) => Place(Last(A \cup B)) = Place(Last(A))
        BY <2>2, LastOfTwo
    <2> QED
        BY <2>2, <2>3 DEF A, B
<1>9. lm \in Known
    <2>1. CopyOK(m) /\ m.log # {}
        BY <1>2, <1>3, MergedOK
    <2>2. lm \in Edits(m.log, g)
        BY <1>1, <2>1, EveryGroup
    <2> QED
        BY <1>2, <1>3, <2>2 DEF Edits
<1>10. LET w == PayloadWins(a.log, b.log, g, TieIsTheirs(a.row, b.row, g))
       IN  Place(la) # Place(lb) => (w <=> Place(lb) > Place(la))
    BY <1>5 DEF PayloadWins
<1> HIDE DEF m, la, lb, lm
<1>11. CASE Place(la) = Place(lb)
    <2>1. la = lb /\ lm = la
        BY <1>5, <1>7, <1>8, <1>9, <1>11, KnownTold DEF Told
    <2>2. Value(a.row, g) = Value(b.row, g)
        BY <2>1 DEF Told, Alike, la, lb
    <2>3. Chosen(a, b, g) = Value(a.row, g)
        BY <2>2, ChosenOne
    <2>4. lm = la /\ Value(m.row, g) = Value(a.row, g)
        BY <1>4, <2>1, <2>3
    <2> QED
        BY <2>4 DEF m, la, lm
<1>12. CASE Place(lb) > Place(la)
    <2>1. lm = lb
        BY <1>7, <1>8, <1>9, <1>12, KnownTold DEF Told
    <2>2. Chosen(a, b, g) = Value(b.row, g)
        BY <1>5, <1>10, <1>12 DEF Chosen
    <2>3. lm = lb /\ Value(m.row, g) = Value(b.row, g)
        BY <1>4, <2>1, <2>2
    <2> QED
        BY <2>3 DEF m, lb, lm
<1>13. CASE Place(la) > Place(lb)
    <2>1. lm = la
        BY <1>5, <1>7, <1>8, <1>9, <1>13, KnownTold DEF Told
    <2>2. Chosen(a, b, g) = Value(a.row, g)
        BY <1>5, <1>10, <1>13 DEF Chosen
    <2>3. lm = la /\ Value(m.row, g) = Value(a.row, g)
        BY <1>4, <2>1, <2>2
    <2> QED
        BY <2>3 DEF m, la, lm
<1> QED
    BY <1>5, <1>11, <1>12, <1>13

\* Copies whose every value is some copy's of the same last edit agree as those do.
LEMMA AlikeFrom ==
    ASSUME Alike, NEW C,
           \A c \in C, g \in Scalar : \E x \in Copies : /\ Last(Edits(c.log, g)) = Last(Edits(x.log, g))
                                                       /\ Value(c.row, g) = Value(x.row, g)
    PROVE  \A a, b \in C, g \in Scalar :
                Last(Edits(a.log, g)) = Last(Edits(b.log, g)) => Value(a.row, g) = Value(b.row, g)
BY DEF Alike

LEMMA ExportKeeps ==
    ASSUME StateOK, Told, NEW s \in Stores, Export(s)
    PROVE  Told'
<1>1. /\ doc' = [doc EXCEPT ![s] = copy[s]] /\ copy[s].log # {}
      /\ now' = now /\ scene' = scene /\ copy' = copy /\ last' = last
    BY DEF Export, Has
<1>2. \A r \in Stores : Clock(r)' = Clock(r) /\ Id(r, 0)' = Id(r, 0) /\ Id(r, 1)' = Id(r, 1)
    BY <1>1 DEF Clock, Id
<1>3. doc'[s] = copy[s] /\ \A r \in Stores \ {s} : doc'[r] = doc[r]
    BY <1>1 DEF StateOK, OverStores
<1>4. Known' \subseteq Known
    BY <1>1, <1>3 DEF Known
<1>5. Copies' \subseteq Copies
    <2>1. Rows' = Rows
        BY <1>1 DEF Rows, Has
    <2>2. copy[s] \in Rows
        BY <1>1 DEF Rows, Has
    <2>3. Documents' \subseteq Documents \cup {copy[s]}
        BY <1>3 DEF Documents
    <2> QED
        BY <2>1, <2>2, <2>3 DEF Copies
<1>6. InTime'
    <2>1. \A r \in Stores : Bounded(doc'[r].row, doc'[r].log)
        BY <1>3 DEF Told, InTime
    <2> QED
        BY <1>1, <1>2, <1>4, <2>1 DEF Told, InTime
<1>7. Unique'
    BY <1>1, <1>2, <1>4 DEF Told, Unique
<1>8. Alike'
    BY <1>5 DEF Told, Alike
<1> QED
    BY <1>6, <1>7, <1>8 DEF Told

LEMMA MergeKeeps ==
    ASSUME StateOK, Told, NEW r \in Stores, NEW s \in Stores, Merge(r, s)
    PROVE  Told'
<1> DEFINE a == copy[r]
           b == doc[s]
           m == Merged(a, b)
<1>1. /\ copy' = [copy EXCEPT ![r] = m] /\ last' = [last EXCEPT ![r] = Nothing] /\ b.log # {}
      /\ now' = now /\ scene' = scene /\ doc' = doc
    BY DEF Merge
<1>2. CopyOK(a) /\ CopyOK(b) /\ a.log \subseteq Known /\ b.log \subseteq Known
    <2>1. CopyOK(a) /\ CopyOK(b)
        BY DEF StateOK
    <2>2. a.log \subseteq Known /\ b.log \subseteq Known
        BY DEF Known
    <2> QED
        BY <2>1, <2>2
<1>3. /\ a.log = {} => m = b
      /\ a.log # {} => /\ m.log = a.log \cup b.log
                       /\ m.row.status = Chosen(a, b, "status")[1] /\ m.row.since = Chosen(a, b, "status")[2]
    <2>1. a.log = {} => m = b
        BY DEF Merged
    <2> QED
        BY <1>2, <2>1, MergedFields
<1>4. \A q \in Stores : Clock(q)' = Clock(q) /\ Id(q, 0)' = Id(q, 0) /\ Id(q, 1)' = Id(q, 1)
    BY <1>1 DEF Clock, Id
<1>5. b \in Copies /\ (a.log # {} => a \in Copies)
    BY <1>1 DEF Copies, Rows, Documents, Has
<1>6. ASSUME NEW g \in Scalar
      PROVE  \E x \in Copies : Last(Edits(m.log, g)) = Last(Edits(x.log, g)) /\ Value(m.row, g) = Value(x.row, g)
    <2>1. CASE a.log = {}
        BY <1>3, <1>5, <2>1
    <2>2. CASE a.log # {}
        <3>1. a \in Copies /\ b \in Copies
            BY <1>5, <2>2
        <3>2. \E x \in {a, b} : Last(Edits(m.log, g)) = Last(Edits(x.log, g)) /\ Value(m.row, g) = Value(x.row, g)
            BY <3>1, MergeKeepsValue
        <3> QED
            BY <3>1, <3>2
    <2> QED
        BY <2>1, <2>2
<1>7. Bounded(m.row, m.log)
    <2>1. Bounded(a.row, a.log) /\ Bounded(b.row, b.log)
        BY DEF Told, InTime
    <2>2. CASE a.log = {}
        BY <1>3, <2>1, <2>2
    <2>3. CASE a.log # {}
        <3>1. \E x \in {a, b} : m.row.status = x.row.status /\ m.row.since = x.row.since
            BY <1>3, <2>3, ChosenOne DEF Value
        <3> QED
            BY <1>3, <2>1, <2>3, <3>1 DEF Bounded
    <2> QED
        BY <2>2, <2>3
<1>8. a.log \subseteq m.log /\ m.log \subseteq Known
    BY <1>2, <1>3
<1> HIDE DEF m
<1>9. /\ copy'[r] = m /\ last'[r] = Nothing
      /\ \A q \in Stores \ {r} : copy'[q] = copy[q] /\ last'[q] = last[q]
    BY <1>1 DEF StateOK, OverStores
<1>10. Known' \subseteq Known
    BY <1>1, <1>8, <1>9 DEF Known
<1>11. ASSUME NEW c \in Copies' PROVE c \in Copies \/ c = m
    <2>1. CASE c \in Rows'
        <3>1. PICK q \in Stores : copy'[q].log # {} /\ c = copy'[q]
            BY <2>1 DEF Rows, Has
        <3>2. q # r => c \in Rows
            BY <1>9, <3>1 DEF Rows, Has
        <3> QED
            BY <1>9, <3>1, <3>2 DEF Copies
    <2>2. CASE c \in Documents'
        BY <1>1, <2>2 DEF Documents, Copies
    <2> QED
        BY <1>11, <2>1, <2>2 DEF Copies
<1>12. Alike'
    <2>1. \A c \in Copies', g \in Scalar :
             \E x \in Copies : Last(Edits(c.log, g)) = Last(Edits(x.log, g)) /\ Value(c.row, g) = Value(x.row, g)
        BY <1>6, <1>11
    <2>2. Alike
        BY DEF Told
    <2> DEFINE C == Copies'
    <2>3. \A c \in C, g \in Scalar :
             \E x \in Copies : Last(Edits(c.log, g)) = Last(Edits(x.log, g)) /\ Value(c.row, g) = Value(x.row, g)
        BY <2>1
    <2> HIDE DEF C
    <2>4. \A x, y \in C, g \in Scalar : Last(Edits(x.log, g)) = Last(Edits(y.log, g)) => Value(x.row, g) = Value(y.row, g)
        BY <2>2, <2>3, AlikeFrom
    <2> QED
        BY <2>4 DEF C, Alike
<1>13. InTime'
    <2>1. \A q \in Stores : /\ Bounded(copy'[q].row, copy'[q].log) /\ Bounded(last'[q].before, copy'[q].log)
                            /\ last'[q].ev.at <= Clock(q)
        <3>1. Nothing.before.status = "pending" /\ Nothing.ev.at = 0
            BY DEF Nothing, NewRow, Event
        <3>2. Clock(r) \in Nat
            BY ClockType
        <3>3. /\ Bounded(copy'[r].row, copy'[r].log) /\ Bounded(last'[r].before, copy'[r].log)
              /\ last'[r].ev.at <= Clock(r)
            BY <1>7, <1>9, <3>1, <3>2 DEF Bounded
        <3> QED
            BY <1>9, <3>3 DEF Told, InTime
    <2> QED
        BY <1>1, <1>4, <1>10, <2>1 DEF Told, InTime
<1>14. Unique'
    <2>1. \A q \in Stores : copy[q].log \subseteq copy'[q].log
        BY <1>8, <1>9
    <2> QED
        BY <1>4, <1>10, <2>1 DEF Told, Unique
<1> QED
    BY <1>12, <1>13, <1>14 DEF Told

LEMMA ToldStart == Init => Told
<1> SUFFICES ASSUME Init PROVE Told
    OBVIOUS
<1> DEFINE add == Event("add", 0, SECOND)
<1>1. SECOND \in Nat \ {0} /\ StateOK
    BY LogAssumption, StateStart
<1>2. add.op = "add" /\ add.at = SECOND /\ add.id = 0 /\ add.since = 0
    BY DEF Event
<1> HIDE DEF add
<1>3. /\ \A s \in Stores : copy[s].log \in {{}, {add}} /\ copy[s].row = NewRow
      /\ \A s \in Stores : doc[s] = Absent /\ last[s] = Nothing
    BY DEF Init, Absent, add
<1>4. Known \subseteq {add}
    BY <1>3 DEF Known, Absent
<1>5. Unique
    <2>1. \A e, f \in Known : e = f
        BY <1>4
    <2>2. \A e \in Known, s \in Stores : e.at # Clock(s)
        BY <1>1, <1>2, <1>4, ClockType
    <2> QED
        BY <2>1, <2>2 DEF Unique
<1>6. InTime
    <2>1. NewRow.status = "pending" /\ Nothing.before = NewRow /\ Nothing.ev.at = 0 /\ Absent.row = NewRow
        BY DEF NewRow, Nothing, Absent, Event
    <2>2. ~Slow(add) /\ Minted(add)
        BY <1>2 DEF Slow, Minted, Closing
    <2>3. \A s \in Stores : Clock(s) \in Nat /\ Clock(s) > SECOND
        BY <1>1, ClockType
    <2>4. \A e \in Known, s \in Stores : e.at <= Clock(s)
        BY <1>1, <1>2, <1>4, <2>3
    <2>5. \A e \in Known : ~Slow(e) /\ Minted(e)
        BY <1>4, <2>2
    <2> QED
        BY <1>3, <2>1, <2>3, <2>4, <2>5 DEF InTime, Bounded
<1>7. Alike
    <2>1. ASSUME NEW c \in Copies PROVE c.row = NewRow
        <3>1. c \in Rows => c.row = NewRow
            BY <1>3 DEF Rows
        <3>2. c \notin Documents
            BY <1>3 DEF Documents, Absent
        <3> QED
            BY <3>1, <3>2 DEF Copies
    <2> QED
        BY <2>1 DEF Alike
<1> QED
    BY <1>5, <1>6, <1>7 DEF Told

LEMMA SceneStays ==
    ASSUME StateOK, Next
    PROVE  scene' = scene
<1>1. Sync => scene' = scene
    BY DEF Sync, Export, Merge
<1>2. ASSUME NEW s \in Stores, NEW row, NEW events, Edit(s, row, events) PROVE scene' = scene
    BY <1>2 DEF Edit
<1> QED
    BY <1>1, <1>2, NextEdits

LEMMA IInvStep == IInv /\ [Next]_vars => IInv'
<1> SUFFICES ASSUME IInv, [Next]_vars PROVE IInv'
    OBVIOUS
<1>1. StateOK /\ StateOK'
    BY StateStep DEF IInv
<1>2. CASE UNCHANGED vars
    <2>1. now' = now /\ scene' = scene /\ copy' = copy /\ doc' = doc /\ last' = last
        BY <1>2 DEF vars
    <2>2. Known' = Known /\ Copies' = Copies /\ (Agree' <=> Agree)
        BY <2>1 DEF Known, Copies, Rows, Documents, Has, Agree
    <2>3. \A s \in Stores : Clock(s)' = Clock(s) /\ Id(s, 0)' = Id(s, 0) /\ Id(s, 1)' = Id(s, 1)
        BY <2>1 DEF Clock, Id
    <2>4. InTime => InTime'
        BY <2>1, <2>2, <2>3 DEF InTime
    <2>5. Unique => Unique'
        BY <2>1, <2>2, <2>3 DEF Unique
    <2>6. Alike => Alike'
        BY <2>2 DEF Alike
    <2> QED
        BY <1>1, <2>2, <2>4, <2>5, <2>6 DEF IInv, Told
<1>3. CASE Next
    <2> SUFFICES ASSUME Agree' PROVE Told'
        BY <1>1 DEF IInv
    <2>1. Agree
        BY <1>1, <1>3, SceneStays DEF Agree
    <2>2. Told
        BY <2>1 DEF IInv
    <2>3. Sync => Told'
        BY <1>1, <2>2, ExportKeeps, MergeKeeps DEF Sync
    <2>4. ASSUME NEW s \in Stores, NEW row, NEW events,
                 Has(s), Edit(s, row, events), Edited(s, row, events), Timely(s, row, events)
          PROVE  Told'
        <3>1. InTime /\ Unique
            BY <2>2 DEF Told
        <3> QED
            BY <1>1, <2>1, <2>2, <2>4, <3>1, EditInTime, EditUnique, EditAlike DEF Told
    <2> QED
        BY <1>1, <1>3, <2>3, <2>4, NextEdits
<1> QED
    BY <1>2, <1>3

LEMMA IInvAlways == Spec => []IInv
<1>1. Init => IInv
    BY StateStart, ToldStart DEF IInv
<1> QED
    BY <1>1, IInvStep, PTL DEF Spec

\* While the clocks agree, copies that name one event as the last to have
\* written a group hold one value for it, whatever was merged into whichever.
THEOREM SameEditSameValueCorrect == Spec => []SameEditSameValue
<1>1. IInv => SameEditSameValue
    BY DEF IInv, Told, Alike, Scalar, SameEditSameValue
<1> QED
    BY <1>1, IInvAlways, PTL

-----------------------------------------------------------------------------
(* Clocks that were stopped, however far the machines' clocks are apart *)

\* No machine that may lead has yet to reach this instant.
Reached(i) == \A s \in Stores : Fastest(s) => i <= Clock(s)

\* An event of the log, by its id and its instant.
Placed(e) ==
    /\ Reached(e.at) /\ (e.id = 0 \/ e.id < MaxId)
    /\ e.op = "start" => e.since = e.at /\ e.id < MaxId

StartedAt(log, i) == \E o \in log : o.op = "start" /\ o.at = i
\* The clock that runs was started by an event of the log, the last one to have
\* written the status.
StartStands(c) ==
    \E o \in c.log : /\ o.op = "start" /\ o.at = c.row.since
                     /\ StartsLead(c.log) => \A x \in Edits(c.log, "status") : Place(x) <= Place(o)
Led(c) ==
    Resumed(c.log) = {} =>
        /\ \A x \in Closes(c.log) : StartedAt(c.log, x.since)
        /\ c.row.status = "active" => StartStands(c)

LeadInv == (\A e \in Known : Placed(e)) /\ (\A c \in Copies : Led(c))

\* A close comes after the start it names, by its own stamp or by that start's.
LEMMA CloseAfterStart ==
    ASSUME NEW o, EventOK(o), o.op = "start", o.id < MaxId,
           NEW x, EventOK(x), x.op \in Closing, x.since = o.at, x.since # 0
    PROVE  Place(o) < Place(x)
<1>1. o.at \in Nat /\ o.id \in Nat /\ x.at \in Nat /\ x.id \in Nat /\ MaxId \in Nat
    BY LogAssumption DEF EventOK
<1>2. Place(o) = (2 * o.at) * MaxId + o.id
    BY PlaceOf DEF Slow, Closing
<1>3. CASE x.since >= x.at
    <2>1. Place(x) = (2 * o.at + 1) * MaxId + x.id
        BY <1>3 DEF Place, Slow
    <2>2. (2 * o.at + 1) * MaxId = (2 * o.at) * MaxId + MaxId /\ (2 * o.at) * MaxId \in Nat
        BY <1>1
    <2> QED
        BY <1>1, <1>2, <2>1, <2>2
<1>4. CASE x.since < x.at
    <2>1. Place(x) = (2 * x.at) * MaxId + x.id
        <3>1. ~Slow(x)
            BY <1>1, <1>4 DEF Slow
        <3> QED
            BY <3>1, PlaceOf
    <2>2. MaxId * (2 * x.at) >= MaxId * (2 * o.at) + MaxId
        <3>1. 2 * x.at \in Nat /\ 2 * o.at \in Nat /\ 2 * o.at < 2 * x.at
            BY <1>1, <1>4
        <3> QED
            BY <1>1, <3>1, OneMore
    <2>3. /\ (2 * x.at) * MaxId = MaxId * (2 * x.at) /\ (2 * o.at) * MaxId = MaxId * (2 * o.at)
          /\ (2 * x.at) * MaxId \in Nat /\ (2 * o.at) * MaxId \in Nat
        BY <1>1
    <2> QED
        BY <1>1, <1>2, <2>1, <2>2, <2>3
<1> QED
    BY <1>1, <1>3, <1>4

\* What moves behind no start and was stamped after one comes after it.
LEMMA StampedAfter ==
    ASSUME NEW o, EventOK(o), o.op = "start", o.id < MaxId,
           NEW x, EventOK(x), x.op \notin Closing, x.at > o.at
    PROVE  Place(o) < Place(x)
<1>1. o.at \in Nat /\ o.id \in Nat /\ x.at \in Nat /\ x.id \in Nat /\ MaxId \in Nat
    BY LogAssumption DEF EventOK
<1>2. Place(o) = (2 * o.at) * MaxId + o.id /\ Place(x) = (2 * x.at) * MaxId + x.id
    BY PlaceOf DEF Slow, Closing
<1>3. MaxId * (2 * x.at) >= MaxId * (2 * o.at) + MaxId
    <2>1. 2 * x.at \in Nat /\ 2 * o.at \in Nat /\ 2 * o.at < 2 * x.at
        BY <1>1
    <2> QED
        BY <1>1, <2>1, OneMore
<1>4. /\ (2 * x.at) * MaxId = MaxId * (2 * x.at) /\ (2 * o.at) * MaxId = MaxId * (2 * o.at)
      /\ (2 * x.at) * MaxId \in Nat /\ (2 * o.at) * MaxId \in Nat
    BY <1>1
<1> QED
    BY <1>1, <1>2, <1>3, <1>4

\* What was stamped before a start, and is no close of a later one, comes before it.
LEMMA StartAfterAll ==
    ASSUME NEW o, EventOK(o), o.op = "start", NEW x, EventOK(x),
           x.id = 0 \/ x.id < MaxId, o.id < MaxId, x.at < o.at, Slow(x) => x.since < o.at /\ x.since >= 0
    PROVE  Place(x) <= Place(o)
<1>1. o.at \in Nat /\ o.id \in Nat /\ x.at \in Nat /\ x.id \in Nat /\ MaxId \in Nat /\ x.since \in Int
    BY LogAssumption DEF EventOK
<1>2. Place(o) = (2 * o.at) * MaxId + o.id
    BY PlaceOf DEF Slow, Closing
<1>3. x.id < MaxId
    BY <1>1
<1>4. PICK k \in Nat : k < o.at /\ Place(x) <= (2 * k + 1) * MaxId + x.id
    <2>1. CASE Slow(x)
        BY <1>1, <2>1 DEF Place
    <2>2. CASE ~Slow(x)
        <3>1. Place(x) = (2 * x.at) * MaxId + x.id
            BY <2>2, PlaceOf
        <3>2. (2 * x.at + 1) * MaxId = (2 * x.at) * MaxId + MaxId /\ (2 * x.at) * MaxId \in Nat
            BY <1>1
        <3> QED
            BY <1>1, <3>1, <3>2
    <2> QED
        BY <2>1, <2>2
<1>5. MaxId * (2 * o.at) >= MaxId * (2 * k + 1) + MaxId
    <2>1. 2 * k + 1 \in Nat /\ 2 * o.at \in Nat /\ 2 * k + 1 < 2 * o.at
        BY <1>1, <1>4
    <2> QED
        BY <1>1, <2>1, OneMore
<1>6. /\ (2 * k + 1) * MaxId = MaxId * (2 * k + 1) /\ (2 * o.at) * MaxId = MaxId * (2 * o.at)
      /\ MaxId * (2 * k + 1) \in Nat /\ MaxId * (2 * o.at) \in Nat
    BY <1>1, <1>4
<1>7. Place(x) \in Int
    BY PlaceType
<1> QED
    BY <1>1, <1>2, <1>3, <1>4, <1>5, <1>6, <1>7

\* What Led says of a log holds of every log it is part of.
LEMMA StartsLeadPart ==
    ASSUME NEW L, NEW M, L \subseteq M
    PROVE  (StartsLead(M) => StartsLead(L)) /\ (Resumed(M) = {} => Resumed(L) = {})
BY DEF StartsLead, Resumed

\* The clock that runs after a merge is the one of the copy whose status was
\* written last, and its start is last in both logs.
LEMMA LedMerged ==
    ASSUME NEW a, CopyOK(a), a.log # {}, Led(a), NEW b, CopyOK(b), b.log # {}, Led(b)
    PROVE  Led(Merged(a, b))
<1> DEFINE m == Merged(a, b)
           g == "status"
           la == Last(Edits(a.log, g))
           lb == Last(Edits(b.log, g))
<1>1. /\ m.log = a.log \cup b.log
      /\ m.row.status = Chosen(a, b, g)[1] /\ m.row.since = Chosen(a, b, g)[2]
    BY MergedFields
<1>2. /\ HasLast(Edits(a.log, g)) /\ Place(la) \in Int /\ Edits(a.log, g) # {}
      /\ HasLast(Edits(b.log, g)) /\ Place(lb) \in Int /\ Edits(b.log, g) # {}
    BY EveryGroup DEF GROUPS
<1>3. PICK c \in {a, b} : Value(c.row, g) = Chosen(a, b, g) /\ Place(lb) <= Place(Last(Edits(c.log, g)))
                             /\ Place(la) <= Place(Last(Edits(c.log, g)))
    <2> HIDE DEF la, lb
    <2>1. CASE PayloadWins(a.log, b.log, g, TieIsTheirs(a.row, b.row, g))
        <3>1. Chosen(a, b, g) = Value(b.row, g)
            BY <2>1 DEF Chosen
        <3>2. Place(la) <= Place(lb)
            BY <1>2, <2>1 DEF PayloadWins, la, lb
        <3> QED
            BY <1>2, <3>1, <3>2 DEF la, lb
    <2>2. CASE ~PayloadWins(a.log, b.log, g, TieIsTheirs(a.row, b.row, g))
        <3>1. Chosen(a, b, g) = Value(a.row, g)
            BY <2>2 DEF Chosen
        <3>2. Place(lb) <= Place(la)
            BY <1>2, <2>2 DEF PayloadWins, la, lb
        <3> QED
            BY <1>2, <3>1, <3>2 DEF la, lb
    <2> QED
        BY <2>1, <2>2
<1>4. c.log \subseteq m.log /\ Led(c) /\ m.row.status = c.row.status /\ m.row.since = c.row.since
    BY <1>1, <1>3 DEF Value
<1> HIDE DEF m, g
<1>5. SUFFICES ASSUME Resumed(m.log) = {}
      PROVE  /\ \A x \in Closes(m.log) : StartedAt(m.log, x.since)
             /\ m.row.status = "active" => StartStands(m)
    BY DEF Led, m
<1>6. Resumed(a.log) = {} /\ Resumed(b.log) = {} /\ Resumed(c.log) = {}
    BY <1>1, <1>4, <1>5, StartsLeadPart
<1>7. \A x \in Closes(m.log) : StartedAt(m.log, x.since)
    <2>1. Closes(m.log) = Closes(a.log) \cup Closes(b.log)
        BY <1>1 DEF Closes
    <2> QED
        BY <1>1, <1>6, <2>1 DEF Led, StartedAt
<1>8. ASSUME m.row.status = "active" PROVE StartStands(m)
    <2>1. StartStands(c)
        BY <1>4, <1>6, <1>8 DEF Led
    <2>2. PICK o \in c.log :
              /\ o.op = "start" /\ o.at = c.row.since
              /\ StartsLead(c.log) => \A x \in Edits(c.log, "status") : Place(x) <= Place(o)
        BY <2>1 DEF StartStands
    <2>3. ASSUME StartsLead(m.log), NEW x \in Edits(m.log, "status") PROVE Place(x) <= Place(o)
        <3>1. \A y \in Edits(c.log, g) : Place(y) <= Place(o)
            BY <1>4, <2>2, <2>3, StartsLeadPart DEF g
        <3>2. Place(Last(Edits(c.log, g))) <= Place(o)
            BY <1>2, <1>3, <3>1, LastOf
        <3>3. x \in Edits(a.log, g) \/ x \in Edits(b.log, g)
            BY <1>1, <2>3, EditsUnion DEF g
        <3>4. Place(x) <= Place(la) \/ Place(x) <= Place(lb)
            BY <1>2, <3>3, LastOf
        <3>5. /\ Place(x) \in Int /\ Place(o) \in Int
              /\ Place(Last(Edits(c.log, g))) \in Int
            <4>1. EventOK(x) /\ EventOK(o)
                BY <1>3, <2>2, <3>3 DEF CopyOK, Edits
            <4> QED
                BY <1>2, <1>3, <4>1, PlaceType
        <3> HIDE DEF la, lb
        <3> QED
            BY <1>2, <1>3, <3>2, <3>4, <3>5
    <2> QED
        BY <1>4, <2>2, <2>3 DEF StartStands
<1> QED
    BY <1>7, <1>8

LEMMA LedEdited ==
    ASSUME StateOK, LeadInv, NEW s \in Stores, Has(s), NEW row, NEW events,
           Edit(s, row, events), Edited(s, row, events)
    PROVE  Led(copy'[s])
<1> DEFINE old == copy[s]
           c == copy'[s]
<1>0. /\ now' \in Nat /\ now' >= now /\ scene' = scene /\ doc' = doc
      /\ OverStores(copy)' /\ OverStores(last)'
      /\ copy'[s] = [row |-> Stamped(s, row), log |-> copy[s].log \cup events]
      /\ last'[s] = [ev |-> Last(events), before |-> copy[s].row]
      /\ \A r \in Stores \ {s} : copy'[r] = copy[r] /\ last'[r] = last[r]
    BY EditMoves
<1>01. \A x \in copy[s].log : x.at # Clock(s)
    BY DEF Edit
<1>1. c = [row |-> Stamped(s, row), log |-> old.log \cup events] /\ \A x \in old.log : x.at # Clock(s)
    BY <1>0, <1>01
<1>2. c.log = old.log \cup events /\ c.row.status = row.status /\ c.row.since = row.since
    BY <1>1, StampedOK DEF Edited
<1>3. CopyOK(old) /\ Led(old) /\ old.log \subseteq Known
    <2>1. old \in Copies
        BY DEF Copies, Rows, Has
    <2>2. old.log \subseteq Known
        BY DEF Known
    <2> QED
        BY <2>1, <2>2 DEF LeadInv, StateOK
<1>4. Clocked(s, row, events) /\ \A e \in events : EventOK(e) /\ e.at = Clock(s)
    BY DEF Edited
<1> HIDE DEF c, old
<1>5. SUFFICES ASSUME Resumed(c.log) = {}
      PROVE  /\ \A x \in Closes(c.log) : StartedAt(c.log, x.since)
             /\ c.row.status = "active" => StartStands(c)
    BY DEF Led, c
<1>6. Resumed(old.log) = {} /\ Resumed(events) = {}
    BY <1>2, <1>5, StartsLeadPart
<1>7. ASSUME NEW x \in Closes(c.log) PROVE StartedAt(c.log, x.since)
    <2>1. CASE x \in old.log
        <3>1. x \in Closes(old.log)
            BY <1>7, <2>1 DEF Closes
        <3> QED
            BY <1>2, <1>3, <1>6, <3>1 DEF Led, StartedAt
    <2>2. CASE x \in events
        <3>1. x.since = Running(old.row) /\ x.since # 0
            BY <1>4, <1>7, <2>2 DEF Clocked, Closes, old
        <3>2. old.row.status = "active" /\ x.since = old.row.since
            BY <3>1 DEF Running
        <3>3. StartStands(old)
            BY <1>3, <1>6, <3>2 DEF Led
        <3> QED
            BY <1>2, <3>2, <3>3 DEF StartStands, StartedAt
    <2> QED
        BY <1>2, <1>7, <2>1, <2>2 DEF Closes
<1>8. ASSUME c.row.status = "active" PROVE StartStands(c)
    <2>1. CASE row.since = Clock(s) /\ \E e \in events : events = {e} /\ e.op = "start"
        <3>1. PICK e \in events : events = {e} /\ e.op = "start"
            BY <2>1
        <3>2. e.at = Clock(s) /\ e.id = Id(s, 0) /\ EventOK(e)
            BY <1>4, <3>1 DEF Clocked
        <3>3. e.id < MaxId
            <4>1. Id(s, 1) < MaxId
                BY DEF Edit
            <4>2. Id(s, 0) < Id(s, 1)
                <5> DEFINE x == Clock(s) * (Machines + 1)
                <5>1. x \in Nat /\ s \in Nat
                    BY ClockType, StoresAssumption DEF Stores
                <5>2. Id(s, 0) = 2 * (x + s) + 0 /\ Id(s, 1) = 2 * (x + s) + 1
                    BY DEF Id
                <5> HIDE DEF x
                <5> QED
                    BY <5>1, <5>2
            <4> QED
                BY <3>2, <4>1, <4>2, ClockType, LogAssumption
        <3>4. ASSUME StartsLead(c.log), NEW x \in Edits(c.log, "status") PROVE Place(x) <= Place(e)
            <4>1. Fastest(s)
                <5>1. PICK t \in Stores : Fastest(t) /\ e.id = 2 * (e.at * (Machines + 1) + t)
                    BY <1>2, <3>1, <3>4 DEF StartsLead
                <5> DEFINE k == Clock(s) * (Machines + 1)
                <5>2. k \in Nat /\ s \in Nat /\ t \in Nat
                    BY ClockType, StoresAssumption DEF Stores
                <5>3. 2 * (k + t) = 2 * (k + s) + 0
                    BY <3>2, <5>1 DEF Id
                <5> HIDE DEF k
                <5>4. s = t
                    BY <5>2, <5>3
                <5> QED
                    BY <5>1, <5>4
            <4>2. CASE x = e
                BY <3>2, <4>2, PlaceType
            <4>3. CASE x \in old.log
                <5>1. Placed(x) /\ EventOK(x)
                    BY <1>3, <4>3 DEF LeadInv, CopyOK
                <5>2. \A y \in old.log : y.at < Clock(s)
                    <6>1. ASSUME NEW y \in old.log PROVE y.at < Clock(s)
                        <7>1. Placed(y) /\ EventOK(y) /\ y.at # Clock(s)
                            BY <1>1, <1>3 DEF LeadInv, CopyOK, old
                        <7>2. y.at <= Clock(s)
                            BY <4>1, <7>1 DEF Placed, Reached
                        <7> QED
                            BY <7>1, <7>2, ClockType DEF EventOK
                    <6> QED
                        BY <6>1
                <5>3. ASSUME Slow(x) PROVE x.since < e.at /\ x.since >= 0
                    <6>1. x \in Closes(old.log)
                        BY <4>3, <5>3 DEF Closes, Slow
                    <6>2. PICK o \in old.log : o.at = x.since
                        BY <1>3, <1>6, <6>1 DEF Led, StartedAt
                    <6>3. EventOK(o) /\ o.at < Clock(s)
                        BY <1>3, <5>2 DEF CopyOK
                    <6> QED
                        BY <3>2, <6>2, <6>3 DEF EventOK
                <5>4. x.at < e.at /\ (x.id = 0 \/ x.id < MaxId)
                    BY <3>2, <4>3, <5>1, <5>2 DEF Placed
                <5> QED
                    BY <3>1, <3>2, <3>3, <5>1, <5>3, <5>4, StartAfterAll
            <4> QED
                BY <1>2, <3>1, <3>4, <4>2, <4>3 DEF Edits
        <3> QED
            BY <1>2, <2>1, <3>1, <3>2, <3>4 DEF StartStands
    <2>2. CASE /\ old.row.status = "active" /\ row.since = old.row.since
               /\ \A e \in events : ~Touches(e, "status")
        <3>1. PICK o \in old.log :
                  /\ o.op = "start" /\ o.at = old.row.since
                  /\ StartsLead(old.log) => \A x \in Edits(old.log, "status") : Place(x) <= Place(o)
            BY <1>3, <1>6, <2>2 DEF Led, StartStands
        <3>2. Edits(c.log, "status") = Edits(old.log, "status")
            BY <1>2, <2>2 DEF Edits
        <3>3. StartsLead(c.log) => StartsLead(old.log)
            BY <1>2, StartsLeadPart
        <3> QED
            BY <1>2, <2>2, <3>1, <3>2, <3>3 DEF StartStands
    <2> QED
        BY <1>2, <1>4, <1>6, <1>8, <2>1, <2>2 DEF Clocked, old
<1> QED
    BY <1>7, <1>8

LEMMA LeadStart == Init => LeadInv
<1> SUFFICES ASSUME Init PROVE LeadInv
    OBVIOUS
<1> DEFINE add == Event("add", 0, SECOND)
<1>1. SECOND \in Nat \ {0} /\ StateOK
    BY LogAssumption, StateStart
<1>2. add.op = "add" /\ add.at = SECOND /\ add.id = 0
    BY DEF Event
<1> HIDE DEF add
<1>3. /\ \A s \in Stores : copy[s].log \in {{}, {add}} /\ copy[s].row = NewRow
      /\ \A s \in Stores : doc[s] = Absent
    BY DEF Init, Absent, add
<1>4. Known \subseteq {add}
    BY <1>3 DEF Known, Absent
<1>5. Reached(SECOND)
    <2>1. \A s \in Stores : Clock(s) \in Nat /\ Clock(s) > SECOND
        BY <1>1, ClockType
    <2> QED
        BY <1>1, <2>1 DEF Reached
<1>6. \A e \in Known : Placed(e)
    BY <1>2, <1>4, <1>5 DEF Placed
<1>7. ASSUME NEW c \in Copies PROVE Led(c)
    <2>1. c \in Rows => c.row = NewRow /\ c.log \in {{}, {add}}
        BY <1>3 DEF Rows
    <2>2. c \notin Documents
        BY <1>3 DEF Documents, Absent
    <2>3. NewRow.status # "active"
        BY DEF NewRow
    <2>4. Closes(c.log) = {}
        BY <1>2, <1>7, <2>1, <2>2 DEF Copies, Closes, Closing
    <2> QED
        BY <1>7, <2>1, <2>2, <2>3, <2>4 DEF Copies, Led
<1> QED
    BY <1>6, <1>7 DEF LeadInv

\* An event stays known while the scene is one and time does not run back.
LEMMA StaysKnown ==
    ASSUME StateOK, scene' = scene, now' \in Nat, now' >= now, NEW e, EventOK(e), Placed(e)
    PROVE  Placed(e)'
<1>1. ASSUME NEW s \in Stores, Fastest(s)' PROVE e.at <= Clock(s)'
    <2>1. Fastest(s)
        BY <1>1 DEF Fastest
    <2>2. e.at <= now + scene.skew[s]
        BY <2>1 DEF Placed, Reached, Clock
    <2>3. scene.skew[s] \in Nat /\ now \in Nat /\ e.at \in Nat
        BY StoresAssumption DEF StateOK, Stores, EventOK
    <2> QED
        BY <2>2, <2>3 DEF Clock
<1> QED
    BY <1>1 DEF Placed, Reached

LEMMA LeadEdit ==
    ASSUME StateOK, LeadInv, NEW s \in Stores, Has(s), NEW row, NEW events,
           Edit(s, row, events), Edited(s, row, events)
    PROVE  LeadInv'
<1>1. /\ now' \in Nat /\ now' >= now /\ scene' = scene /\ doc' = doc
      /\ \A r \in Stores \ {s} : copy'[r] = copy[r]
    BY EditMoves
<1>2. Known' \subseteq Known \cup events
    BY EditKnown
<1>3. ASSUME NEW e \in Known PROVE Placed(e)'
    BY <1>1, <1>3, KnownOK, StaysKnown DEF LeadInv
<1>4. ASSUME NEW e \in events PROVE Placed(e)'
    <2>1. e.at = Clock(s) /\ e.id \in {Id(s, 0), Id(s, 1)} /\ EventOK(e)
        BY DEF Edited
    <2>2. e.id < MaxId
        <3> DEFINE x == Clock(s) * (Machines + 1)
        <3>1. x \in Nat /\ s \in Nat
            BY ClockType, StoresAssumption DEF Stores
        <3>2. Id(s, 0) = 2 * (x + s) + 0 /\ Id(s, 1) = 2 * (x + s) + 1
            BY DEF Id
        <3>3. Id(s, 1) < MaxId
            BY DEF Edit
        <3> HIDE DEF x
        <3> QED
            BY <2>1, <3>1, <3>2, <3>3, LogAssumption
    <2>3. e.op = "start" => e.since = e.at
        BY <2>1 DEF Edited, Clocked
    <2>4. Reached(e.at)
        <3> SUFFICES ASSUME NEW r \in Stores, Fastest(r) PROVE e.at <= Clock(r)
            BY DEF Reached
        <3>1. scene.skew[s] <= scene.skew[r]
            BY DEF Fastest
        <3>2. scene.skew[r] \in Nat /\ scene.skew[s] \in Nat /\ now \in Nat
            BY StoresAssumption DEF StateOK, Stores
        <3> QED
            BY <2>1, <3>1, <3>2 DEF Clock
    <2>5. Placed(e)
        BY <2>2, <2>3, <2>4 DEF Placed
    <2> QED
        BY <1>1, <2>1, <2>5, StaysKnown
<1>5. \A c \in Copies' : c \in Copies \/ c = copy'[s]
    <2>1. ASSUME NEW c \in Rows' PROVE c \in Rows \/ c = copy'[s]
        <3>1. PICK q \in Stores : copy'[q].log # {} /\ c = copy'[q]
            BY <2>1 DEF Rows, Has
        <3> QED
            BY <1>1, <3>1 DEF Rows, Has
    <2>2. Documents' = Documents
        BY <1>1 DEF Documents
    <2> QED
        BY <2>1, <2>2 DEF Copies
<1>6. Led(copy'[s])
    BY LedEdited
<1>7. \A c : Led(c) => Led(c)'
    BY <1>1 DEF Led, StartStands, StartsLead, Fastest
<1>8. \A c \in Copies' : Led(c)'
    BY <1>5, <1>6, <1>7 DEF LeadInv
<1> QED
    BY <1>2, <1>3, <1>4, <1>8 DEF LeadInv

LEMMA LeadSync ==
    ASSUME StateOK, LeadInv, Sync
    PROVE  LeadInv'
<1>1. /\ now' = now /\ scene' = scene /\ \A c : Led(c) => Led(c)'
      /\ \A e : Placed(e) => Placed(e)'
    <2>1. now' = now /\ scene' = scene
        BY DEF Sync, Export, Merge
    <2> QED
        BY <2>1 DEF Led, StartStands, StartsLead, Fastest, Placed, Reached, Clock
<1>2. ASSUME NEW s \in Stores, Export(s) PROVE Known' \subseteq Known /\ Copies' \subseteq Copies
    <2>1. doc' = [doc EXCEPT ![s] = copy[s]] /\ copy[s].log # {} /\ copy' = copy
        BY <1>2 DEF Export, Has
    <2>2. doc'[s] = copy[s] /\ \A r \in Stores \ {s} : doc'[r] = doc[r]
        BY <2>1 DEF StateOK, OverStores
    <2>3. Known' \subseteq Known
        BY <2>1, <2>2 DEF Known
    <2>4. Rows' = Rows /\ copy[s] \in Rows
        BY <2>1 DEF Rows, Has
    <2>5. Documents' \subseteq Documents \cup {copy[s]}
        BY <2>2 DEF Documents
    <2> QED
        BY <2>3, <2>4, <2>5 DEF Copies
<1>3. ASSUME NEW r \in Stores, NEW s \in Stores, Merge(r, s)
      PROVE  Known' \subseteq Known /\ \A c \in Copies' : c \in Copies \/ Led(c)
    <2> DEFINE a == copy[r]
               b == doc[s]
               m == Merged(a, b)
    <2>1. copy' = [copy EXCEPT ![r] = m] /\ b.log # {} /\ doc' = doc
        BY <1>3 DEF Merge
    <2>2. CopyOK(a) /\ CopyOK(b)
        BY DEF StateOK
    <2>3. b \in Copies /\ (a.log # {} => a \in Copies)
        BY <2>1 DEF Copies, Rows, Documents, Has
    <2>4. m.log \subseteq a.log \cup b.log /\ Led(m)
        <3>1. CASE a.log = {}
            BY <2>3, <3>1 DEF Merged, LeadInv
        <3>2. CASE a.log # {}
            BY <2>1, <2>2, <2>3, <3>2, MergedFields, LedMerged DEF LeadInv
        <3> QED
            BY <3>1, <3>2
    <2>5. copy'[r] = m /\ \A q \in Stores \ {r} : copy'[q] = copy[q]
        BY <2>1 DEF StateOK, OverStores
    <2> HIDE DEF m
    <2>6. Known' \subseteq Known
        BY <2>1, <2>4, <2>5 DEF Known
    <2>7. ASSUME NEW c \in Rows' PROVE c \in Rows \/ c = m
        <3>1. PICK q \in Stores : copy'[q].log # {} /\ c = copy'[q]
            BY <2>7 DEF Rows, Has
        <3> QED
            BY <2>5, <3>1 DEF Rows, Has
    <2>8. Documents' = Documents
        BY <2>1 DEF Documents
    <2> QED
        BY <2>4, <2>6, <2>7, <2>8 DEF Copies
<1>4. Known' \subseteq Known /\ \A c \in Copies' : c \in Copies \/ Led(c)
    BY <1>2, <1>3 DEF Sync
<1> QED
    BY <1>1, <1>4 DEF LeadInv

\* No merge runs again a clock some machine stopped, completed or cancelled,
\* however far behind that machine is, as long as no machine starts the task while
\* it is behind another: the close is placed behind the start it names, so the
\* copy that still runs loses the status to the one that knows of the close. A
\* modify that cancels the task has only its own stamp: it wins over the starts
\* up to there.
THEOREM StoppedStaysStoppedCorrect == Spec => []StoppedStaysStopped
<1>1. StateOK /\ LeadInv => StoppedStaysStopped
    <2> SUFFICES ASSUME StateOK, LeadInv, NEW c \in Copies, Resumed(c.log) = {}, StartsLead(c.log),
                        Running(c.row) # 0
                 PROVE  /\ \A x \in Closes(c.log) : x.since # Running(c.row)
                        /\ \A e \in Blind(c.log) : e.at <= Running(c.row)
        BY DEF StoppedStaysStopped, Closes
    <2>1. c.row.status = "active" /\ c.row.since = Running(c.row)
        BY DEF Running
    <2>2. StartStands(c) /\ CopyOK(c) /\ c.log \subseteq Known
        BY <2>1, CopiesOK DEF LeadInv, Led
    <2>3. PICK o \in c.log :
              /\ o.op = "start" /\ o.at = c.row.since
              /\ \A y \in Edits(c.log, "status") : Place(y) <= Place(o)
        BY <2>2 DEF StartStands
    <2>4. EventOK(o) /\ o.id < MaxId
        BY <2>2, <2>3 DEF CopyOK, LeadInv, Placed
    <2>5. ASSUME NEW x \in Closes(c.log), x.since = Running(c.row) PROVE FALSE
        <3>1. x \in c.log /\ x.op \in Closing /\ x.since # 0
            BY <2>5 DEF Closes
        <3>2. Place(x) <= Place(o)
            BY <2>3, <3>1 DEF Edits, Touches, Closing
        <3>3. EventOK(x)
            BY <2>2, <3>1 DEF CopyOK
        <3>4. Place(o) < Place(x)
            BY <2>1, <2>3, <2>4, <2>5, <3>1, <3>3, CloseAfterStart
        <3> QED
            BY <2>4, <3>2, <3>3, <3>4, PlaceType
    <2>6. ASSUME NEW e \in Blind(c.log) PROVE e.at <= o.at
        <3>1. e \in c.log /\ e.op = "modify" /\ "status" \in e.cols
            BY <2>2, <2>6 DEF Blind, CopyOK, EventOK
        <3>2. Place(e) <= Place(o)
            BY <2>3, <3>1 DEF Edits, Touches
        <3>3. EventOK(e) /\ e.op \notin Closing
            BY <2>2, <3>1 DEF CopyOK, Closing
        <3>4. e.at > o.at => Place(o) < Place(e)
            BY <2>3, <2>4, <3>3, StampedAfter
        <3> QED
            BY <2>4, <3>2, <3>3, <3>4, PlaceType DEF EventOK
    <2> QED
        BY <2>1, <2>3, <2>5, <2>6
<1>2. StateOK /\ LeadInv /\ [Next]_vars => LeadInv'
    <2> SUFFICES ASSUME StateOK, LeadInv, [Next]_vars PROVE LeadInv'
        OBVIOUS
    <2>1. CASE Next
        BY <2>1, NextEdits, LeadSync, LeadEdit
    <2>2. CASE UNCHANGED vars
        <3>1. now' = now /\ scene' = scene /\ copy' = copy /\ doc' = doc
            BY <2>2 DEF vars
        <3>2. Known' = Known /\ Copies' = Copies
            BY <3>1 DEF Known, Copies, Rows, Documents, Has
        <3>3. \A c : Led(c) => Led(c)'
            BY <3>1 DEF Led, StartStands, StartsLead, Fastest
        <3>4. \A e : Placed(e) => Placed(e)'
            BY <3>1 DEF Placed, Reached, Clock, Fastest
        <3> QED
            BY <3>2, <3>3, <3>4 DEF LeadInv
    <2> QED
        BY <2>1, <2>2
<1> QED
    BY <1>1, <1>2, StateAlways, LeadStart, PTL DEF Spec

-----------------------------------------------------------------------------
(* Tags *)

\* The add writes every tag, so a log that removes none of them stands by all.
FollowsLog(c) == c.row.tags = {tag \in Tags : ~Removed(c.log, tag)}
TagInv == Agree => \A c \in Copies : FollowsLog(c)

LEMMA AddWrites ==
    ASSUME NEW c, CopyOK(c), c.log # {}, NEW tag
    PROVE  \E w \in c.log : Writes(w, tag)
BY DEF CopyOK, Writes

\* A tag both logs removed is removed in their union: the later removal is
\* later than every write of either.
LEMMA BothRemoved ==
    ASSUME NEW L, NEW M, \A e \in L \cup M : EventOK(e), NEW tag, Removed(L, tag), Removed(M, tag)
    PROVE  Removed(L \cup M, tag)
<1>1. PICK q \in L : Removes(q, tag) /\ \A w \in L : Writes(w, tag) => Place(w) < Place(q)
    BY DEF Removed
<1>2. PICK r \in M : Removes(r, tag) /\ \A w \in M : Writes(w, tag) => Place(w) < Place(r)
    BY DEF Removed
<1>3. \A e \in L \cup M : Place(e) \in Int
    BY PlaceType
<1>4. Place(q) <= Place(r) \/ Place(r) <= Place(q)
    BY <1>3
<1>5. CASE Place(q) <= Place(r)
    <2>1. \A w \in L \cup M : Writes(w, tag) => Place(w) < Place(r)
        BY <1>1, <1>2, <1>3, <1>5
    <2> QED
        BY <1>2, <2>1 DEF Removed
<1>6. CASE Place(r) <= Place(q)
    <2>1. \A w \in L \cup M : Writes(w, tag) => Place(w) < Place(q)
        BY <1>1, <1>2, <1>3, <1>6
    <2> QED
        BY <1>1, <2>1 DEF Removed
<1> QED
    BY <1>4, <1>5, <1>6

LEMMA MergeFollows ==
    ASSUME NEW a, CopyOK(a), a.log # {}, FollowsLog(a), NEW b, CopyOK(b), FollowsLog(b)
    PROVE  FollowsLog(Merged(a, b))
<1> DEFINE m == Merged(a, b)
<1>1. m.log = a.log \cup b.log /\ m.row.tags = MergedTags(a, b)
    BY MergedFields
<1> HIDE DEF m
<1>2. \A e \in a.log \cup b.log : EventOK(e)
    BY DEF CopyOK
<1>3. ASSUME NEW tag \in Tags, ~Removed(a.log \cup b.log, tag)
      PROVE  tag \in a.row.tags \cup b.row.tags
    <2>1. ~Removed(a.log, tag) \/ ~Removed(b.log, tag)
        BY <1>2, <1>3, BothRemoved
    <2> QED
        BY <2>1 DEF FollowsLog
<1>4. a.row.tags \subseteq Tags /\ b.row.tags \subseteq Tags
    BY DEF FollowsLog
<1>5. m.row.tags = {tag \in Tags : ~Removed(m.log, tag)}
    BY <1>1, <1>3, <1>4 DEF MergedTags
<1> QED
    BY <1>5 DEF FollowsLog, m

LEMMA EditFollows ==
    ASSUME StateOK, Agree, Told, NEW s \in Stores, Has(s), FollowsLog(copy[s]), NEW row, NEW events,
           Edit(s, row, events), Edited(s, row, events), Timely(s, row, events)
    PROVE  FollowsLog(copy'[s])
<1> DEFINE c == copy'[s]
           old == copy[s]
<1>1. /\ now' \in Nat /\ now' >= now /\ scene' = scene /\ doc' = doc
      /\ OverStores(copy)' /\ OverStores(last)'
      /\ c = [row |-> Stamped(s, row), log |-> old.log \cup events]
      /\ last'[s] = [ev |-> Last(events), before |-> old.row]
      /\ \A q \in Stores \ {s} : copy'[q] = copy[q] /\ last'[q] = last[q]
    BY EditMoves
<1>2. c.log = old.log \cup events /\ c.row.tags = row.tags
    BY <1>1, StampedOK DEF Edited
<1>3. InTime /\ Unique
    BY DEF Told
<1>4. /\ \A e \in events : ~Slow(e) /\ Minted(e) /\ EventOK(e) /\ e.at = Clock(s)
      /\ \A f \in old.log : f.at < Clock(s) /\ ~Slow(f) /\ Minted(f) /\ EventOK(f)
    <2>1. old.log \subseteq Known
        BY DEF Known
    <2> QED
        BY <1>3, <2>1, Fresh, KnownOK DEF Edited, InTime
<1>5. \A e \in events, f \in old.log : Place(f) < Place(e) /\ Place(f) \in Int /\ Place(e) \in Int
    BY <1>4, PlaceTells, PlaceType
<1>6. row.tags \subseteq Tags /\ old.row.tags \subseteq Tags
    BY DEF Edited, RowOK, FollowsLog
<1>7. events # {}
    BY DEF Edited, HasLast
<1>8. \A e \in events, tag \in Tags : tag \in row.tags <=> (Writes(e, tag) \/ (tag \in old.row.tags /\ ~Removes(e, tag)))
    BY DEF Edited, Labels
<1> HIDE DEF c, old
<1>9. ASSUME NEW tag \in Tags
      PROVE  tag \in row.tags <=> ~Removed(old.log \cup events, tag)
    <2>1. tag \in old.row.tags <=> ~Removed(old.log, tag)
        BY DEF FollowsLog, old
    <2>2. CASE \E w \in events : Writes(w, tag)
        <3>1. PICK w \in events : Writes(w, tag)
            BY <2>2
        <3>2. tag \in row.tags
            BY <1>8, <3>1
        <3>3. \A r \in events : ~Removes(r, tag)
            <4>1. ASSUME NEW r \in events, Removes(r, tag), ~Writes(r, tag) PROVE FALSE
                BY <1>8, <3>2, <4>1
            <4>2. ASSUME NEW r \in events, Removes(r, tag), Writes(r, tag) PROVE FALSE
                <5>1. r.op # "add"
                    BY DEF Edited
                <5> QED
                    BY <4>2, <5>1 DEF Removes, Writes
            <4> QED
                BY <4>1, <4>2
        <3>4. ~Removed(old.log \cup events, tag)
            <4> SUFFICES ASSUME NEW r \in old.log \cup events, Removes(r, tag),
                                \A x \in old.log \cup events : Writes(x, tag) => Place(x) < Place(r)
                         PROVE  FALSE
                BY DEF Removed
            <4>1. r \in old.log
                BY <3>3
            <4>2. Place(w) < Place(r)
                BY <3>1
            <4>3. Place(r) < Place(w) /\ Place(r) \in Int /\ Place(w) \in Int
                BY <1>5, <3>1, <4>1
            <4> QED
                BY <4>2, <4>3
        <3> QED
            BY <3>2, <3>4
    <2>3. CASE (\A w \in events : ~Writes(w, tag)) /\ \E r \in events : Removes(r, tag)
        <3>1. PICK r \in events : Removes(r, tag)
            BY <2>3
        <3>2. tag \notin row.tags
            BY <1>8, <2>3, <3>1
        <3>3. \A x \in old.log \cup events : Writes(x, tag) => Place(x) < Place(r)
            BY <1>5, <2>3, <3>1
        <3>4. Removed(old.log \cup events, tag)
            BY <3>1, <3>3 DEF Removed
        <3> QED
            BY <3>2, <3>4
    <2>4. CASE (\A w \in events : ~Writes(w, tag)) /\ \A r \in events : ~Removes(r, tag)
        <3>1. tag \in row.tags <=> tag \in old.row.tags
            BY <1>7, <1>8, <2>4
        <3>2. Removed(old.log \cup events, tag) <=> Removed(old.log, tag)
            BY <2>4 DEF Removed
        <3> QED
            BY <2>1, <3>1, <3>2
    <2> QED
        BY <2>2, <2>3, <2>4
<1>10. c.row.tags = {tag \in Tags : ~Removed(c.log, tag)}
    BY <1>2, <1>6, <1>9
<1> QED
    BY <1>10 DEF FollowsLog, c

LEMMA TagStart == Init => TagInv
<1> SUFFICES ASSUME Init, NEW c \in Copies PROVE FollowsLog(c)
    BY DEF TagInv
<1> DEFINE add == Event("add", 0, SECOND)
<1>1. add.op = "add"
    BY DEF Event
<1> HIDE DEF add
<1>2. \A s \in Stores : /\ copy[s].log # {} => copy[s].log = {add} /\ copy[s].row = NewRow
                        /\ doc[s].log = {}
    BY DEF Init, Absent, add
<1>3. c.log = {add} /\ c.row = NewRow
    BY <1>2 DEF Copies, Rows, Documents, Has
<1>4. \A tag : ~Removed({add}, tag)
    BY <1>1 DEF Removed, Removes
<1>5. NewRow.tags = Tags
    BY DEF NewRow
<1> QED
    BY <1>3, <1>4, <1>5 DEF FollowsLog

LEMMA TagStep == IInv /\ TagInv /\ [Next]_vars => TagInv'
<1> SUFFICES ASSUME IInv, TagInv, [Next]_vars, Agree', NEW c \in Copies' PROVE FollowsLog(c)
    BY DEF TagInv
<1>1. StateOK
    BY DEF IInv
<1>2. CASE UNCHANGED vars
    <2>1. scene' = scene /\ copy' = copy /\ doc' = doc
        BY <1>2 DEF vars
    <2>2. Agree /\ c \in Copies
        BY <2>1 DEF Agree, Copies, Rows, Documents, Has
    <2> QED
        BY <2>2 DEF TagInv
<1>3. CASE Next
    <2>1. Agree
        BY <1>1, <1>3, SceneStays DEF Agree
    <2>2. Told
        BY <2>1 DEF IInv
    <2>3. \A x \in Copies : FollowsLog(x) /\ CopyOK(x) /\ x.log # {}
        BY <1>1, <2>1, CopiesOK DEF TagInv
    <2>4. CASE Sync
        <3>1. ASSUME NEW s \in Stores, Export(s) PROVE FollowsLog(c)
            <4>1. doc' = [doc EXCEPT ![s] = copy[s]] /\ copy' = copy /\ copy[s] \in Copies
                BY <3>1 DEF Export, Copies, Rows
            <4>2. doc'[s] = copy[s] /\ \A r \in Stores \ {s} : doc'[r] = doc[r]
                BY <1>1, <4>1 DEF StateOK, OverStores
            <4>3. c \in Copies
                BY <4>1, <4>2 DEF Copies, Rows, Documents, Has
            <4> QED
                BY <2>3, <4>3
        <3>2. ASSUME NEW r \in Stores, NEW s \in Stores, Merge(r, s) PROVE FollowsLog(c)
            <4> DEFINE m == Merged(copy[r], doc[s])
            <4>1. copy' = [copy EXCEPT ![r] = m] /\ doc' = doc /\ doc[s] \in Copies
                BY <3>2 DEF Merge, Copies, Documents
            <4>2. FollowsLog(m)
                <5>1. CASE copy[r].log = {}
                    BY <2>3, <4>1, <5>1 DEF Merged
                <5>2. CASE copy[r].log # {}
                    <6>1. copy[r] \in Copies
                        BY <5>2 DEF Copies, Rows, Has
                    <6> QED
                        BY <2>3, <4>1, <5>2, <6>1, MergeFollows
                <5> QED
                    BY <5>1, <5>2
            <4> HIDE DEF m
            <4>3. copy'[r] = m /\ \A q \in Stores \ {r} : copy'[q] = copy[q]
                BY <1>1, <4>1 DEF StateOK, OverStores
            <4>4. c \in Copies \/ c = m
                BY <4>1, <4>3 DEF Copies, Rows, Documents, Has
            <4> QED
                BY <2>3, <4>2, <4>4
        <3> QED
            BY <2>4, <3>1, <3>2 DEF Sync
    <2>5. ASSUME NEW s \in Stores, NEW row, NEW events,
                 Has(s), Edit(s, row, events), Edited(s, row, events), Timely(s, row, events)
          PROVE  FollowsLog(c)
        <3>1. c \in Copies \/ c = copy'[s]
            BY <1>1, <2>5, EditKnown
        <3>2. copy[s] \in Copies
            BY <2>5 DEF Copies, Rows
        <3>3. FollowsLog(copy'[s])
            BY <1>1, <2>1, <2>2, <2>3, <2>5, <3>2, EditFollows
        <3> QED
            BY <2>3, <3>1, <3>3
    <2> QED
        BY <1>1, <1>3, <2>4, <2>5, NextEdits
<1> QED
    BY <1>2, <1>3

\* While the clocks agree, a tag is on a copy exactly while the latest word on
\* it in the copy's log is a write: no merge brings back a tag that was taken
\* off later than it was last put on, and none loses one that was put back.
THEOREM TagsFollowLogCorrect == Spec => []TagsFollowLog
<1>1. IInv /\ TagInv => TagsFollowLog
    <2> SUFFICES ASSUME IInv, TagInv, Agree, NEW c \in Copies
                 PROVE  c.row.tags = {tag \in Tags : ~Removed(c.log, tag) /\ \E w \in c.log : Writes(w, tag)}
        BY DEF TagsFollowLog
    <2>1. \A tag : \E w \in c.log : Writes(w, tag)
        BY CopiesOK, AddWrites DEF IInv
    <2>2. FollowsLog(c)
        BY DEF TagInv
    <2> QED
        BY <2>1, <2>2 DEF FollowsLog
<1>2. Spec => []TagInv
    <2>1. Init => TagInv
        BY TagStart
    <2>2. IInv /\ TagInv /\ [Next]_vars => TagInv'
        BY TagStep
    <2> QED
        BY <2>1, <2>2, IInvAlways, PTL DEF Spec
<1> QED
    BY <1>1, <1>2, IInvAlways, PTL

-----------------------------------------------------------------------------
(* What a log counts is a number *)

CountedEvent(e) == EventOK(e) /\ e.secs \in Int /\ e.total \in Int /\ e.delta \in Int

HasFirst(S) == \E e \in S : \A x \in S : Place(e) <= Place(x)

LEMMA EndsExist ==
    ASSUME NEW S, IsFiniteSet(S), S # {}, \A e \in S : EventOK(e)
    PROVE  HasLast(S) /\ HasFirst(S)
<1>1. \A e \in S : Place(e) \in Int
    BY PlaceType
<1>2. HasLast(S)
    <2> DEFINE p == [e \in S |-> Place(e)]
               P == {p[e] : e \in DOMAIN p}
    <2>1. IsFiniteSet(P)
        <3>1. IsFiniteSet(DOMAIN p)
            OBVIOUS
        <3> HIDE DEF p
        <3> QED
            BY <3>1, ValuesFinite
    <2>2. P \subseteq Int /\ P # {} /\ \A e \in S : Place(e) \in P
        BY <1>1
    <2>3. \A x \in P : \E e \in S : x = Place(e)
        OBVIOUS
    <2> HIDE DEF P
    <2>4. Max(P) \in P /\ \A x \in P : x <= Max(P)
        BY <2>1, <2>2, IntMax
    <2> QED
        BY <2>2, <2>3, <2>4 DEF HasLast
<1>3. HasFirst(S)
    <2> DEFINE p == [e \in S |-> -Place(e)]
               P == {p[e] : e \in DOMAIN p}
    <2>1. IsFiniteSet(P)
        <3>1. IsFiniteSet(DOMAIN p)
            OBVIOUS
        <3> HIDE DEF p
        <3> QED
            BY <3>1, ValuesFinite
    <2>2. P \subseteq Int /\ P # {} /\ \A e \in S : -Place(e) \in P
        BY <1>1
    <2>3. \A x \in P : \E e \in S : x = -Place(e)
        OBVIOUS
    <2> HIDE DEF P
    <2>4. PICK m \in P : \A x \in P : x <= m
        BY <2>1, <2>2, IntMax
    <2>5. PICK e \in S : m = -Place(e)
        BY <2>3
    <2>6. \A x \in S : Place(e) <= Place(x)
        BY <1>1, <2>2, <2>4, <2>5
    <2> QED
        BY <2>6 DEF HasFirst
<1> QED
    BY <1>2, <1>3

LEMMA SecsType ==
    ASSUME NEW from \in Int, NEW to \in Int
    PROVE  Secs(from, to) \in Int
<1>1. from \div SECOND \in Int /\ to \div SECOND \in Int
    BY LogAssumption
<1> QED
    BY <1>1 DEF Secs

Logbook(L) == IsFiniteSet(L) /\ \A e \in L : CountedEvent(e)

LEMMA PartOfLog ==
    ASSUME NEW L, Logbook(L), NEW S, S \subseteq L
    PROVE  /\ Logbook(S) /\ (S # {} => Last(S) \in S /\ First(S) \in S)
<1>1. IsFiniteSet(S)
    BY FS_Subset DEF Logbook
<1>2. \A e \in S : CountedEvent(e)
    BY DEF Logbook
<1>3. S # {} => HasLast(S) /\ HasFirst(S)
    BY <1>1, <1>2, EndsExist DEF CountedEvent
<1>4. S # {} => First(S) \in S
    BY <1>3 DEF HasFirst, First
<1>5. S # {} => Last(S) \in S
    BY <1>3 DEF HasLast, Last
<1> QED
    BY <1>1, <1>2, <1>4, <1>5 DEF Logbook

LEMMA SinceType ==
    ASSUME NEW L, Logbook(L)
    PROVE  Since(L) \subseteq L /\ (Resets(L) # {} => Last(Resets(L)) \in L /\ "tracked" \in Last(Resets(L)).cols)
<1>1. Resets(L) \subseteq L
    BY DEF Resets
<1>2. Resets(L) # {} => Last(Resets(L)) \in Resets(L)
    BY <1>1, PartOfLog
<1> QED
    BY <1>1, <1>2 DEF Since, After, Resets

\* What S's instants are.
LEMMA InstantsFinite ==
    ASSUME NEW S, IsFiniteSet(S)
    PROVE  IsFiniteSet({c.since : c \in S})
<1> DEFINE f == [c \in S |-> c.since]
<1>1. {c.since : c \in S} = {f[c] : c \in DOMAIN f}
    OBVIOUS
<1>2. IsFiniteSet(DOMAIN f)
    OBVIOUS
<1> HIDE DEF f
<1>3. IsFiniteSet({f[c] : c \in DOMAIN f})
    BY <1>2, ValuesFinite
<1> QED
    BY <1>1, <1>3

LEMMA LengthType ==
    ASSUME NEW e, CountedEvent(e)
    PROVE  Length(e) \in Int
<1>1. e.since \in Int /\ e.at \in Int /\ e.secs \in Int
    BY DEF CountedEvent, EventOK
<1>2. Secs(e.since, e.at) \in Int
    BY <1>1, SecsType
<1> QED
    BY <1>1, <1>2 DEF Length

LEMMA IntervalsType ==
    ASSUME NEW S, Logbook(S)
    PROVE  Intervals(S) \in Int
<1> DEFINE Longest(i) == Max({Length(c) : c \in {c \in S : c.since = i}})
           f == [i \in {c.since : c \in S} |-> Longest(i)]
<1>1. IsFiniteSet(DOMAIN f)
    BY InstantsFinite DEF Logbook
<1>2. ASSUME NEW i \in DOMAIN f PROVE f[i] \in Int
    <2> DEFINE C == {c \in S : c.since = i}
               g == [c \in C |-> Length(c)]
               N == {g[c] : c \in DOMAIN g}
    <2>1. C \subseteq S /\ C # {}
        OBVIOUS
    <2>2. IsFiniteSet(DOMAIN g)
        BY <2>1, FS_Subset DEF Logbook
    <2>3. \A c \in C : Length(c) \in Int
        BY LengthType DEF Logbook
    <2>4. N = {Length(c) : c \in C} /\ N # {} /\ N \subseteq Int
        BY <2>1, <2>3
    <2>5. IsFiniteSet(N)
        <3> HIDE DEF g
        <3> QED
            BY <2>2, ValuesFinite
    <2> HIDE DEF N, C
    <2>6. Max(N) \in Int
        BY <2>4, <2>5, IntMax
    <2> QED
        BY <2>4, <2>6 DEF C
<1>3. Intervals(S) = SumFunction(f)
    BY DEF Intervals
<1> HIDE DEF f
<1> QED
    BY <1>1, <1>2, <1>3, SumType

LEMMA AdjustedType ==
    ASSUME NEW L, Logbook(L)
    PROVE  Adjusted(L) \in Int
<1> DEFINE Back(e) == {d \in L : d.op = "adjust_tracked" /\ d.id = e.undone}
           Taken(e) == SumFunction([d \in Back(e) |-> d.delta])
           Delta(e) == IF e.op = "adjust_tracked" THEN e.delta ELSE -Taken(e)
           S == {e \in Since(L) : "adjust_tracked" \in {e.op, e.of}}
           f == [e \in S |-> Delta(e)]
<1>1. S \subseteq L /\ IsFiniteSet(S)
    BY SinceType, FS_Subset DEF Logbook
<1>2. ASSUME NEW e \in L PROVE Taken(e) \in Int
    <2> DEFINE g == [d \in Back(e) |-> d.delta]
    <2>1. Back(e) \subseteq L
        OBVIOUS
    <2>2. IsFiniteSet(DOMAIN g) /\ \A d \in DOMAIN g : g[d] \in Int
        BY <2>1, FS_Subset DEF Logbook, CountedEvent
    <2> HIDE DEF g
    <2>3. SumFunction(g) \in Int
        BY <2>2, SumType
    <2> QED
        BY <2>3 DEF g
<1> HIDE DEF Taken, Back
<1>3. ASSUME NEW e \in S PROVE f[e] \in Int
    BY <1>1, <1>2 DEF Logbook, CountedEvent
<1>4. Adjusted(L) = SumFunction(f)
    BY DEF Adjusted, Taken, Back
<1>5. IsFiniteSet(DOMAIN f)
    BY <1>1
<1> HIDE DEF f, S
<1>6. \A e \in DOMAIN f : f[e] \in Int
    BY <1>3 DEF f
<1> QED
    BY <1>4, <1>5, <1>6, SumType

LEMMA TakenBackType ==
    ASSUME NEW L, Logbook(L)
    PROVE  TakenBack(L) \in Int
<1> DEFINE S == {u \in Reopens(L) \cap Since(L) : Reopened(L, u) = {}}
           f == [u \in S |-> u.secs]
<1>1. S \subseteq L /\ IsFiniteSet(S)
    BY SinceType, FS_Subset DEF Logbook
<1>2. IsFiniteSet(DOMAIN f) /\ \A u \in DOMAIN f : f[u] \in Int
    BY <1>1 DEF Logbook, CountedEvent
<1>3. TakenBack(L) = SumFunction(f)
    BY DEF TakenBack
<1> HIDE DEF f
<1> QED
    BY <1>2, <1>3, SumType

LEMMA BankedType ==
    ASSUME NEW L, Logbook(L), NEW i \in Int
    PROVE  Banked(L, i) \in Int
<1> DEFINE after == After(L, First({e \in Openings(L) : e.since = i}))
           next == Edits(after, "status")
           from == IF Resets(L) # {} /\ When(Last(Resets(L))) > i THEN When(Last(Resets(L))) ELSE i
<1>1. after \subseteq L /\ next \subseteq after
    BY DEF After, Edits
<1>2. from \in Int
    BY SinceType, PlaceType DEF Logbook, CountedEvent
<1>3. next # {} => First(after).at \in Int
    BY <1>1, PartOfLog DEF Logbook, CountedEvent, EventOK
<1>4. Banked(L, i) = IF next = {} \/ First(next).op \in {"start", "undo"} THEN 0
                     ELSE Secs(from, First(after).at)
    BY DEF Banked
<1> HIDE DEF after, next, from
<1>5. next # {} => Secs(from, First(after).at) \in Int
    BY <1>2, <1>3, SecsType
<1> QED
    BY <1>4, <1>5

\* What a log counts is a number: a finite log, and numbers in its events.
LEMMA CountType ==
    ASSUME NEW L, Logbook(L), NEW running
    PROVE  Tracked(L, running) \in Int /\ Adjusted(L) \in Int
<1> DEFINE f == [i \in LeftOpen(L, running) |-> Banked(L, i)]
<1>1. (IF Resets(L) = {} THEN 0 ELSE Last(Resets(L)).total) \in Int
    BY SinceType DEF Logbook, CountedEvent
<1>2. Intervals(Standing(L) \cap Since(L)) \in Int
    <2>1. Standing(L) \cap Since(L) \subseteq L
        BY SinceType
    <2> QED
        BY <2>1, PartOfLog, IntervalsType
<1>3. SumFunction(f) \in Int
    <2>1. Openings(L) \subseteq L
        BY DEF Openings
    <2>2. IsFiniteSet({e.since : e \in Openings(L)})
        BY <2>1, FS_Subset, InstantsFinite DEF Logbook
    <2>3. DOMAIN f \subseteq {e.since : e \in Openings(L)}
        BY DEF LeftOpen
    <2>4. IsFiniteSet(DOMAIN f)
        BY <2>2, <2>3, FS_Subset
    <2>5. \A i \in DOMAIN f : i \in Int
        BY <2>1, <2>3 DEF Logbook, CountedEvent, EventOK
    <2>6. \A i \in DOMAIN f : f[i] \in Int
        BY <2>5, BankedType
    <2> HIDE DEF f
    <2> QED
        BY <2>4, <2>6, SumType
<1> QED
    BY <1>1, <1>2, <1>3, AdjustedType, TakenBackType DEF Tracked

-----------------------------------------------------------------------------
(* What a merge makes of the total of a document it has merged *)

CountedRow(row) == row.tracked \in Int /\ row.adj \in Int
Counted(c) == Logbook(c.log) /\ CountedRow(c.row)

LEMMA BeyondType ==
    ASSUME NEW c, Counted(c)
    PROVE  /\ Beyond(c).tracked \in Int /\ Beyond(c).adj \in Int
           /\ Beyond(c) = [tracked |-> Beyond(c).tracked, adj |-> Beyond(c).adj]
<1>1. Tracked(c.log, Running(c.row)) \in Int /\ Adjusted(c.log) \in Int
    BY CountType DEF Counted
<1> QED
    BY <1>1 DEF Beyond, Counted, CountedRow

\* Of at most two numbers the larger one.
LEMMA RestOf ==
    ASSUME NEW x \in Int, NEW y \in Int, NEW S, S \subseteq {x, y}
    PROVE  /\ Rest(S) \in Int /\ (S = {} => Rest(S) = 0)
           /\ S # {} => Rest(S) \in S /\ \A z \in S : z <= Rest(S)
<1>1. \E m \in Int : S # {} => m \in S /\ \A z \in S : m >= z
    <2>1. S = {} \/ S = {x} \/ S = {y} \/ S = {x, y}
        OBVIOUS
    <2>2. x >= y \/ y >= x
        OBVIOUS
    <2>3. CASE S = {}
        BY <2>3
    <2>4. CASE S # {} /\ x \in S /\ \A z \in S : x >= z
        BY <2>4
    <2>5. CASE S # {} /\ y \in S /\ \A z \in S : y >= z
        BY <2>5
    <2>6. \A z \in S : z = x \/ z = y
        OBVIOUS
    <2>7. x >= x /\ y >= y
        OBVIOUS
    <2> QED
        BY <2>1, <2>2, <2>3, <2>4, <2>5, <2>6, <2>7
<1>2. S # {} => Max(S) \in S /\ \A z \in S : Max(S) >= z
    BY <1>1 DEF Max
<1>3. \A z \in S : z \in Int
    OBVIOUS
<1>4. CASE S = {}
    BY <1>4 DEF Rest
<1>5. CASE S # {}
    <2>1. PICK m : m = Max(S)
        OBVIOUS
    <2>2. m \in S /\ (\A z \in S : m >= z) /\ Rest(S) = m /\ m \in Int
        BY <1>2, <1>3, <1>5, <2>1 DEF Rest
    <2>3. \A z \in S : z <= m
        BY <1>3, <2>2
    <2> QED
        BY <1>5, <2>2, <2>3
<1> QED
    BY <1>4, <1>5

\* What a merge keeps of two copies, as numbers.
LEMMA KeptType ==
    ASSUME NEW a, Counted(a), NEW b, Counted(b)
    PROVE  LET K == Kept(a, b)
               r == Rest({k.tracked : k \in K})
               q == Rest({k.adj : k \in K})
           IN  /\ r \in Int /\ q \in Int
               /\ K = {} => r = 0 /\ q = 0
               /\ \A k \in K : k.tracked <= r /\ k.adj <= q
               /\ K \subseteq {Beyond(a), Beyond(b)}
<1> DEFINE K == Kept(a, b)
<1>1. K \subseteq {Beyond(a), Beyond(b)}
    BY DEF Kept
<1>2. Beyond(a).tracked \in Int /\ Beyond(a).adj \in Int /\ Beyond(b).tracked \in Int /\ Beyond(b).adj \in Int
    BY BeyondType
<1> HIDE DEF K
<1>3. PICK T : T = {k.tracked : k \in K}
    OBVIOUS
<1>4. PICK A : A = {k.adj : k \in K}
    OBVIOUS
<1>5. /\ T \subseteq {Beyond(a).tracked, Beyond(b).tracked} /\ A \subseteq {Beyond(a).adj, Beyond(b).adj}
      /\ K = {} => T = {} /\ A = {}
      /\ \A k \in K : k.tracked \in T /\ k.adj \in A
    BY <1>1, <1>3, <1>4
<1>6. Rest(T) \in Int /\ (T = {} => Rest(T) = 0) /\ (T # {} => \A z \in T : z <= Rest(T))
    BY <1>2, <1>5, RestOf
<1>7. Rest(A) \in Int /\ (A = {} => Rest(A) = 0) /\ (A # {} => \A z \in A : z <= Rest(A))
    BY <1>2, <1>5, RestOf
<1>8. \A k \in K : k.tracked <= Rest(T) /\ k.adj <= Rest(A)
    BY <1>5, <1>6, <1>7
<1> QED
    BY <1>1, <1>3, <1>4, <1>5, <1>6, <1>7, <1>8 DEF K

\* What is kept is of one of them.
LEMMA MostKept ==
    ASSUME NEW a, Counted(a), NEW b, Counted(b), NEW x \in Int, NEW y \in Int, Kept(a, b) # {},
           \A k \in Kept(a, b) : k.tracked <= x /\ k.adj <= y
    PROVE  Rest({k.tracked : k \in Kept(a, b)}) <= x /\ Rest({k.adj : k \in Kept(a, b)}) <= y
<1> DEFINE K == Kept(a, b)
<1>1. K \subseteq {Beyond(a), Beyond(b)} /\ K # {}
    BY KeptType
<1>2. Beyond(a).tracked \in Int /\ Beyond(a).adj \in Int /\ Beyond(b).tracked \in Int /\ Beyond(b).adj \in Int
    BY BeyondType
<1> HIDE DEF K
<1>3. PICK T : T = {k.tracked : k \in K}
    OBVIOUS
<1>4. PICK A : A = {k.adj : k \in K}
    OBVIOUS
<1>5. /\ T \subseteq {Beyond(a).tracked, Beyond(b).tracked} /\ A \subseteq {Beyond(a).adj, Beyond(b).adj}
      /\ T # {} /\ A # {}
    BY <1>1, <1>3, <1>4
<1>6. Rest(T) \in T
    BY <1>2, <1>5, RestOf
<1>7. Rest(A) \in A
    BY <1>2, <1>5, RestOf
<1>8. \A k \in K : k.tracked <= x /\ k.adj <= y
    BY DEF K
<1>9. Rest(T) <= x /\ Rest(A) <= y
    BY <1>3, <1>4, <1>6, <1>7, <1>8
<1> QED
    BY <1>3, <1>4, <1>9 DEF K

LEMMA TotalType ==
    ASSUME NEW a, Counted(a), NEW b, Counted(b), NEW running
    PROVE  LET total == MergedTotal(a, b, running)
           IN  total.tracked \in Int /\ total.adj \in Int
<1> DEFINE T == Tracked(a.log \cup b.log, running)
           A == Adjusted(a.log \cup b.log)
           r == Rest({k.tracked : k \in Kept(a, b)})
           q == Rest({k.adj : k \in Kept(a, b)})
<1>1. Logbook(a.log \cup b.log)
    BY FS_Union DEF Counted, Logbook
<1>2. T \in Int /\ A \in Int
    BY <1>1, CountType
<1>3. r \in Int /\ q \in Int
    BY KeptType
<1>4. MergedTotal(a, b, running) = AtLeastZero(T + Larger(0, r), A + q)
    BY DEF MergedTotal, TotalOf
<1> HIDE DEF T, A, r, q
<1> QED
    BY <1>2, <1>3, <1>4 DEF AtLeastZero, Larger

\* A document that is merged already adds nothing to the total: what its log
\* does not explain is within what the merge kept.
LEMMA SameTotal ==
    ASSUME NEW a, Counted(a), NEW b, Counted(b), NEW m, Counted(m), NEW running,
           m.log = a.log \cup b.log, running = Running(m.row),
           m.row.tracked = MergedTotal(a, b, running).tracked,
           m.row.adj = MergedTotal(a, b, running).adj
    PROVE  /\ MergedTotal(m, b, running).tracked = m.row.tracked
           /\ MergedTotal(m, b, running).adj = m.row.adj
<1> DEFINE L == a.log \cup b.log
           T == Tracked(L, running)
           A == Adjusted(L)
           K == Kept(a, b)
           N == Kept(m, b)
           r == Rest({k.tracked : k \in K})
           q == Rest({k.adj : k \in K})
           u == Rest({k.tracked : k \in N})
           v == Rest({k.adj : k \in N})
<1>1. m.log \cup b.log = L /\ Logbook(L)
    BY DEF Counted
<1>2. T \in Int /\ A \in Int
    BY <1>1, CountType
<1>3. r \in Int /\ q \in Int /\ (K = {} => r = 0 /\ q = 0) /\ \A k \in K : k.tracked <= r /\ k.adj <= q
    BY KeptType
<1>4. /\ u \in Int /\ v \in Int /\ (N = {} => u = 0 /\ v = 0) /\ (\A k \in N : k.tracked <= u /\ k.adj <= v)
    BY KeptType
<1>5. MergedTotal(a, b, running) = AtLeastZero(T + Larger(0, r), A + q)
    BY DEF MergedTotal, TotalOf
<1>6. MergedTotal(m, b, running) = AtLeastZero(T + Larger(0, u), A + v)
    BY <1>1 DEF MergedTotal, TotalOf
<1>7. Beyond(m) = [tracked |-> m.row.tracked - T, adj |-> m.row.adj - A]
    BY <1>1 DEF Beyond
<1>8. Holds(L, L) => N = {Beyond(m)} \cup {k \in {Beyond(b)} : Holds(b.log, L)}
    BY <1>1 DEF Kept
<1>9. Holds(b.log, L) => Beyond(b) \in K
    BY DEF Kept
<1>10. CASE ~Holds(L, L)
    <2>1. ~Holds(a.log, L) /\ ~Holds(b.log, L)
        BY <1>10 DEF Holds
    <2>2. K = {} /\ N = {}
        BY <1>1, <1>10, <2>1 DEF Kept
    <2> QED
        BY <1>3, <1>4, <1>5, <1>6, <2>2
<1>11. CASE Holds(L, L)
    <2> HIDE DEF T, A, K, N, r, q, L
    <2>1. /\ Beyond(m) \in N
          /\ \A k \in N : k = Beyond(m) \/ (k = Beyond(b) /\ k \in K)
        BY <1>8, <1>9, <1>11
    <2> DEFINE dt == m.row.tracked - T
               da == m.row.adj - A
    <2>2. m.row.tracked \in Int /\ m.row.adj \in Int /\ dt \in Int /\ da \in Int
        BY <1>2 DEF Counted, CountedRow
    <2>3. Larger(0, r) \in Int /\ r <= Larger(0, r) /\ 0 <= Larger(0, r)
        BY <1>3 DEF Larger
    <2>4. \/ m.row.tracked = T + Larger(0, r) /\ m.row.adj = A + q /\ m.row.tracked >= 0
          \/ m.row.tracked = 0 /\ m.row.adj = A + q - (T + Larger(0, r)) /\ T + Larger(0, r) < 0
        BY <1>2, <1>3, <1>5, <2>3 DEF AtLeastZero
    <2>5. r <= dt /\ q <= da /\ 0 <= dt
        BY <1>2, <1>3, <2>2, <2>3, <2>4
    <2>6. \A k \in N : k.tracked <= dt /\ k.adj <= da
        <3> SUFFICES ASSUME NEW k \in N PROVE k.tracked <= dt /\ k.adj <= da
            OBVIOUS
        <3>1. CASE k = Beyond(m)
            <4>1. k.tracked = dt /\ k.adj = da
                BY <1>7, <3>1
            <4> QED
                BY <2>2, <4>1
        <3>2. CASE k = Beyond(b) /\ k \in K
            <4>1. k.tracked <= r /\ k.adj <= q
                BY <1>3, <3>2
            <4>2. k.tracked \in Int /\ k.adj \in Int
                BY <3>2, BeyondType
            <4> HIDE DEF dt, da
            <4> QED
                BY <1>3, <2>2, <2>5, <4>1, <4>2
        <3> QED
            BY <2>1, <3>1, <3>2
    <2>7. \E k \in N : k.tracked = dt /\ k.adj = da
        BY <1>7, <2>1
    <2>8. u = dt /\ v = da
        <3>1. Counted(m) /\ Counted(b)
            OBVIOUS
        <3>2. dt <= u /\ da <= v
            BY <1>4, <2>7
        <3>3. u <= dt /\ v <= da
            <4>1. Kept(m, b) # {}
                BY <2>7 DEF N
            <4>2. \A k \in Kept(m, b) : k.tracked <= dt /\ k.adj <= da
                BY <2>6 DEF N
            <4> HIDE DEF dt, da
            <4> QED
                BY <2>2, <3>1, <4>1, <4>2, MostKept DEF N, u, v
        <3> QED
            BY <1>4, <2>2, <3>2, <3>3
    <2>9. T + Larger(0, u) = m.row.tracked /\ A + v = m.row.adj /\ m.row.tracked >= 0
        BY <1>2, <2>2, <2>4, <2>5, <2>8 DEF Larger
    <2>10. PICK x, y : x = T + Larger(0, u) /\ y = A + v
        OBVIOUS
    <2>11. MergedTotal(m, b, running) = AtLeastZero(x, y) /\ x = m.row.tracked /\ y = m.row.adj /\ ~(x < 0)
        BY <1>6, <2>2, <2>9, <2>10
    <2>12. AtLeastZero(x, y) = [tracked |-> x, adj |-> y]
        BY <2>11 DEF AtLeastZero
    <2> QED
        BY <2>11, <2>12
<1> QED
    BY <1>10, <1>11

-----------------------------------------------------------------------------
(* A document merged a second time *)

\* A merged row holds what was chosen, but that a closed task has no claim.
LEMMA MergedValue ==
    ASSUME NEW a, CopyOK(a), a.log # {}, NEW b, CopyOK(b), NEW g \in GROUPS
    PROVE  LET v == Value(Merged(a, b).row, g)
           IN  v = Chosen(a, b, g) \/ (g = "claim" /\ v = 0)
<1> DEFINE m == Merged(a, b)
           c == Chosen(a, b, "status")
<1>1. /\ m.row.status = c[1] /\ m.row.since = c[2] /\ m.row.title = Chosen(a, b, "title")
      /\ m.row.claim = IF c[1] \in {"pending", "active"} THEN Chosen(a, b, "claim") ELSE 0
    BY MergedFields
<1>2. c = <<c[1], c[2]>>
    BY ChosenOne DEF Value
<1> HIDE DEF m, c
<1>3. Value(m.row, "status") = Chosen(a, b, "status")
    BY <1>1, <1>2 DEF Value, c
<1>4. Value(m.row, "title") = Chosen(a, b, "title")
    BY <1>1 DEF Value
<1>5. Value(m.row, "claim") = Chosen(a, b, "claim") \/ Value(m.row, "claim") = 0
    BY <1>1 DEF Value
<1> QED
    BY <1>3, <1>4, <1>5 DEF GROUPS, m

LEMMA NoneAboveNull ==
    ASSUME NEW x \in Int
    PROVE  ~Higher(Text("claim", x), Text("claim", 0))
BY DEF Higher, Text

\* Of a document merged already the merge takes what it holds.
LEMMA ChosenAgain ==
    ASSUME NEW a, CopyOK(a), a.log # {}, NEW b, CopyOK(b), b.log # {}, NEW g \in GROUPS
    PROVE  Chosen(Merged(a, b), b, g) = Value(Merged(a, b).row, g)
<1> DEFINE m == Merged(a, b)
           v == Value(m.row, g)
           p == Place(Last(Edits(a.log, g)))
           q == Place(Last(Edits(b.log, g)))
           r == Place(Last(Edits(m.log, g)))
<1>1. CopyOK(m) /\ m.log = a.log \cup b.log /\ m.log # {}
      /\ m.row.modified = Larger(a.row.modified, b.row.modified)
    BY MergedOK, MergedFields
<1>2. /\ Edits(a.log, g) # {} /\ Edits(b.log, g) # {} /\ Edits(m.log, g) # {}
      /\ HasLast(Edits(a.log, g)) /\ HasLast(Edits(b.log, g))
      /\ p \in Int /\ q \in Int /\ r \in Int
    BY <1>1, EveryGroup
<1>3. (q > p => r = q) /\ (p >= q => r = p)
    <2>1. Edits(m.log, g) = Edits(a.log, g) \cup Edits(b.log, g)
        BY <1>1, EditsUnion
    <2>2. \A e \in Edits(a.log, g) \cup Edits(b.log, g) : EventOK(e)
        BY DEF Edits, CopyOK
    <2>3. Edits(a.log, g) \cup Edits(b.log, g) # {}
        BY <1>2
    <2> HIDE DEF m
    <2> QED
        BY <1>2, <2>1, <2>2, <2>3, LastOfTwo
<1>4. PayloadWins(a.log, b.log, g, TieIsTheirs(a.row, b.row, g))
        <=> (q > p \/ (q = p /\ TieIsTheirs(a.row, b.row, g)))
    BY <1>2 DEF PayloadWins
<1>5. PayloadWins(m.log, b.log, g, TieIsTheirs(m.row, b.row, g))
        <=> (q > r \/ (q = r /\ TieIsTheirs(m.row, b.row, g)))
    BY <1>2 DEF PayloadWins
<1>6. v = Chosen(a, b, g) \/ (g = "claim" /\ v = 0)
    BY MergedValue
<1>7. a.row.modified \in Nat /\ b.row.modified \in Nat /\ b.row.claim \in Int
    BY DEF CopyOK, RowOK
<1> HIDE DEF m, p, q, r
<1>8. ASSUME PayloadWins(m.log, b.log, g, TieIsTheirs(m.row, b.row, g))
      PROVE  v = Value(b.row, g)
    <2>1. q = r /\ q >= p /\ TieIsTheirs(m.row, b.row, g)
        BY <1>2, <1>3, <1>5, <1>8
    <2>2. /\ b.row.modified = m.row.modified /\ b.row.modified >= a.row.modified
          /\ Higher(Text(g, Value(b.row, g)), Text(g, v))
        <3>1. m.row.modified >= b.row.modified /\ m.row.modified >= a.row.modified
              /\ m.row.modified \in Nat
            BY <1>1, <1>7 DEF Larger
        <3>2. b.row.modified > m.row.modified
              \/ (b.row.modified = m.row.modified /\ Higher(Text(g, Value(b.row, g)), Text(g, v)))
            BY <2>1 DEF TieIsTheirs
        <3> QED
            BY <1>7, <3>1, <3>2
    <2>3. ~(g = "claim" /\ v = 0)
        <3>1. g = "claim" => Value(b.row, g) \in Int
            BY <1>7 DEF Value
        <3> HIDE DEF v
        <3> QED
            BY <2>2, <3>1, NoneAboveNull
    <2>4. v = Chosen(a, b, g)
        BY <1>6, <2>3
    <2>5. ASSUME v # Value(b.row, g) PROVE FALSE
        <3>1. v = Value(a.row, g) /\ ~PayloadWins(a.log, b.log, g, TieIsTheirs(a.row, b.row, g))
            BY <2>4, <2>5 DEF Chosen
        <3>2. q = p /\ ~TieIsTheirs(a.row, b.row, g)
            BY <1>2, <1>4, <2>1, <3>1
        <3> HIDE DEF v
        <3>3. ~(b.row.modified > a.row.modified)
              /\ (b.row.modified = a.row.modified
                    => ~Higher(Text(g, Value(b.row, g)), Text(g, Value(a.row, g))))
            BY <3>2 DEF TieIsTheirs
        <3> QED
            BY <1>7, <2>2, <3>1, <3>3
    <2> QED
        BY <2>5
<1> QED
    BY <1>8 DEF Chosen, m

LEMMA TagsAgain ==
    ASSUME NEW a, CopyOK(a), a.log # {}, NEW b, CopyOK(b)
    PROVE  MergedTags(Merged(a, b), b) = Merged(a, b).row.tags
<1> DEFINE m == Merged(a, b)
<1>1. m.log = a.log \cup b.log /\ m.row.tags = MergedTags(a, b)
    BY MergedFields
<1> HIDE DEF m
<1>2. m.log \cup b.log = a.log \cup b.log
    BY <1>1
<1>3. MergedTags(a, b) = {tag \in a.row.tags \cup b.row.tags : ~Removed(a.log \cup b.log, tag)}
    BY DEF MergedTags
<1>4. MergedTags(m, b) = {tag \in m.row.tags \cup b.row.tags : ~Removed(a.log \cup b.log, tag)}
    BY <1>2 DEF MergedTags
<1> QED
    BY <1>1, <1>3, <1>4 DEF m

\* What a merge makes of two copies can be counted as they can.
LEMMA MergedCounted ==
    ASSUME NEW a, CopyOK(a), Counted(a), NEW b, CopyOK(b), Counted(b)
    PROVE  Counted(Merged(a, b))
<1>1. CASE a.log = {}
    BY <1>1 DEF Merged
<1>2. CASE a.log # {}
    <2>1. PICK status : status = Chosen(a, b, "status")
        OBVIOUS
    <2>2. LET m == Merged(a, b)  total == MergedTotal(a, b, RunningOf(status))
          IN  m.log = a.log \cup b.log /\ m.row.tracked = total.tracked /\ m.row.adj = total.adj
        BY <1>2, <2>1, MergedFields
    <2>3. Logbook(a.log \cup b.log)
        BY FS_Union DEF Counted, Logbook
    <2> QED
        BY <2>2, <2>3, TotalType DEF Counted, CountedRow
<1> QED
    BY <1>1, <1>2

LEMMA ScalarsAgain ==
    ASSUME NEW a, CopyOK(a), a.log # {}, Counted(a), NEW b, CopyOK(b), b.log # {}, Counted(b)
    PROVE  MergedScalars(Merged(a, b), b) = Merged(a, b).row
<1> DEFINE m == Merged(a, b)
           status == Chosen(m, b, "status")
           total == MergedTotal(m, b, RunningOf(status))
<1>1. CopyOK(m) /\ Counted(m) /\ Shaped(m.row) /\ m.log = a.log \cup b.log
      /\ m.row.modified = Larger(a.row.modified, b.row.modified)
    BY MergedOK, MergedFields, MergedCounted
<1>2. /\ status = <<m.row.status, m.row.since>>
      /\ Chosen(m, b, "title") = m.row.title /\ Chosen(m, b, "claim") = m.row.claim
    BY ChosenAgain DEF GROUPS, Value
<1>3. total.tracked = m.row.tracked /\ total.adj = m.row.adj
    <2>1. PICK first : first = Chosen(a, b, "status")
        OBVIOUS
    <2>2. /\ m.row.status = first[1] /\ m.row.since = first[2]
          /\ m.row.tracked = MergedTotal(a, b, RunningOf(first)).tracked
          /\ m.row.adj = MergedTotal(a, b, RunningOf(first)).adj
        BY <2>1, MergedFields
    <2>3. RunningOf(first) = Running(m.row) /\ RunningOf(status) = Running(m.row)
        BY <1>2, <2>2 DEF RunningOf, Running
    <2>4. PICK running : running = Running(m.row)
        OBVIOUS
    <2> HIDE DEF m, status
    <2> QED
        BY <1>1, <2>2, <2>3, <2>4, SameTotal
<1>4. Larger(m.row.modified, b.row.modified) = m.row.modified
    BY <1>1 DEF Larger, CopyOK, RowOK
<1>5. MergedScalars(m, b) =
        [status |-> status[1], since |-> status[2], title |-> Chosen(m, b, "title"),
         claim |-> Chosen(m, b, "claim"), tracked |-> total.tracked, adj |-> total.adj,
         modified |-> Larger(m.row.modified, b.row.modified), tags |-> m.row.tags,
         rev |-> m.row.rev]
    BY <1>1, ScalarFields
<1> HIDE DEF m, status, total
<1> QED
    BY <1>1, <1>2, <1>3, <1>4, <1>5 DEF Shaped, m

\* Merging a document a second time changes nothing.
LEMMA Again ==
    ASSUME NEW a, CopyOK(a), a.log # {}, Counted(a), NEW b, CopyOK(b), b.log # {}, Counted(b)
    PROVE  Merged(Merged(a, b), b) = Merged(a, b)
<1> DEFINE m == Merged(a, b)
<1>1. m = [row |-> m.row, log |-> m.log] /\ m.log = a.log \cup b.log /\ Shaped(m.row) /\ m.log # {}
    BY MergedFields
<1>2. MergedScalars(m, b) = m.row /\ MergedTags(m, b) = m.row.tags
    BY ScalarsAgain, TagsAgain
<1> HIDE DEF m
<1>3. MergedRev(m, b, m.row, m.row.tags) = m.row.rev /\ Upserted(m, m.row) = m.row
    BY DEF MergedRev, Upserted
<1>4. Merged(m, b) = Rewritten(m, b, m.row, m.row.tags)
    BY <1>1, <1>2 DEF Merged
<1>5. Rewritten(m, b, m.row, m.row.tags)
        = [row |-> [m.row EXCEPT !.tags = m.row.tags, !.rev = m.row.rev], log |-> m.log \cup b.log]
    BY <1>3 DEF Rewritten
<1>6. m.log \cup b.log = m.log
    BY <1>1
<1>7. [m.row EXCEPT !.tags = m.row.tags, !.rev = m.row.rev] = m.row
    BY <1>1 DEF Shaped
<1> QED
    BY <1>1, <1>4, <1>5, <1>6, <1>7 DEF m

-----------------------------------------------------------------------------
(* Every copy can be counted *)

Tally(e) == e.secs \in Int /\ e.total \in Int /\ e.delta \in Int
Numbers(row, events) == CountedRow(row) /\ IsFiniteSet(events) /\ \A e \in events : Tally(e)
\* What an edit writes can be counted.
Tallied(s) == \E row, events : Edit(s, row, events) /\ Numbers(row, events)

SumInv ==
    \A s \in Stores : /\ Counted(copy[s]) /\ Counted(doc[s])
                      /\ CountedRow(last[s].before) /\ CountedEvent(last[s].ev)

LEMMA OneTallied ==
    ASSUME NEW s, NEW row, NEW e, Edit(s, row, {e}), CountedRow(row), Tally(e)
    PROVE  Tallied(s)
<1>1. IsFiniteSet({e})
    BY FS_Singleton
<1>2. Numbers(row, {e})
    BY <1>1 DEF Numbers
<1> QED
    BY <1>2 DEF Tallied

LEMMA ElapsedType ==
    ASSUME StateOK, NEW s \in Stores
    PROVE  Elapsed(s, copy[s].row) \in Int
<1>1. copy[s].row.since \in Int /\ Clock(s) \in Int
    BY OldType, ClockType
<1>2. Secs(copy[s].row.since, Clock(s)) \in Int
    BY <1>1, SecsType
<1> QED
    BY <1>2 DEF Elapsed

LEMMA OldNumbers ==
    ASSUME StateOK, SumInv, NEW s \in Stores
    PROVE  /\ Shaped(copy[s].row) /\ CountedRow(copy[s].row) /\ CountedRow(last[s].before)
           /\ last[s].ev.secs \in Int /\ last[s].ev.delta \in Int
           /\ Elapsed(s, copy[s].row) \in Int
BY ElapsedType DEF StateOK, CopyOK, RowOK, SumInv, Counted, CountedEvent

LEMMA StartTallied ==
    ASSUME StateOK, SumInv, NEW s \in Stores, Start(s, copy[s].row)
    PROVE  Tallied(s)
<1> DEFINE old == copy[s].row
           row == [old EXCEPT !.status = "active", !.since = Clock(s)]
           e == [Logged(s, "start") EXCEPT !.since = Clock(s)]
<1>1. Edit(s, row, {e})
    BY DEF Start
<1>2. CountedRow(row)
    <2>1. Shaped(old) /\ CountedRow(old) /\ CountedRow(last[s].before)
          /\ last[s].ev.secs \in Int /\ last[s].ev.delta \in Int /\ Elapsed(s, old) \in Int
        BY OldNumbers
    <2>2. "tracked" \in DOMAIN old /\ "adj" \in DOMAIN old
        BY <2>1 DEF Shaped
    <2> HIDE DEF old
    <2> QED
        BY <2>1, <2>2 DEF CountedRow
<1>3. Tally(e)
    BY LoggedFields, OldNumbers DEF Tally, UndoEvent
<1> HIDE DEF row, e
<1> QED
    BY <1>1, <1>2, <1>3, OneTallied

LEMMA StopTallied ==
    ASSUME StateOK, SumInv, NEW s \in Stores, Stop(s, copy[s].row)
    PROVE  Tallied(s)
<1> DEFINE old == copy[s].row
           row == [old EXCEPT !.status = "pending", !.since = 0, !.tracked = old.tracked + Elapsed(s, old)]
           e == [Logged(s, "stop") EXCEPT !.since = old.since, !.secs = Elapsed(s, old)]
<1>1. Edit(s, row, {e})
    BY DEF Stop
<1>2. CountedRow(row)
    <2>1. Shaped(old) /\ CountedRow(old) /\ CountedRow(last[s].before)
          /\ last[s].ev.secs \in Int /\ last[s].ev.delta \in Int /\ Elapsed(s, old) \in Int
        BY OldNumbers
    <2>2. "tracked" \in DOMAIN old /\ "adj" \in DOMAIN old
        BY <2>1 DEF Shaped
    <2> HIDE DEF old
    <2> QED
        BY <2>1, <2>2 DEF CountedRow
<1>3. Tally(e)
    BY LoggedFields, OldNumbers DEF Tally, UndoEvent
<1> HIDE DEF row, e
<1> QED
    BY <1>1, <1>2, <1>3, OneTallied

LEMMA CloseTallied ==
    ASSUME StateOK, SumInv, NEW s \in Stores, NEW op, NEW status, Close(s, copy[s].row, op, status)
    PROVE  Tallied(s)
<1> DEFINE old == copy[s].row
           row == [old EXCEPT !.status = status, !.since = 0, !.claim = 0,
                              !.tracked = old.tracked + Elapsed(s, old)]
           e == [Logged(s, op) EXCEPT !.since = Running(old)]
<1>1. Edit(s, row, {e})
    BY DEF Close
<1>2. CountedRow(row)
    <2>1. Shaped(old) /\ CountedRow(old) /\ CountedRow(last[s].before)
          /\ last[s].ev.secs \in Int /\ last[s].ev.delta \in Int /\ Elapsed(s, old) \in Int
        BY OldNumbers
    <2>2. "tracked" \in DOMAIN old /\ "adj" \in DOMAIN old
        BY <2>1 DEF Shaped
    <2> HIDE DEF old
    <2> QED
        BY <2>1, <2>2 DEF CountedRow
<1>3. Tally(e)
    BY LoggedFields, OldNumbers DEF Tally, UndoEvent
<1> HIDE DEF row, e
<1> QED
    BY <1>1, <1>2, <1>3, OneTallied

LEMMA ReopenTallied ==
    ASSUME StateOK, SumInv, NEW s \in Stores, Reopen(s, copy[s].row)
    PROVE  Tallied(s)
<1> DEFINE old == copy[s].row
           row == [old EXCEPT !.status = "pending"]
           e == Logged(s, "reopen")
<1>1. Edit(s, row, {e})
    BY DEF Reopen
<1>2. CountedRow(row)
    <2>1. Shaped(old) /\ CountedRow(old) /\ CountedRow(last[s].before)
          /\ last[s].ev.secs \in Int /\ last[s].ev.delta \in Int /\ Elapsed(s, old) \in Int
        BY OldNumbers
    <2>2. "tracked" \in DOMAIN old /\ "adj" \in DOMAIN old
        BY <2>1 DEF Shaped
    <2> HIDE DEF old
    <2> QED
        BY <2>1, <2>2 DEF CountedRow
<1>3. Tally(e)
    BY LoggedFields, OldNumbers DEF Tally, UndoEvent
<1> HIDE DEF row, e
<1> QED
    BY <1>1, <1>2, <1>3, OneTallied

LEMMA ClaimTallied ==
    ASSUME StateOK, SumInv, NEW s \in Stores, Claim(s, copy[s].row)
    PROVE  Tallied(s)
<1> DEFINE old == copy[s].row
           row == [old EXCEPT !.claim = s]
           e == Logged(s, IF old.claim = s THEN "renew" ELSE "claim")
<1>1. Edit(s, row, {e})
    BY DEF Claim
<1>2. CountedRow(row)
    <2>1. Shaped(old) /\ CountedRow(old) /\ CountedRow(last[s].before)
          /\ last[s].ev.secs \in Int /\ last[s].ev.delta \in Int /\ Elapsed(s, old) \in Int
        BY OldNumbers
    <2>2. "tracked" \in DOMAIN old /\ "adj" \in DOMAIN old
        BY <2>1 DEF Shaped
    <2> HIDE DEF old
    <2> QED
        BY <2>1, <2>2 DEF CountedRow
<1>3. Tally(e)
    BY LoggedFields, OldNumbers DEF Tally, UndoEvent
<1> HIDE DEF row, e
<1> QED
    BY <1>1, <1>2, <1>3, OneTallied

LEMMA ReleaseTallied ==
    ASSUME StateOK, SumInv, NEW s \in Stores, Release(s, copy[s].row)
    PROVE  Tallied(s)
<1> DEFINE old == copy[s].row
           row == [old EXCEPT !.claim = 0]
           e == Logged(s, "release")
<1>1. Edit(s, row, {e})
    BY DEF Release
<1>2. CountedRow(row)
    <2>1. Shaped(old) /\ CountedRow(old) /\ CountedRow(last[s].before)
          /\ last[s].ev.secs \in Int /\ last[s].ev.delta \in Int /\ Elapsed(s, old) \in Int
        BY OldNumbers
    <2>2. "tracked" \in DOMAIN old /\ "adj" \in DOMAIN old
        BY <2>1 DEF Shaped
    <2> HIDE DEF old
    <2> QED
        BY <2>1, <2>2 DEF CountedRow
<1>3. Tally(e)
    BY LoggedFields, OldNumbers DEF Tally, UndoEvent
<1> HIDE DEF row, e
<1> QED
    BY <1>1, <1>2, <1>3, OneTallied

LEMMA CancelByModifyTallied ==
    ASSUME StateOK, SumInv, NEW s \in Stores, CancelByModify(s, copy[s].row)
    PROVE  Tallied(s)
<1> DEFINE old == copy[s].row
           row == [old EXCEPT !.status = "cancelled", !.since = 0, !.claim = 0,
                              !.tracked = old.tracked + Elapsed(s, old)]
           cols == {"status"} \cup IF old.status = "active" THEN {"active_since"} ELSE {}
           e == [Logged(s, "modify") EXCEPT !.cols = cols]
<1>1. Edit(s, row, {e})
    BY DEF CancelByModify
<1>2. CountedRow(row)
    <2>1. Shaped(old) /\ CountedRow(old) /\ CountedRow(last[s].before)
          /\ last[s].ev.secs \in Int /\ last[s].ev.delta \in Int /\ Elapsed(s, old) \in Int
        BY OldNumbers
    <2>2. "tracked" \in DOMAIN old /\ "adj" \in DOMAIN old
        BY <2>1 DEF Shaped
    <2> HIDE DEF old
    <2> QED
        BY <2>1, <2>2 DEF CountedRow
<1>3. Tally(e)
    BY LoggedFields, OldNumbers DEF Tally, UndoEvent
<1> HIDE DEF row, e
<1> QED
    BY <1>1, <1>2, <1>3, OneTallied

LEMMA RenameTallied ==
    ASSUME StateOK, SumInv, NEW s \in Stores, NEW title, Rename(s, copy[s].row, title)
    PROVE  Tallied(s)
<1> DEFINE old == copy[s].row
           row == [old EXCEPT !.title = title]
           e == [Logged(s, "modify") EXCEPT !.cols = {"title"}]
<1>1. Edit(s, row, {e})
    BY DEF Rename
<1>2. CountedRow(row)
    <2>1. Shaped(old) /\ CountedRow(old) /\ CountedRow(last[s].before)
          /\ last[s].ev.secs \in Int /\ last[s].ev.delta \in Int /\ Elapsed(s, old) \in Int
        BY OldNumbers
    <2>2. "tracked" \in DOMAIN old /\ "adj" \in DOMAIN old
        BY <2>1 DEF Shaped
    <2> HIDE DEF old
    <2> QED
        BY <2>1, <2>2 DEF CountedRow
<1>3. Tally(e)
    BY LoggedFields, OldNumbers DEF Tally, UndoEvent
<1> HIDE DEF row, e
<1> QED
    BY <1>1, <1>2, <1>3, OneTallied

LEMMA SetTotalTallied ==
    ASSUME StateOK, SumInv, NEW s \in Stores, NEW total \in Totals, SetTotal(s, copy[s].row, total)
    PROVE  Tallied(s)
<1> DEFINE old == copy[s].row
           row == [old EXCEPT !.tracked = total, !.adj = 0]
           e == [Logged(s, "modify") EXCEPT !.cols = {"tracked"}, !.total = total]
<1>1. Edit(s, row, {e})
    BY DEF SetTotal
<1>2. CountedRow(row)
    <2>1. Shaped(old) /\ CountedRow(old) /\ CountedRow(last[s].before)
          /\ last[s].ev.secs \in Int /\ last[s].ev.delta \in Int /\ Elapsed(s, old) \in Int
        BY OldNumbers
    <2>2. "tracked" \in DOMAIN old /\ "adj" \in DOMAIN old
        BY <2>1 DEF Shaped
    <2> HIDE DEF old
    <2> QED
        BY <2>1, <2>2, StoresAssumption DEF CountedRow
<1>3. Tally(e)
    BY LoggedFields, OldNumbers, StoresAssumption DEF Tally, UndoEvent
<1> HIDE DEF row, e
<1> QED
    BY <1>1, <1>2, <1>3, OneTallied

LEMMA AdjustTallied ==
    ASSUME StateOK, SumInv, NEW s \in Stores, NEW delta \in Deltas, Adjust(s, copy[s].row, delta)
    PROVE  Tallied(s)
<1> DEFINE old == copy[s].row
           row == [old EXCEPT !.tracked = old.tracked + delta, !.adj = old.adj + delta]
           e == [Logged(s, "adjust_tracked") EXCEPT !.delta = delta]
<1>1. Edit(s, row, {e})
    BY DEF Adjust
<1>2. CountedRow(row)
    <2>1. Shaped(old) /\ CountedRow(old) /\ CountedRow(last[s].before)
          /\ last[s].ev.secs \in Int /\ last[s].ev.delta \in Int /\ Elapsed(s, old) \in Int
        BY OldNumbers
    <2>2. "tracked" \in DOMAIN old /\ "adj" \in DOMAIN old
        BY <2>1 DEF Shaped
    <2> HIDE DEF old
    <2> QED
        BY <2>1, <2>2, StoresAssumption DEF CountedRow
<1>3. Tally(e)
    BY LoggedFields, OldNumbers, StoresAssumption DEF Tally, UndoEvent
<1> HIDE DEF row, e
<1> QED
    BY <1>1, <1>2, <1>3, OneTallied

LEMMA AddTagTallied ==
    ASSUME StateOK, SumInv, NEW s \in Stores, NEW tag, AddTag(s, copy[s].row, tag)
    PROVE  Tallied(s)
<1> DEFINE old == copy[s].row
           row == [old EXCEPT !.tags = old.tags \cup {tag}]
           e == [Logged(s, "tag.add") EXCEPT !.tag = tag]
<1>1. Edit(s, row, {e})
    BY DEF AddTag
<1>2. CountedRow(row)
    <2>1. Shaped(old) /\ CountedRow(old) /\ CountedRow(last[s].before)
          /\ last[s].ev.secs \in Int /\ last[s].ev.delta \in Int /\ Elapsed(s, old) \in Int
        BY OldNumbers
    <2>2. "tracked" \in DOMAIN old /\ "adj" \in DOMAIN old
        BY <2>1 DEF Shaped
    <2> HIDE DEF old
    <2> QED
        BY <2>1, <2>2 DEF CountedRow
<1>3. Tally(e)
    BY LoggedFields, OldNumbers DEF Tally, UndoEvent
<1> HIDE DEF row, e
<1> QED
    BY <1>1, <1>2, <1>3, OneTallied

LEMMA RemoveTagTallied ==
    ASSUME StateOK, SumInv, NEW s \in Stores, NEW tag, RemoveTag(s, copy[s].row, tag)
    PROVE  Tallied(s)
<1> DEFINE old == copy[s].row
           row == [old EXCEPT !.tags = old.tags \ {tag}]
           e == [Logged(s, "tag.remove") EXCEPT !.tag = tag]
<1>1. Edit(s, row, {e})
    BY DEF RemoveTag
<1>2. CountedRow(row)
    <2>1. Shaped(old) /\ CountedRow(old) /\ CountedRow(last[s].before)
          /\ last[s].ev.secs \in Int /\ last[s].ev.delta \in Int /\ Elapsed(s, old) \in Int
        BY OldNumbers
    <2>2. "tracked" \in DOMAIN old /\ "adj" \in DOMAIN old
        BY <2>1 DEF Shaped
    <2> HIDE DEF old
    <2> QED
        BY <2>1, <2>2 DEF CountedRow
<1>3. Tally(e)
    BY LoggedFields, OldNumbers DEF Tally, UndoEvent
<1> HIDE DEF row, e
<1> QED
    BY <1>1, <1>2, <1>3, OneTallied

LEMMA UndoStopTallied ==
    ASSUME StateOK, SumInv, NEW s \in Stores, UndoStop(s, copy[s].row)
    PROVE  Tallied(s)
<1> DEFINE old == copy[s].row
           row == [old EXCEPT !.status = "active", !.since = Rebuilt(last[s].ev),
                              !.tracked = old.tracked - last[s].ev.secs]
           e == [UndoEvent(s) EXCEPT !.since = Rebuilt(last[s].ev), !.secs = last[s].ev.secs]
<1>1. Edit(s, row, {e})
    BY DEF UndoStop
<1>2. CountedRow(row)
    <2>1. Shaped(old) /\ CountedRow(old) /\ CountedRow(last[s].before)
          /\ last[s].ev.secs \in Int /\ last[s].ev.delta \in Int /\ Elapsed(s, old) \in Int
        BY OldNumbers
    <2>2. "tracked" \in DOMAIN old /\ "adj" \in DOMAIN old
        BY <2>1 DEF Shaped
    <2> HIDE DEF old
    <2> QED
        BY <2>1, <2>2 DEF CountedRow
<1>3. Tally(e)
    BY LoggedFields, OldNumbers DEF Tally, UndoEvent
<1> HIDE DEF row, e
<1> QED
    BY <1>1, <1>2, <1>3, OneTallied

LEMMA UndoAdjustTallied ==
    ASSUME StateOK, SumInv, NEW s \in Stores, UndoAdjust(s, copy[s].row)
    PROVE  Tallied(s)
<1> DEFINE old == copy[s].row
           row == [old EXCEPT !.tracked = old.tracked - last[s].ev.delta,
                              !.adj = old.adj - last[s].ev.delta]
           e == UndoEvent(s)
<1>1. Edit(s, row, {e})
    BY DEF UndoAdjust
<1>2. CountedRow(row)
    <2>1. Shaped(old) /\ CountedRow(old) /\ CountedRow(last[s].before)
          /\ last[s].ev.secs \in Int /\ last[s].ev.delta \in Int /\ Elapsed(s, old) \in Int
        BY OldNumbers
    <2>2. "tracked" \in DOMAIN old /\ "adj" \in DOMAIN old
        BY <2>1 DEF Shaped
    <2> HIDE DEF old
    <2> QED
        BY <2>1, <2>2 DEF CountedRow
<1>3. Tally(e)
    BY LoggedFields, OldNumbers DEF Tally, UndoEvent
<1> HIDE DEF row, e
<1> QED
    BY <1>1, <1>2, <1>3, OneTallied

LEMMA UndoTagTallied ==
    ASSUME StateOK, SumInv, NEW s \in Stores, UndoTag(s, copy[s].row)
    PROVE  Tallied(s)
<1> DEFINE old == copy[s].row
           row == [old EXCEPT !.tags = last[s].before.tags]
           e == [UndoEvent(s) EXCEPT !.tag = IF last[s].before.tags = old.tags THEN 0 ELSE last[s].ev.tag]
<1>1. Edit(s, row, {e})
    BY DEF UndoTag
<1>2. CountedRow(row)
    <2>1. Shaped(old) /\ CountedRow(old) /\ CountedRow(last[s].before)
          /\ last[s].ev.secs \in Int /\ last[s].ev.delta \in Int /\ Elapsed(s, old) \in Int
        BY OldNumbers
    <2>2. "tracked" \in DOMAIN old /\ "adj" \in DOMAIN old
        BY <2>1 DEF Shaped
    <2> HIDE DEF old
    <2> QED
        BY <2>1, <2>2 DEF CountedRow
<1>3. Tally(e)
    BY LoggedFields, OldNumbers DEF Tally, UndoEvent
<1> HIDE DEF row, e
<1> QED
    BY <1>1, <1>2, <1>3, OneTallied

LEMMA UndoCloseTallied ==
    ASSUME StateOK, SumInv, NEW s \in Stores, UndoClose(s, copy[s].row)
    PROVE  Tallied(s)
<1> DEFINE old == copy[s].row
           before == last[s].before
           row == [old EXCEPT !.status = before.status, !.since = before.since,
                              !.claim = before.claim, !.tracked = before.tracked]
           e == [UndoEvent(s) EXCEPT !.id = Id(s, 1), !.since = last[s].ev.since,
                                     !.secs = old.tracked - before.tracked]
           f == Logged(s, "renew")
           events == {e} \cup IF before.claim = 0 THEN {} ELSE {f}
<1>1. Edit(s, row, events)
    BY DEF UndoClose
<1>2. CountedRow(row)
    <2>1. Shaped(old) /\ CountedRow(old) /\ CountedRow(last[s].before)
          /\ last[s].ev.secs \in Int /\ last[s].ev.delta \in Int /\ Elapsed(s, old) \in Int
        BY OldNumbers
    <2>2. "tracked" \in DOMAIN old /\ "adj" \in DOMAIN old
        BY <2>1 DEF Shaped
    <2> HIDE DEF old
    <2> QED
        BY <2>1, <2>2 DEF CountedRow
<1>3. Tally(e) /\ Tally(f)
    <2>1. old.tracked - before.tracked \in Int
        BY OldNumbers DEF CountedRow
    <2> QED
        BY <2>1, LoggedFields DEF Tally, UndoEvent
<1> HIDE DEF row, e, f
<1>4. IsFiniteSet(events) /\ events \subseteq {e, f}
    BY FS_Singleton, FS_Union, FS_EmptySet
<1> HIDE DEF events
<1>5. Numbers(row, events)
    BY <1>2, <1>3, <1>4 DEF Numbers
<1> QED
    BY <1>1, <1>5 DEF Tallied

LEMMA UndoModifyTallied ==
    ASSUME StateOK, SumInv, NEW s \in Stores, UndoModify(s, copy[s].row)
    PROVE  Tallied(s)
<1> DEFINE old == copy[s].row
           before == last[s].before
           row == [old EXCEPT !.status = before.status, !.since = before.since,
                              !.title = before.title, !.claim = before.claim,
                              !.tracked = before.tracked, !.adj = before.adj]
           e == [UndoEvent(s) EXCEPT !.id = Id(s, 1), !.cols = last[s].ev.cols]
           f == Logged(s, "renew")
           events == {e} \cup IF before.claim = old.claim THEN {} ELSE {f}
<1>1. Edit(s, row, events)
    BY DEF UndoModify
<1>2. CountedRow(row)
    <2>1. Shaped(old) /\ CountedRow(old) /\ CountedRow(last[s].before)
          /\ last[s].ev.secs \in Int /\ last[s].ev.delta \in Int /\ Elapsed(s, old) \in Int
        BY OldNumbers
    <2>2. "tracked" \in DOMAIN old /\ "adj" \in DOMAIN old
        BY <2>1 DEF Shaped
    <2> HIDE DEF old
    <2> QED
        BY <2>1, <2>2 DEF CountedRow
<1>3. Tally(e) /\ Tally(f)
    BY LoggedFields, OldNumbers DEF Tally, UndoEvent
<1> HIDE DEF row, e, f
<1>4. IsFiniteSet(events) /\ events \subseteq {e, f}
    BY FS_Singleton, FS_Union, FS_EmptySet
<1> HIDE DEF events
<1>5. Numbers(row, events)
    BY <1>2, <1>3, <1>4 DEF Numbers
<1> QED
    BY <1>1, <1>5 DEF Tallied

LEMMA EveryTallied ==
    ASSUME StateOK, SumInv, NEW s \in Stores, UserEdit(s, copy[s].row) \/ Undo(s, copy[s].row)
    PROVE  Tallied(s)
<1>1. CASE UserEdit(s, copy[s].row)
    BY <1>1, StartTallied, StopTallied, CloseTallied, ReopenTallied, ClaimTallied, ReleaseTallied,
       CancelByModifyTallied, RenameTallied, SetTotalTallied, AdjustTallied, AddTagTallied, RemoveTagTallied DEF UserEdit
<1>2. CASE Undo(s, copy[s].row)
    BY <1>2, UndoStopTallied, UndoCloseTallied, UndoModifyTallied, UndoAdjustTallied, UndoTagTallied DEF Undo
<1> QED
    BY <1>1, <1>2

LEMMA SumEdit ==
    ASSUME StateOK, SumInv, NEW s \in Stores, Has(s), UserEdit(s, copy[s].row) \/ Undo(s, copy[s].row)
    PROVE  SumInv'
<1>1. PICK row, events : Edit(s, row, events) /\ Edited(s, row, events)
    BY EveryEdit
<1>2. PICK row2, events2 : Edit(s, row2, events2) /\ Numbers(row2, events2)
    BY EveryTallied DEF Tallied
<1>3. /\ CopyOK(copy'[s]) /\ HasLast(events) /\ doc' = doc
      /\ copy'[s].log = copy[s].log \cup events /\ last'[s] = [ev |-> Last(events), before |-> copy[s].row]
      /\ \A r \in Stores \ {s} : copy'[r] = copy[r] /\ last'[r] = last[r]
    <2>1. CopyOK(copy'[s])
        BY <1>1, EditCopyOK
    <2>2. HasLast(events)
        BY <1>1 DEF Edited
    <2>3. Edit(s, row, events)
        BY <1>1
    <2>4. /\ copy'[s] = [row |-> Stamped(s, row), log |-> copy[s].log \cup events] /\ doc' = doc
          /\ last'[s] = [ev |-> Last(events), before |-> copy[s].row]
          /\ \A r \in Stores \ {s} : copy'[r] = copy[r] /\ last'[r] = last[r]
        BY <2>3, EditMoves
    <2> QED
        BY <2>1, <2>2, <2>4
<1>4. copy'[s] = [row |-> Stamped(s, row2), log |-> copy[s].log \cup events2]
    <2>1. Edit(s, row2, events2)
        BY <1>2
    <2>2. /\ copy'[s] = [row |-> Stamped(s, row2), log |-> copy[s].log \cup events2] /\ doc' = doc
          /\ last'[s] = [ev |-> Last(events2), before |-> copy[s].row]
          /\ \A r \in Stores \ {s} : copy'[r] = copy[r] /\ last'[r] = last[r]
        BY <2>1, EditMoves
    <2> QED
        BY <2>2
<1>5. Counted(copy'[s])
    <2>1. IsFiniteSet(copy[s].log \cup events2) /\ \A e \in copy'[s].log : Tally(e)
        <3>1. IsFiniteSet(copy[s].log) /\ \A e \in copy[s].log : Tally(e)
            BY DEF SumInv, Counted, Logbook, CountedEvent, Tally
        <3>2. IsFiniteSet(events2) /\ \A e \in events2 : Tally(e)
            BY <1>2 DEF Numbers
        <3>3. IsFiniteSet(copy[s].log \cup events2)
            BY <3>1, <3>2, FS_Union
        <3> QED
            BY <1>4, <3>1, <3>2, <3>3
    <2>2. \A e \in copy'[s].log : EventOK(e)
        BY <1>3 DEF CopyOK
    <2>3. CountedRow(Stamped(s, row2))
        <3>1. Shaped(Stamped(s, row2))
            BY <1>3, <1>4 DEF CopyOK, RowOK
        <3>2. "tracked" \in DOMAIN Stamped(s, row2) /\ "adj" \in DOMAIN Stamped(s, row2)
            BY <3>1 DEF Shaped
        <3>3. Stamped(s, row2).tracked = row2.tracked /\ Stamped(s, row2).adj = row2.adj
            BY <3>2 DEF Stamped
        <3> QED
            BY <1>2, <3>3 DEF Numbers, CountedRow
    <2> QED
        BY <1>4, <2>1, <2>2, <2>3 DEF Counted, Logbook, CountedEvent, Tally
<1>6. CountedEvent(last'[s].ev) /\ CountedRow(last'[s].before)
    <2>1. Last(events) \in copy'[s].log
        BY <1>3, LastOf
    <2> QED
        BY <1>3, <1>5, <2>1 DEF Counted, Logbook, SumInv
<1> QED
    BY <1>3, <1>5, <1>6 DEF SumInv

LEMMA SumSync ==
    ASSUME StateOK, SumInv, Sync
    PROVE  SumInv'
<1>1. ASSUME NEW s \in Stores, Export(s)
      PROVE  SumInv'
    <2>1. copy' = copy /\ last' = last /\ \A r \in Stores : doc'[r] \in {doc[r], copy[r]}
        BY <1>1 DEF Export, StateOK, OverStores
    <2> QED
        BY <2>1 DEF SumInv
<1>2. ASSUME NEW r \in Stores, NEW s \in Stores, Merge(r, s)
      PROVE  SumInv'
    <2>1. PICK m : m = Merged(copy[r], doc[s])
        OBVIOUS
    <2>2. Counted(m)
        BY <2>1, MergedCounted DEF StateOK, SumInv
    <2>3. doc' = doc /\ \A q \in Stores : copy'[q] \in {copy[q], m} /\ last'[q] \in {last[q], Nothing}
        BY <1>2, <2>1 DEF Merge, StateOK, OverStores
    <2>4. CountedRow(Nothing.before) /\ CountedEvent(Nothing.ev)
        BY StoresAssumption DEF Nothing, NewRow, Event, CountedRow, CountedEvent, EventOK
    <2> QED
        BY <2>2, <2>3, <2>4 DEF SumInv
<1> QED
    BY <1>1, <1>2 DEF Sync

LEMMA SumStart == Init => SumInv
<1> SUFFICES ASSUME Init PROVE SumInv
    OBVIOUS
<1>1. CountedRow(NewRow)
    BY StoresAssumption DEF NewRow, CountedRow
<1>2. CountedEvent(Nothing.ev) /\ Nothing.before = NewRow
    BY DEF Nothing, Event, CountedEvent, EventOK
<1>3. PICK add : add = Event("add", 0, SECOND)
    OBVIOUS
<1>4. CountedEvent(add)
    BY <1>3, LogAssumption DEF Event, CountedEvent, EventOK
<1>5. Logbook({add}) /\ Logbook({})
    BY <1>4, FS_Singleton, FS_EmptySet DEF Logbook
<1>6. Counted([row |-> NewRow, log |-> {add}]) /\ Counted(Absent)
    BY <1>1, <1>5 DEF Counted, Absent
<1>7. \A s \in Stores : /\ copy[s] \in {[row |-> NewRow, log |-> {add}], Absent}
                        /\ doc[s] = Absent /\ last[s] = Nothing
    BY <1>3 DEF Init
<1> QED
    BY <1>1, <1>2, <1>6, <1>7 DEF SumInv

LEMMA SumStep == StateOK /\ SumInv /\ [Next]_vars => SumInv'
<1> SUFFICES ASSUME StateOK, SumInv, [Next]_vars PROVE SumInv'
    OBVIOUS
<1>1. CASE Next
    <2>1. Sync \/ \E s \in Stores : Has(s) /\ (UserEdit(s, copy[s].row) \/ Undo(s, copy[s].row))
        BY <1>1 DEF Next
    <2> QED
        BY <2>1, SumSync, SumEdit
<1>2. CASE UNCHANGED vars
    BY <1>2 DEF SumInv, vars
<1> QED
    BY <1>1, <1>2

LEMMA SumAlways == Spec => [](StateOK /\ SumInv)
<1>1. Init => StateOK /\ SumInv
    BY StateStart, SumStart
<1>2. StateOK /\ SumInv /\ [Next]_vars => (StateOK /\ SumInv)'
    BY StateStep, SumStep
<1> QED
    BY <1>1, <1>2, PTL DEF Spec

\* Merging a document a second time writes nothing, the rev included: the field
\* merge chooses what the row holds already, the ledger removes what it had
\* removed, and the total comes out of the union of the logs as it did, for what
\* the union does not explain of it is what the first merge kept.
THEOREM MergeIsIdempotentCorrect == Spec => []MergeIsIdempotent
<1>1. StateOK /\ SumInv => MergeIsIdempotent
    <2> SUFFICES ASSUME StateOK, SumInv, NEW b \in Documents, NEW a \in Rows
                 PROVE  Merged(Merged(a, b), b) = Merged(a, b)
        BY DEF MergeIsIdempotent
    <2>1. CopyOK(a) /\ Counted(a) /\ a.log # {}
        BY DEF Rows, Has, StateOK, SumInv
    <2>2. CopyOK(b) /\ Counted(b) /\ b.log # {}
        BY DEF Documents, StateOK, SumInv
    <2> QED
        BY <2>1, <2>2, Again
<1> QED
    BY <1>1, SumAlways, PTL

-----------------------------------------------------------------------------
(* The ledger of a copy *)

IsReset(e) == e.op = "modify" /\ "tracked" \in e.cols
IsReopen(e) == e.op = "undo" /\ e.of \in Closing
IsOpening(e) == e.since # 0 /\ (e.op = "start" \/ IsReopen(e))
IsClose(e) == e.op \in Closing /\ e.since # 0
IsRefund(e) == e.of = "adjust_tracked"

IsAdjust(e) == e.op = "adjust_tracked"

\* An event as the edits write it.
Entry(e) ==
    /\ e.op = "start" => e.since = e.at
    /\ e.op = "stop" => e.since # 0 /\ e.secs = Secs(e.since, e.at)
    /\ IsAdjust(e) => e.delta \in Nat /\ ~IsRefund(e)
    /\ IsReset(e) => e.total \in Nat
    /\ IsReopen(e) /\ e.since = 0 => e.secs = 0

\* What an event rests on is in its log.
Rooted(L) ==
    /\ \A e \in L : IsClose(e) \/ IsOpening(e) => \E o \in L : o.op = "start" /\ o.at = e.since
    /\ \A u \in L : IsReopen(u) =>
            \E c \in L : c.op \in Closing /\ c.id = u.undone /\ c.since = u.since /\ c.at < u.at
    /\ \A u \in L : IsRefund(u) => \E d \in L : IsAdjust(d) /\ d.id = u.undone

\* A correction is undone once, and never beside a total that was set.
Settled(L) ==
    /\ \A u, v \in L : IsRefund(u) /\ IsRefund(v) /\ u.undone = v.undone => u = v
    /\ \A u, e \in L : ~(IsRefund(u) /\ IsReset(e))

\* The interval that runs after a status event.
Opened(e) == IF e.op = "start" \/ IsReopen(e) THEN e.since ELSE 0
\* The interval a log says runs.
Runs(L) == Opened(Last(Edits(L, "status")))
Tells(c) ==
    /\ Running(c.row) = Runs(c.log)
    /\ c.row.status = "active" => c.row.since # 0
Stamp(c) == (\E e \in c.log : e.at = c.row.modified) /\ \A e \in c.log : e.at <= c.row.modified
Explained(c) == Beyond(c) = [tracked |-> IF Resets(c.log) = {} THEN Earlier ELSE 0, adj |-> 0]
Honest(c) == Rooted(c.log) /\ Tells(c) /\ Explained(c)

\* A log that tells of every close: no modify of it cancelled a running task.
Clean(L) == Blind(L) = {}
\* What the copies with such logs know.
Sound == UNION {c.log : c \in {c \in Copies : Clean(c.log)}}

\* What undo finds: its event is the newest of the log, a close the only one of
\* its interval that stands.
Backed(s) ==
    LET ev == last[s].ev  row == copy[s].row  before == last[s].before  log == copy[s].log
    IN  /\ ev.op # "import" => ev \in log /\ \A x \in log \ {ev} : Place(x) < Place(ev)
        /\ ev.op \in Closing =>
                /\ ev.since = Running(before) /\ (before.status = "active" => before.since # 0)
                /\ row.tracked = before.tracked + (IF ev.since = 0 THEN 0 ELSE Secs(ev.since, ev.at))
                /\ \A c \in Standing(log) : c.since = ev.since => c = ev
        /\ ev.op = "modify" /\ ~IsReset(ev) =>
                /\ row.tracked = before.tracked /\ row.adj = before.adj
                /\ "status" \in ev.cols => row.status # "active" /\ before.status # "active"

\* A correction is undone by the machine that made it, while it is the newest
\* event there.
Adjusting(s) == IsAdjust(last[s].ev) /\ Clean(copy[s].log)
Once ==
    \A s \in Stores : Adjusting(s) =>
        /\ \A u \in Sound : IsRefund(u) => u.undone # last[s].ev.id
        /\ \A r \in Stores \ {s} : Adjusting(r) => last[r].ev.id # last[s].ev.id

\* What the scene's calls write.
Called ==
    /\ \A e \in Sound : IsRefund(e) => "adjust_tracked" \in scene.undone
    /\ \A e \in Sound : IsReset(e) => SetsTotals(scene)

LedgerInv ==
    /\ Called /\ Once /\ Settled(Sound)
    /\ \A e \in Sound : Entry(e)
    /\ \A c \in Copies : Stamp(c) /\ (Clean(c.log) => Honest(c))
    /\ \A s \in Stores : Clean(copy[s].log) => Backed(s)
AgreedLedger == Agree => LedgerInv

-----------------------------------------------------------------------------
(* A log as one clock writes it *)

\* A log as one clock writes it: every event at its instant, none at another's place.
Book(L) ==
    /\ Logbook(L)
    /\ \A e \in L : ~Slow(e) /\ Minted(e) /\ Entry(e)
    /\ \A e, f \in L : e.at = f.at /\ e.id = f.id => e = f
\* An event later than a log.
Later(e, L) == \A x \in L : Place(x) < Place(e)

\* A part of a book is one.
LEMMA PartOfBook ==
    ASSUME NEW L, Book(L), NEW S, S \subseteq L
    PROVE  Book(S)
<1>1. Logbook(S)
    BY PartOfLog DEF Book
<1> QED
    BY <1>1 DEF Book

\* The numbers of an event.
LEMMA BookNumbers ==
    ASSUME NEW L, Book(L), NEW e \in L
    PROVE  /\ EventOK(e) /\ ~Slow(e) /\ Minted(e) /\ Entry(e) /\ CountedEvent(e)
           /\ e.at \in Nat /\ e.id \in Nat /\ e.since \in Int /\ e.at > 0
           /\ Place(e) \in Int /\ When(e) = e.at
           /\ IsClose(e) => e.since < e.at
<1>1. EventOK(e) /\ CountedEvent(e) /\ ~Slow(e) /\ Minted(e) /\ Entry(e)
    BY DEF Book, Logbook, CountedEvent
<1>2. e.at \in Nat /\ e.id \in Nat /\ e.since \in Int
    BY <1>1 DEF EventOK
<1>3. e.at > 0
    BY <1>1, <1>2, LogAssumption DEF Minted
<1>4. Place(e) \in Int
    BY <1>1, PlaceType
<1>5. When(e) = e.at
    BY <1>1 DEF When
<1>6. IsClose(e) => e.since < e.at
    BY <1>1, <1>2 DEF IsClose, Slow
<1> QED
    BY <1>1, <1>2, <1>3, <1>4, <1>5, <1>6

\* A place is one event's, and places follow the instants.
LEMMA BookPlaces ==
    ASSUME NEW L, Book(L), NEW e \in L, NEW f \in L
    PROVE  /\ Place(e) = Place(f) => e = f
           /\ e.at < f.at => Place(e) < Place(f)
<1>1. EventOK(e) /\ ~Slow(e) /\ Minted(e) /\ EventOK(f) /\ ~Slow(f) /\ Minted(f)
    BY BookNumbers
<1>2. /\ Place(e) = Place(f) => e.at = f.at /\ e.id = f.id
      /\ e.at < f.at => Place(e) < Place(f)
    BY <1>1, PlaceTells
<1> QED
    BY <1>2 DEF Book

\* An id is minted at one instant.
LEMMA IdTells ==
    ASSUME NEW e, EventOK(e), Minted(e), NEW f, EventOK(f), Minted(f), e.id = f.id
    PROVE  e.at = f.at
<1> DEFINE Own(x) == \E t \in Stores, n \in {0, 1} : x.id = 2 * (x.at * (Machines + 1) + t) + n
<1>1. e.at \in Nat /\ f.at \in Nat /\ e.id \in Nat /\ f.id \in Nat
    BY DEF EventOK
<1>2. ASSUME NEW x, x.at \in Nat, Own(x)
      PROVE  \E k \in Nat, t \in Nat, n \in {0, 1} :
                /\ x.id = 2 * (k + t) + n /\ k = (Machines + 1) * x.at
                /\ 0 < t /\ t < Machines + 1
    <2>1. PICK t \in Stores, n \in {0, 1} : x.id = 2 * (x.at * (Machines + 1) + t) + n
        BY <1>2
    <2>2. t \in Nat /\ 0 < t /\ t < Machines + 1 /\ Machines + 1 \in Nat
        BY StoresAssumption DEF Stores
    <2>3. x.at * (Machines + 1) = (Machines + 1) * x.at /\ (Machines + 1) * x.at \in Nat
        BY <1>2, <2>2
    <2> QED
        BY <2>1, <2>2, <2>3
<1>3. ASSUME NEW x, NEW y, x.at \in Nat, y.at \in Nat, Own(x), Own(y), x.at < y.at
      PROVE  x.id < y.id
    <2>1. PICK k \in Nat, t \in Nat, n \in {0, 1} :
                /\ x.id = 2 * (k + t) + n /\ k = (Machines + 1) * x.at
                /\ 0 < t /\ t < Machines + 1
        BY <1>2, <1>3
    <2>2. PICK j \in Nat, u \in Nat, m \in {0, 1} :
                /\ y.id = 2 * (j + u) + m /\ j = (Machines + 1) * y.at
                /\ 0 < u /\ u < Machines + 1
        BY <1>2, <1>3
    <2>3. Machines + 1 \in Nat
        BY StoresAssumption
    <2>4. j >= k + (Machines + 1)
        BY <1>3, <2>1, <2>2, <2>3, OneMore
    <2> QED
        BY <2>1, <2>2, <2>3, <2>4
<1>4. ASSUME NEW x, x.at \in Nat, Own(x)
      PROVE  x.id > 0
    <2>1. PICK k \in Nat, t \in Nat, n \in {0, 1} :
                /\ x.id = 2 * (k + t) + n /\ k = (Machines + 1) * x.at
                /\ 0 < t /\ t < Machines + 1
        BY <1>2, <1>4
    <2> QED
        BY <2>1
<1>5. (e.at = SECOND /\ e.id = 0) \/ Own(e)
    BY DEF Minted
<1>6. (f.at = SECOND /\ f.id = 0) \/ Own(f)
    BY DEF Minted
<1> HIDE DEF Own
<1>7. CASE Own(e) /\ Own(f)
    <2>1. ~(e.at < f.at) /\ ~(f.at < e.at)
        BY <1>1, <1>3, <1>7
    <2> QED
        BY <1>1, <2>1
<1>8. CASE ~Own(e) \/ ~Own(f)
    BY <1>1, <1>4, <1>5, <1>6, <1>8
<1> QED
    BY <1>7, <1>8

\* An id is one event's.
LEMMA BookIds ==
    ASSUME NEW L, Book(L), NEW e \in L, NEW f \in L, e.id = f.id
    PROVE  e = f
<1>1. EventOK(e) /\ Minted(e) /\ EventOK(f) /\ Minted(f)
    BY BookNumbers
<1>2. e.at = f.at
    BY <1>1, IdTells
<1> QED
    BY <1>2 DEF Book

\* A book that is not empty has a last and a first event.
LEMMA BookEnds ==
    ASSUME NEW L, Book(L), L # {}
    PROVE  /\ Last(L) \in L /\ \A x \in L : Place(x) <= Place(Last(L))
           /\ First(L) \in L /\ \A x \in L : Place(First(L)) <= Place(x)
<1>1. IsFiniteSet(L) /\ \A x \in L : EventOK(x)
    BY DEF Book, Logbook, CountedEvent
<1>2. HasLast(L) /\ HasFirst(L)
    BY <1>1, EndsExist
<1>3. First(L) \in L /\ \A x \in L : Place(First(L)) <= Place(x)
    BY <1>2 DEF HasFirst, First
<1>4. Last(L) \in L /\ \A x \in L : Place(x) <= Place(Last(L))
    BY <1>2 DEF HasLast, Last
<1> QED
    BY <1>3, <1>4

\* Which one it is.
LEMMA EndsWhich ==
    ASSUME NEW L, Book(L), NEW e \in L
    PROVE  /\ (\A x \in L : Place(x) <= Place(e)) => Last(L) = e
           /\ (\A x \in L : Place(e) <= Place(x)) => First(L) = e
<1>1. /\ Last(L) \in L /\ Place(e) <= Place(Last(L))
      /\ First(L) \in L /\ Place(First(L)) <= Place(e)
    BY BookEnds
<1>2. \A x \in L : Place(x) \in Int
    BY BookNumbers
<1>3. ASSUME \A x \in L : Place(x) <= Place(e) PROVE Last(L) = e
    <2>1. Place(Last(L)) = Place(e)
        BY <1>1, <1>2, <1>3
    <2> QED
        BY <1>1, <2>1, BookPlaces
<1>4. ASSUME \A x \in L : Place(e) <= Place(x) PROVE First(L) = e
    <2>1. Place(First(L)) = Place(e)
        BY <1>1, <1>2, <1>4
    <2> QED
        BY <1>1, <2>1, BookPlaces
<1> QED
    BY <1>3, <1>4

\* A later event is the last of what it is added to, and not the first.
LEMMA EndsOfMore ==
    ASSUME NEW S, NEW e, Book(S \cup {e}), Later(e, S)
    PROVE  /\ Last(S \cup {e}) = e /\ e \notin S
           /\ S # {} => First(S \cup {e}) = First(S)
<1> DEFINE M == S \cup {e}
<1>1. Book(S) /\ e \in M /\ S \subseteq M
    BY PartOfBook
<1>2. \A x \in M : Place(x) \in Int
    BY BookNumbers
<1>3. \A x \in S : Place(x) < Place(e)
    BY DEF Later
<1>4. e \notin S
    BY <1>1, <1>2, <1>3
<1>5. \A x \in M : Place(x) <= Place(e)
    BY <1>1, <1>2, <1>3
<1>6. Last(M) = e
    BY <1>1, <1>5, EndsWhich
<1>7. ASSUME S # {} PROVE First(M) = First(S)
    <2>1. First(S) \in S /\ \A x \in S : Place(First(S)) <= Place(x)
        BY <1>1, <1>7, BookEnds
    <2>2. First(S) \in M /\ \A x \in M : Place(First(S)) <= Place(x)
        BY <1>1, <1>2, <1>3, <2>1
    <2> QED
        BY <2>2, EndsWhich
<1> QED
    BY <1>4, <1>6, <1>7

-----------------------------------------------------------------------------
(* A log and one event more *)

\* The parts of a log by their events.
LEMMA PartsAre ==
    ASSUME NEW L
    PROVE  /\ Resets(L) = {e \in L : IsReset(e)} /\ Closes(L) = {e \in L : IsClose(e)}
           /\ Reopens(L) = {e \in L : IsReopen(e)} /\ Openings(L) = {e \in L : IsOpening(e)}
<1>1. Resets(L) = {e \in L : IsReset(e)} /\ Closes(L) = {e \in L : IsClose(e)}
    BY DEF Resets, Closes, IsReset, IsClose
<1>2. Reopens(L) = {e \in L : IsReopen(e)}
    BY DEF Reopens, IsReopen
<1>3. Openings(L) = {e \in L : IsOpening(e)}
    BY <1>2 DEF Openings, IsOpening
<1> QED
    BY <1>1, <1>2, <1>3

\* The parts of a log of one event more.
LEMMA PartsMore ==
    ASSUME NEW L, NEW e
    PROVE  /\ Resets(L \cup {e}) = (IF IsReset(e) THEN Resets(L) \cup {e} ELSE Resets(L))
           /\ Closes(L \cup {e}) = (IF IsClose(e) THEN Closes(L) \cup {e} ELSE Closes(L))
           /\ Reopens(L \cup {e}) = (IF IsReopen(e) THEN Reopens(L) \cup {e} ELSE Reopens(L))
           /\ Openings(L \cup {e}) = (IF IsOpening(e) THEN Openings(L) \cup {e} ELSE Openings(L))
           /\ Resets(L) \subseteq L /\ Closes(L) \subseteq L /\ Reopens(L) \subseteq L /\ Openings(L) \subseteq L
<1> DEFINE M == L \cup {e}
<1>1. /\ Resets(L) = {x \in L : IsReset(x)} /\ Closes(L) = {x \in L : IsClose(x)}
      /\ Reopens(L) = {x \in L : IsReopen(x)} /\ Openings(L) = {x \in L : IsOpening(x)}
    BY PartsAre
<1>2. /\ Resets(M) = {x \in M : IsReset(x)} /\ Closes(M) = {x \in M : IsClose(x)}
      /\ Reopens(M) = {x \in M : IsReopen(x)} /\ Openings(M) = {x \in M : IsOpening(x)}
    BY PartsAre
<1>3. Resets(M) = (IF IsReset(e) THEN Resets(L) \cup {e} ELSE Resets(L))
    BY <1>1, <1>2
<1>4. Closes(M) = (IF IsClose(e) THEN Closes(L) \cup {e} ELSE Closes(L))
    BY <1>1, <1>2
<1>5. Reopens(M) = (IF IsReopen(e) THEN Reopens(L) \cup {e} ELSE Reopens(L))
    BY <1>1, <1>2
<1>6. Openings(M) = (IF IsOpening(e) THEN Openings(L) \cup {e} ELSE Openings(L))
    BY <1>1, <1>2
<1>7. Resets(L) \subseteq L /\ Closes(L) \subseteq L /\ Reopens(L) \subseteq L /\ Openings(L) \subseteq L
    BY <1>1
<1> QED
    BY <1>3, <1>4, <1>5, <1>6, <1>7

\* The instants of a set of events.
Spans(S) == {e.since : e \in S}

\* What is counted from, with one event more.
LEMMA SinceMore ==
    ASSUME NEW L, NEW e, Book(L \cup {e}), Later(e, L)
    PROVE  /\ ~IsReset(e) => Resets(L \cup {e}) = Resets(L) /\ Since(L \cup {e}) = Since(L) \cup {e}
           /\ IsReset(e) => /\ Resets(L \cup {e}) # {} /\ Last(Resets(L \cup {e})) = e
                            /\ Since(L \cup {e}) = {}
           /\ Since(L) \subseteq L
<1> DEFINE M == L \cup {e}
<1>1. Book(L) /\ \A x \in M : Place(x) \in Int
    BY PartOfBook, BookNumbers
<1>2. \A x \in L : Place(x) < Place(e)
    BY DEF Later
<1>3. Resets(M) = (IF IsReset(e) THEN Resets(L) \cup {e} ELSE Resets(L)) /\ Resets(L) \subseteq L
    BY PartsMore
<1>4. Since(L) \subseteq L
    BY DEF Since, After
<1>5. ASSUME ~IsReset(e) PROVE Since(M) = Since(L) \cup {e}
    <2>1. CASE Resets(L) = {}
        BY <1>3, <1>5, <2>1 DEF Since
    <2>2. CASE Resets(L) # {}
        <3> DEFINE r == Last(Resets(L))
        <3>1. r \in L
            <4>1. Book(Resets(L))
                BY <1>1, <1>3, PartOfBook
            <4> QED
                BY <1>3, <2>2, <4>1, BookEnds
        <3>2. Since(M) = After(M, r) /\ Since(L) = After(L, r)
            BY <1>3, <1>5, <2>2 DEF Since
        <3> HIDE DEF r
        <3>3. After(M, r) = After(L, r) \cup {e}
            BY <1>2, <3>1 DEF After
        <3> QED
            BY <3>2, <3>3
    <2> QED
        BY <2>1, <2>2
<1>6. ASSUME IsReset(e) PROVE Resets(M) # {} /\ Last(Resets(M)) = e /\ Since(M) = {}
    <2> DEFINE R == Resets(L)
    <2>1. Resets(M) = R \cup {e}
        BY <1>3, <1>6
    <2>2. R \cup {e} \subseteq M /\ Later(e, R)
        BY <1>3 DEF Later
    <2> HIDE DEF R
    <2>3. Book(R \cup {e})
        BY <2>2, PartOfBook
    <2>4. Last(R \cup {e}) = e
        BY <2>2, <2>3, EndsOfMore
    <2>5. Since(M) = After(M, e)
        BY <2>1, <2>4 DEF Since
    <2>6. After(M, e) = {}
        <3>1. \A x \in M : ~(Place(x) > Place(e))
            BY <1>1, <1>2
        <3> QED
            BY <3>1 DEF After
    <2> QED
        BY <2>1, <2>4, <2>5, <2>6
<1> QED
    BY <1>3, <1>4, <1>5, <1>6

\* What an undo takes back, with one event more.
LEMMA ReopenedMore ==
    ASSUME NEW L, NEW e, Book(L \cup {e}), Later(e, L)
    PROVE  /\ \A u \in L : Reopened(L \cup {e}, u) = Reopened(L, u)
           /\ Reopened(L \cup {e}, e) = {c \in Closes(L) : c.id = e.undone}
<1> DEFINE M == L \cup {e}
<1>1. \A x \in M : Place(x) \in Int
    BY BookNumbers
<1>2. \A x \in L : Place(x) < Place(e)
    BY DEF Later
<1>3. Closes(L) \subseteq L /\ Closes(M) \subseteq Closes(L) \cup {e} /\ Closes(L) \subseteq Closes(M)
    BY DEF Closes
<1> HIDE DEF M
<1>4. \A u \in L : ~(Place(e) < Place(u))
    BY <1>1, <1>2 DEF M
<1>5. ~(Place(e) < Place(e))
    BY <1>1 DEF M
<1>6. \A u \in L : Reopened(M, u) = Reopened(L, u)
    BY <1>3, <1>4 DEF Reopened
<1>7. Reopened(M, e) = {c \in Closes(L) : c.id = e.undone}
    BY <1>2, <1>3, <1>5 DEF Reopened
<1> QED
    BY <1>6, <1>7 DEF M

\* The closes that stand, with one event more.
LEMMA StandingMore ==
    ASSUME NEW L, NEW e, Book(L \cup {e}), Later(e, L)
    PROVE  /\ ~IsReopen(e) => Standing(L \cup {e}) = IF IsClose(e) THEN Standing(L) \cup {e} ELSE Standing(L)
           /\ IsReopen(e) => Standing(L \cup {e}) =
                    {c \in Standing(L) : \A d \in Closes(L) : d.id = e.undone => d.since # c.since}
           /\ Standing(L) \subseteq Closes(L) /\ Closes(L) \subseteq L
<1> DEFINE M == L \cup {e}
<1>1. \A x \in M : Place(x) \in Int
    BY BookNumbers
<1>2. \A x \in L : Place(x) < Place(e)
    BY DEF Later
<1>3. /\ Closes(M) = (IF IsClose(e) THEN Closes(L) \cup {e} ELSE Closes(L))
      /\ Reopens(M) = (IF IsReopen(e) THEN Reopens(L) \cup {e} ELSE Reopens(L))
      /\ Closes(L) \subseteq L /\ Reopens(L) \subseteq L
    BY PartsMore
<1>4. /\ \A u \in L : Reopened(M, u) = Reopened(L, u)
      /\ Reopened(M, e) = {c \in Closes(L) : c.id = e.undone}
    BY ReopenedMore
<1>5. Standing(L) \subseteq Closes(L)
    BY DEF Standing
<1> HIDE DEF M
<1>6. \A u \in L : ~(Place(e) < Place(u))
    BY <1>1, <1>2 DEF M
<1>7. ASSUME ~IsReopen(e) PROVE Standing(M) = IF IsClose(e) THEN Standing(L) \cup {e} ELSE Standing(L)
    <2>1. Reopens(M) = Reopens(L)
        BY <1>3, <1>7
    <2>2. Standing(M) = {c \in Closes(M) : \A u \in Reopens(L) : Place(c) < Place(u) =>
                                              \A d \in Reopened(L, u) : d.since # c.since}
        BY <1>3, <1>4, <2>1 DEF Standing
    <2> QED
        BY <1>3, <1>6, <2>2 DEF Standing
<1>8. ASSUME IsReopen(e)
      PROVE  Standing(M) = {c \in Standing(L) : \A d \in Closes(L) : d.id = e.undone => d.since # c.since}
    <2>1. Reopens(M) = Reopens(L) \cup {e}
        BY <1>3, <1>8
    <2>2. Closes(M) = Closes(L)
        <3>1. e.op = "undo"
            BY <1>8 DEF IsReopen
        <3> QED
            BY <1>3, <3>1 DEF IsClose, Closing
    <2>3. \A c \in Closes(L) :
            (\A u \in Reopens(M) : Place(c) < Place(u) => \A d \in Reopened(M, u) : d.since # c.since)
            <=> /\ \A u \in Reopens(L) : Place(c) < Place(u) => \A d \in Reopened(L, u) : d.since # c.since
                /\ \A d \in Reopened(M, e) : d.since # c.since
        BY <1>2, <1>3, <1>4, <2>1
    <2>4. \A c : (\A d \in Reopened(M, e) : d.since # c.since)
                    <=> (\A d \in Closes(L) : d.id = e.undone => d.since # c.since)
        BY <1>4
    <2> QED
        BY <2>2, <2>3, <2>4 DEF Standing
<1> QED
    BY <1>3, <1>5, <1>7, <1>8 DEF M

\* What is known of an interval: its first opening, and what followed that.
Opening(L, i) == First({e \in Openings(L) : e.since = i})
Sequel(L, i) == Edits(After(L, Opening(L, i)), "status")

\* An interval is opened first by some event of the log.
LEMMA OpeningIs ==
    ASSUME NEW L, Book(L), NEW i \in Spans(Openings(L))
    PROVE  LET f == Opening(L, i)
           IN  /\ f \in L /\ IsOpening(f) /\ f.since = i
               /\ \A x \in Openings(L) : x.since = i => Place(f) <= Place(x)
<1> DEFINE S == {e \in Openings(L) : e.since = i}
<1>1. Openings(L) = {e \in L : IsOpening(e)}
    BY PartsAre
<1>2. S \subseteq L /\ S # {}
    BY <1>1 DEF Spans
<1>3. Book(S)
    BY <1>2, PartOfBook
<1> HIDE DEF S
<1>4. First(S) \in S /\ \A x \in S : Place(First(S)) <= Place(x)
    BY <1>2, <1>3, BookEnds
<1> QED
    BY <1>1, <1>4 DEF S, Opening

\* The opening of an interval stays, and what followed it.
LEMMA SequelMore ==
    ASSUME NEW L, NEW e, Book(L \cup {e}), Later(e, L), NEW i \in Spans(Openings(L))
    PROVE  LET f == Opening(L, i)
           IN  /\ Opening(L \cup {e}, i) = f
               /\ After(L \cup {e}, f) = After(L, f) \cup {e}
               /\ Sequel(L \cup {e}, i) =
                        IF Touches(e, "status") THEN Sequel(L, i) \cup {e} ELSE Sequel(L, i)
               /\ i \in Spans(Openings(L \cup {e}))
<1> DEFINE M == L \cup {e}
           f == Opening(L, i)
           S == {x \in Openings(L) : x.since = i}
           T == {x \in Openings(M) : x.since = i}
<1>1. Book(L) /\ \A x \in M : Place(x) \in Int
    BY PartOfBook, BookNumbers
<1>2. \A x \in L : Place(x) < Place(e)
    BY DEF Later
<1>3. f \in L /\ IsOpening(f) /\ f.since = i /\ \A x \in Openings(L) : x.since = i => Place(f) <= Place(x)
    BY <1>1, OpeningIs
<1>4. Openings(M) = (IF IsOpening(e) THEN Openings(L) \cup {e} ELSE Openings(L)) /\ Openings(L) \subseteq L
    BY PartsMore
<1>5. f \in S
    BY <1>3, PartsAre
<1> HIDE DEF f, M
<1>6. S \subseteq T /\ T \subseteq S \cup {e} /\ S \subseteq L /\ T \subseteq M
    BY <1>4 DEF M
<1>7. Book(T)
    BY <1>6, PartOfBook DEF M
<1>8. \A x \in T : Place(f) <= Place(x)
    <2>1. Place(f) < Place(e) /\ Place(f) \in Int /\ Place(e) \in Int
        BY <1>1, <1>2, <1>3 DEF M
    <2>2. \A x \in S : Place(f) <= Place(x)
        BY <1>3
    <2> HIDE DEF S, T
    <2> QED
        BY <1>6, <2>1, <2>2
<1>9. First(T) = f
    <2>1. f \in T
        BY <1>5, <1>6
    <2> HIDE DEF T, S
    <2> QED
        BY <1>7, <1>8, <2>1, EndsWhich
<1>10. Opening(M, i) = f
    BY <1>9 DEF Opening
<1>11. After(M, f) = After(L, f) \cup {e}
    BY <1>2, <1>3 DEF After, M
<1>12. Sequel(M, i) = IF Touches(e, "status") THEN Sequel(L, i) \cup {e} ELSE Sequel(L, i)
    <2>1. Sequel(M, i) = Edits(After(M, f), "status") /\ Sequel(L, i) = Edits(After(L, f), "status")
        BY <1>10 DEF Sequel, f
    <2> QED
        BY <1>11, <2>1 DEF Edits
<1>13. i \in Spans(Openings(M))
    BY <1>4 DEF Spans
<1> QED
    BY <1>10, <1>11, <1>12, <1>13 DEF f, M

\* What an interval left open is worth stays as it is once it has a sequel.
LEMMA BankedMore ==
    ASSUME NEW L, NEW e, Book(L \cup {e}), Later(e, L), NEW i \in Spans(Openings(L)),
           Sequel(L, i) # {}, ~IsReset(e)
    PROVE  Banked(L \cup {e}, i) = Banked(L, i)
<1>0. /\ Opening(L \cup {e}, i) = Opening(L, i)
      /\ After(L \cup {e}, Opening(L, i)) = After(L, Opening(L, i)) \cup {e}
      /\ Sequel(L \cup {e}, i) =
                IF Touches(e, "status") THEN Sequel(L, i) \cup {e} ELSE Sequel(L, i)
      /\ i \in Spans(Openings(L \cup {e}))
    BY SequelMore
<1> DEFINE M == L \cup {e}
           f == Opening(L, i)
           old == After(L, f)
           new == After(M, f)
           from == IF Resets(L) # {} /\ When(Last(Resets(L))) > i THEN When(Last(Resets(L))) ELSE i
<1>1. /\ Opening(M, i) = f /\ new = old \cup {e}
      /\ Sequel(M, i) = IF Touches(e, "status") THEN Sequel(L, i) \cup {e} ELSE Sequel(L, i)
    BY <1>0
<1>2. Resets(M) = Resets(L)
    BY SinceMore
<1>3. Banked(L, i) = IF Sequel(L, i) = {} \/ First(Sequel(L, i)).op \in {"start", "undo"} THEN 0
                     ELSE Secs(from, First(old).at)
    BY Zenon DEF Banked, Sequel, Opening
<1>4. Banked(M, i) = IF Sequel(M, i) = {} \/ First(Sequel(M, i)).op \in {"start", "undo"} THEN 0
                     ELSE Secs(from, First(After(M, Opening(M, i))).at)
    BY <1>2, Zenon DEF Banked, Sequel, Opening
<1>5. Sequel(L, i) = Edits(old, "status")
    BY DEF Sequel
<1> HIDE DEF f, from
<1>6. old \subseteq L /\ Sequel(L, i) \subseteq old
    BY <1>5 DEF After, Edits
<1> HIDE DEF old, new, M
<1>7. First(old \cup {e}) = First(old)
    <2>1. Book(old \cup {e})
        <3>1. old \cup {e} \subseteq L \cup {e}
            BY <1>6
        <3> QED
            BY <3>1, PartOfBook
    <2>2. Later(e, old) /\ old # {}
        BY <1>6 DEF Later
    <2> QED
        BY <2>1, <2>2, EndsOfMore
<1>8. First(Sequel(L, i) \cup {e}) = First(Sequel(L, i))
    <2> DEFINE S == Sequel(L, i)
    <2>1. S \cup {e} \subseteq L \cup {e} /\ Later(e, S) /\ S # {}
        BY <1>6 DEF Later
    <2> HIDE DEF S
    <2>2. Book(S \cup {e})
        BY <2>1, PartOfBook
    <2>3. First(S \cup {e}) = First(S)
        BY <2>1, <2>2, EndsOfMore
    <2> QED
        BY <2>3 DEF S
<1>9. Sequel(M, i) # {} /\ First(Sequel(M, i)) = First(Sequel(L, i))
    BY <1>1, <1>8
<1>10. First(After(M, Opening(M, i))) = First(old)
    BY <1>1, <1>7 DEF new
<1> QED
    BY <1>3, <1>4, <1>9, <1>10 DEF M

-----------------------------------------------------------------------------
(* The parts of a count *)

Base(L) == IF Resets(L) = {} THEN 0 ELSE Last(Resets(L)).total
Counts(L) == Standing(L) \cap Since(L)
LeftSum(L, r) == SumFunction([i \in LeftOpen(L, r) |-> Banked(L, i)])

\* A count by its parts.
LEMMA TrackedIs ==
    ASSUME NEW L, NEW r
    PROVE  Tracked(L, r) = Base(L) + Intervals(Counts(L)) + Adjusted(L) - TakenBack(L) + LeftSum(L, r)
BY DEF Tracked, Base, Counts, LeftSum

\* Every undo of a close finds it, so none takes anything off on its word.
LEMMA NothingTakenBack ==
    ASSUME NEW L, Book(L), Rooted(L)
    PROVE  TakenBack(L) = 0
<1> DEFINE S == {u \in Reopens(L) \cap Since(L) : Reopened(L, u) = {}}
           f == [u \in S |-> u.secs]
<1>1. Reopens(L) = {e \in L : IsReopen(e)} /\ Closes(L) = {e \in L : IsClose(e)}
    BY PartsAre
<1>2. ASSUME NEW u \in S PROVE u.secs = 0
    <2>1. u \in L /\ IsReopen(u) /\ Reopened(L, u) = {}
        BY <1>1
    <2>2. PICK c \in L : c.op \in Closing /\ c.id = u.undone /\ c.since = u.since /\ c.at < u.at
        BY <2>1 DEF Rooted
    <2>3. Place(c) < Place(u)
        BY <2>1, <2>2, BookPlaces
    <2>4. ~IsClose(c)
        BY <1>1, <2>1, <2>2, <2>3 DEF Reopened
    <2>5. u.since = 0
        BY <2>2, <2>4 DEF IsClose
    <2>6. Entry(u)
        BY <2>1, BookNumbers
    <2> QED
        BY <2>1, <2>5, <2>6 DEF Entry
<1>3. S \subseteq L /\ IsFiniteSet(S)
    <2>1. S \subseteq L
        BY <1>1
    <2>2. IsFiniteSet(L)
        BY DEF Book, Logbook
    <2> QED
        BY <2>1, <2>2, FS_Subset
<1>4. IsFiniteSet(DOMAIN f) /\ \A u \in DOMAIN f : f[u] = 0
    BY <1>2, <1>3
<1>5. TakenBack(L) = SumFunction(f)
    BY DEF TakenBack
<1> HIDE DEF f
<1> QED
    BY <1>4, <1>5, SumOfZeros

-----------------------------------------------------------------------------
(* Corrections *)

Corrections(L) == {e \in Since(L) : IsAdjust(e) \/ IsRefund(e)}
\* What a refund takes back.
Refunded(L, u) == CHOOSE d \in L : IsAdjust(d) /\ d.id = u.undone
Amount(L, e) == IF IsAdjust(e) THEN e.delta ELSE -Refunded(L, e).delta

\* The correction an undo takes back is one event of the log.
LEMMA RefundIs ==
    ASSUME NEW L, Book(L), Rooted(L), NEW u \in L, IsRefund(u)
    PROVE  LET d == Refunded(L, u)
           IN  /\ d \in L /\ IsAdjust(d) /\ d.id = u.undone /\ ~IsRefund(d) /\ ~IsAdjust(u)
               /\ {x \in L : IsAdjust(x) /\ x.id = u.undone} = {d}
<1> DEFINE d == Refunded(L, u)
<1>1. \E x \in L : IsAdjust(x) /\ x.id = u.undone
    BY DEF Rooted
<1>2. d \in L /\ IsAdjust(d) /\ d.id = u.undone
    BY <1>1 DEF Refunded
<1> HIDE DEF d
<1>3. Entry(d) /\ Entry(u)
    BY <1>2, BookNumbers
<1>4. ~IsRefund(d) /\ ~IsAdjust(u)
    BY <1>2, <1>3 DEF Entry
<1>5. \A x \in L : x.id = u.undone => x = d
    BY <1>2, BookIds
<1>6. {x \in L : IsAdjust(x) /\ x.id = u.undone} = {d}
    BY <1>2, <1>5
<1> QED
    BY <1>2, <1>4, <1>6 DEF d

LEMMA AmountType ==
    ASSUME NEW L, Book(L), Rooted(L), NEW e \in Corrections(L)
    PROVE  /\ e \in L /\ Amount(L, e) \in Int
           /\ ~IsRefund(e) => Amount(L, e) \in Nat
           /\ IsRefund(e) => Amount(L, e) = -Refunded(L, e).delta /\ Refunded(L, e).delta \in Nat
<1>1. e \in L /\ (IsAdjust(e) \/ IsRefund(e)) /\ Entry(e)
    BY BookNumbers, SinceType DEF Corrections, Book
<1>2. CASE IsRefund(e)
    <2>1. Refunded(L, e) \in L /\ IsAdjust(Refunded(L, e)) /\ ~IsAdjust(e)
        BY <1>1, <1>2, RefundIs
    <2>2. Entry(Refunded(L, e))
        BY <2>1, BookNumbers
    <2>3. Refunded(L, e).delta \in Nat
        BY <2>1, <2>2 DEF Entry
    <2> QED
        BY <1>1, <1>2, <2>1, <2>3 DEF Amount
<1>3. CASE ~IsRefund(e)
    BY <1>1, <1>3 DEF Amount, Entry
<1> QED
    BY <1>2, <1>3

\* What a log adjusts is the sum of its corrections.
LEMMA AdjustedIs ==
    ASSUME NEW L, Book(L), Rooted(L)
    PROVE  /\ Adjusted(L) = SumFunction([e \in Corrections(L) |-> Amount(L, e)])
           /\ IsFiniteSet(Corrections(L)) /\ Corrections(L) \subseteq L
<1> DEFINE Back(e) == {d \in L : d.op = "adjust_tracked" /\ d.id = e.undone}
           Delta(e) == IF e.op = "adjust_tracked" THEN e.delta
                       ELSE -SumFunction([d \in Back(e) |-> d.delta])
           S == {e \in Since(L) : "adjust_tracked" \in {e.op, e.of}}
<1>1. Adjusted(L) = SumFunction([e \in S |-> Delta(e)])
    BY DEF Adjusted
<1>2. S = Corrections(L)
    BY DEF Corrections, IsAdjust, IsRefund
<1>3. ASSUME NEW e \in Corrections(L) PROVE Delta(e) = Amount(L, e)
    <2>0. e \in L /\ (IsAdjust(e) \/ IsRefund(e))
        BY AmountType DEF Corrections
    <2>1. CASE IsAdjust(e)
        BY <2>1 DEF Amount, IsAdjust
    <2>2. CASE ~IsAdjust(e)
        <3> DEFINE d == Refunded(L, e)
                   g == [x \in Back(e) |-> x.delta]
                   none == [x \in {} |-> x.delta]
        <3>1. IsRefund(e)
            BY <2>0, <2>2
        <3>2. d \in L /\ {x \in L : IsAdjust(x) /\ x.id = e.undone} = {d}
            BY <2>0, <3>1, RefundIs
        <3>3. Back(e) = {d}
            BY <3>2 DEF IsAdjust
        <3>4. d.delta \in Int
            BY <3>2, BookNumbers DEF CountedEvent
        <3> HIDE DEF d
        <3>5. /\ DOMAIN none = {} /\ DOMAIN g = DOMAIN none \cup {d} /\ d \notin DOMAIN none
              /\ (\A y \in DOMAIN none : g[y] = none[y]) /\ (\A y \in DOMAIN g : g[y] \in Int) /\ g[d] = d.delta
            BY <3>3, <3>4
        <3> HIDE DEF g, none
        <3>6. IsFiniteSet(DOMAIN none)
            BY <3>5, FS_EmptySet
        <3>7. SumFunction(g) = SumFunction(none) + g[d]
            BY <3>5, <3>6, SumWithOneMore
        <3>8. SumFunction(none) = 0
            BY <3>5, SumOfNone
        <3>9. SumFunction(g) = d.delta
            BY <3>4, <3>5, <3>7, <3>8
        <3>10. Delta(e) = -SumFunction(g)
            BY <2>2 DEF g, IsAdjust
        <3> QED
            BY <2>2, <3>9, <3>10 DEF Amount, d
    <2> QED
        BY <2>1, <2>2
<1>4. Corrections(L) \subseteq L
    BY AmountType
<1>5. IsFiniteSet(Corrections(L))
    BY <1>4, FS_Subset DEF Book, Logbook
<1> HIDE DEF S, Delta
<1>6. [e \in S |-> Delta(e)] = [e \in Corrections(L) |-> Amount(L, e)]
    BY <1>2, <1>3
<1> QED
    BY <1>1, <1>4, <1>5, <1>6

\* Corrections undone once each leave no less than nothing.
LEMMA AdjustedNatural ==
    ASSUME NEW L, Book(L), Rooted(L), Settled(L)
    PROVE  Adjusted(L) \in Nat
<1> DEFINE f == [e \in Corrections(L) |-> Amount(L, e)]
           U == {u \in Corrections(L) : IsRefund(u)}
           h == [u \in U |-> Refunded(L, u)]
<1>1. Adjusted(L) = SumFunction(f) /\ IsFiniteSet(DOMAIN f) /\ Corrections(L) \subseteq L
    BY AdjustedIs
<1>2. \A e \in DOMAIN f : f[e] \in Int
    BY AmountType
<1>3. U \in SUBSET DOMAIN f
    OBVIOUS
<1>4. ASSUME NEW e \in DOMAIN f \ U PROVE f[e] >= 0
    <2>1. e \in Corrections(L) /\ ~IsRefund(e)
        OBVIOUS
    <2>2. Amount(L, e) \in Nat
        BY <2>1, AmountType
    <2> QED
        BY <2>1, <2>2
<1>5. ASSUME NEW u \in U PROVE h[u] \in DOMAIN f \ U /\ f[u] + f[h[u]] = 0
    <2> DEFINE d == Refunded(L, u)
    <2>1. u \in Corrections(L) /\ u \in L /\ IsRefund(u)
        BY <1>1
    <2>2. d \in L /\ IsAdjust(d) /\ ~IsRefund(d)
        BY <2>1, RefundIs
    <2>3. Resets(L) = {}
        <3>1. \A e \in L : ~IsReset(e)
            BY <2>1 DEF Settled
        <3> QED
            BY <3>1, PartsAre
    <2>4. d \in Corrections(L)
        BY <2>2, <2>3 DEF Corrections, Since
    <2>5. Amount(L, u) = -d.delta /\ d.delta \in Nat
        BY <2>1, AmountType
    <2>6. Amount(L, d) = d.delta
        BY <2>2 DEF Amount
    <2> HIDE DEF d
    <2>7. h[u] = d
        BY DEF d
    <2> QED
        BY <2>1, <2>2, <2>4, <2>5, <2>6, <2>7
<1>6. ASSUME NEW u \in U, NEW v \in U, h[u] = h[v] PROVE u = v
    <2>1. u \in L /\ v \in L /\ IsRefund(u) /\ IsRefund(v) /\ Refunded(L, u) = Refunded(L, v)
        BY <1>1, <1>6
    <2>2. Refunded(L, u).id = u.undone /\ Refunded(L, v).id = v.undone
        BY <2>1, RefundIs
    <2> QED
        BY <2>1, <2>2 DEF Settled
<1> HIDE DEF f, h, U
<1>7. /\ \A e \in DOMAIN f \ U : f[e] >= 0
      /\ \A u \in U : h[u] \in DOMAIN f \ U /\ f[u] + f[h[u]] = 0
      /\ \A u, v \in U : h[u] = h[v] => u = v
    BY <1>4, <1>5, <1>6
<1>8. SumFunction(f) \in Nat
    BY <1>1, <1>2, <1>3, <1>7, SumOfPairs
<1> QED
    BY <1>1, <1>8

-----------------------------------------------------------------------------
(* Corrections *)

\* What a correction amounts to stays as it is when the log grows.
LEMMA AmountStays ==
    ASSUME NEW L, NEW e, Book(L \cup {e}), Rooted(L), Rooted(L \cup {e}), NEW x \in Corrections(L)
    PROVE  Amount(L \cup {e}, x) = Amount(L, x)
<1> DEFINE M == L \cup {e}
<1>1. Book(L) /\ x \in M
    <2>1. Book(L)
        BY PartOfBook
    <2> QED
        BY <2>1, AmountType
<1>2. x \in L /\ (IsAdjust(x) \/ IsRefund(x))
    BY <1>1, AmountType DEF Corrections
<1>3. CASE IsAdjust(x)
    BY <1>3 DEF Amount
<1>4. CASE ~IsAdjust(x)
    <2>1. IsRefund(x)
        BY <1>2, <1>4
    <2>2. Refunded(L, x) \in L /\ Refunded(L, x).id = x.undone
        BY <1>1, <1>2, <2>1, RefundIs
    <2>3. Refunded(M, x) \in M /\ Refunded(M, x).id = x.undone
        BY <1>1, <2>1, RefundIs
    <2> DEFINE a == Refunded(L, x)
               b == Refunded(M, x)
    <2>4. a \in M /\ b \in M /\ a.id = b.id
        BY <2>2, <2>3
    <2> HIDE DEF a, b
    <2>5. a = b
        BY <2>4, BookIds
    <2> QED
        BY <1>4, <2>5 DEF Amount, a, b
<1> QED
    BY <1>3, <1>4

\* No event but a correction, its undo and a reset moves what corrections come to.
LEMMA AdjustedStays ==
    ASSUME NEW L, NEW e, Book(L \cup {e}), Later(e, L), Rooted(L), Rooted(L \cup {e}),
           ~IsReset(e), ~IsAdjust(e), ~IsRefund(e)
    PROVE  Adjusted(L \cup {e}) = Adjusted(L)
<1> DEFINE M == L \cup {e}
<1>1. Book(L)
    BY PartOfBook
<1>2. Since(M) = Since(L) \cup {e}
    BY SinceMore
<1>3. Corrections(M) = Corrections(L)
    BY <1>2 DEF Corrections
<1>4. Adjusted(M) = SumFunction([x \in Corrections(M) |-> Amount(M, x)])
    BY AdjustedIs
<1>5. Adjusted(L) = SumFunction([x \in Corrections(L) |-> Amount(L, x)])
    BY <1>1, AdjustedIs
<1>6. [x \in Corrections(M) |-> Amount(M, x)] = [x \in Corrections(L) |-> Amount(L, x)]
    BY <1>3, AmountStays
<1> QED
    BY <1>4, <1>5, <1>6

\* A correction adds what it is made with, its undo takes that off again.
LEMMA AdjustedMore ==
    ASSUME NEW L, NEW e, Book(L \cup {e}), Later(e, L), Rooted(L), Rooted(L \cup {e}),
           ~IsReset(e), IsAdjust(e) \/ IsRefund(e)
    PROVE  Adjusted(L \cup {e}) = Adjusted(L) + Amount(L \cup {e}, e) /\ Amount(L \cup {e}, e) \in Int
<1> DEFINE M == L \cup {e}
           f == [x \in Corrections(M) |-> Amount(M, x)]
           g == [x \in Corrections(L) |-> Amount(L, x)]
<1>1. Book(L) /\ e \notin L
    BY PartOfBook, EndsOfMore
<1>2. Since(M) = Since(L) \cup {e}
    BY SinceMore
<1>3. Corrections(M) = Corrections(L) \cup {e}
    BY <1>2 DEF Corrections
<1>4. Adjusted(M) = SumFunction(f) /\ IsFiniteSet(Corrections(M))
    BY AdjustedIs
<1>5. Adjusted(L) = SumFunction(g) /\ IsFiniteSet(Corrections(L)) /\ Corrections(L) \subseteq L
    BY <1>1, AdjustedIs
<1>6. \A x \in Corrections(M) : Amount(M, x) \in Int
    BY AmountType
<1>7. \A x \in Corrections(L) : Amount(M, x) = Amount(L, x)
    BY AmountStays
<1>8. /\ IsFiniteSet(DOMAIN g) /\ e \notin DOMAIN g /\ DOMAIN f = DOMAIN g \cup {e}
      /\ (\A y \in DOMAIN g : f[y] = g[y]) /\ (\A y \in DOMAIN f : f[y] \in Int) /\ f[e] = Amount(M, e)
    BY <1>1, <1>3, <1>5, <1>6, <1>7
<1> HIDE DEF f, g
<1>9. SumFunction(f) = SumFunction(g) + f[e]
    BY <1>8, SumWithOneMore
<1> QED
    BY <1>3, <1>4, <1>5, <1>6, <1>8, <1>9

\* A reset leaves none.
LEMMA AdjustedReset ==
    ASSUME NEW L, Book(L), Rooted(L), Since(L) = {}
    PROVE  Adjusted(L) = 0
<1> DEFINE f == [x \in Corrections(L) |-> Amount(L, x)]
<1>1. Adjusted(L) = SumFunction(f)
    BY AdjustedIs
<1>2. DOMAIN f = {}
    BY DEF Corrections
<1> HIDE DEF f
<1> QED
    BY <1>1, <1>2, SumOfNone

-----------------------------------------------------------------------------
(* Intervals *)

\* The longest close of an interval.
Longest(S, i) == Max({Length(c) : c \in {c \in S : c.since = i}})

LEMMA LengthNatural ==
    ASSUME NEW L, Book(L), NEW c \in L, IsClose(c)
    PROVE  /\ Length(c) \in Nat /\ Length(c) = Secs(c.since, c.at)
           /\ c.since \in Int /\ c.at \in Int
<1>1. Entry(c) /\ c.since \in Int /\ c.at \in Nat
    BY BookNumbers
<1>2. Secs(c.since, c.at) \in Nat
    <2>1. c.since \div SECOND \in Int /\ c.at \div SECOND \in Int
        BY <1>1, LogAssumption
    <2> QED
        BY <2>1 DEF Secs
<1>3. Length(c) = Secs(c.since, c.at)
    BY <1>1 DEF Length, Entry
<1> QED
    BY <1>1, <1>2, <1>3

\* An interval's longest close is one of its closes.
LEMMA LongestIs ==
    ASSUME NEW L, Book(L), NEW S, S \subseteq Closes(L), NEW i \in Spans(S)
    PROVE  /\ \E c \in S : c.since = i /\ Longest(S, i) = Length(c)
           /\ \A c \in S : c.since = i => Length(c) <= Longest(S, i)
           /\ Longest(S, i) \in Nat
<1> DEFINE C == {c \in S : c.since = i}
           N == {Length(c) : c \in C}
           g == [c \in C |-> Length(c)]
<1>1. Closes(L) = {e \in L : IsClose(e)}
    BY PartsAre
<1>2. C \subseteq S /\ C # {} /\ C \subseteq L /\ \A c \in C : IsClose(c)
    BY <1>1 DEF Spans
<1>3. \A c \in C : Length(c) \in Nat
    BY <1>2, LengthNatural
<1>4. IsFiniteSet(DOMAIN g) /\ N = {g[c] : c \in DOMAIN g}
    BY <1>2, FS_Subset DEF Book, Logbook
<1>5. IsFiniteSet(N)
    <2> HIDE DEF g, N
    <2> QED
        BY <1>4, ValuesFinite
<1>6. N \subseteq Int /\ N # {} /\ N \subseteq Nat
    BY <1>2, <1>3
<1>7. /\ \A x \in N : \E c \in C : x = Length(c)
      /\ \A c \in C : Length(c) \in N
    OBVIOUS
<1>8. Longest(S, i) = Max(N)
    BY DEF Longest
<1> HIDE DEF N
<1>9. Max(N) \in N /\ \A x \in N : x <= Max(N)
    BY <1>5, <1>6, IntMax
<1> QED
    BY <1>6, <1>7, <1>8, <1>9

\* What intervals count is a sum over finitely many of them.
LEMMA IntervalsAre ==
    ASSUME NEW L, Book(L), NEW S, S \subseteq Closes(L)
    PROVE  /\ Intervals(S) = SumFunction([i \in Spans(S) |-> Longest(S, i)])
           /\ IsFiniteSet(Spans(S)) /\ \A i \in Spans(S) : Longest(S, i) \in Nat
           /\ Intervals(S) \in Nat
<1>1. Intervals(S) = SumFunction([i \in Spans(S) |-> Longest(S, i)])
    BY DEF Intervals, Longest, Spans
<1>2. IsFiniteSet(S)
    <2>1. Closes(L) \subseteq L /\ IsFiniteSet(L)
        BY DEF Closes, Book, Logbook
    <2> QED
        BY <2>1, FS_Subset
<1>3. IsFiniteSet(Spans(S))
    BY <1>2, InstantsFinite DEF Spans
<1>4. \A i \in Spans(S) : Longest(S, i) \in Nat
    BY LongestIs
<1> DEFINE f == [i \in Spans(S) |-> Longest(S, i)]
<1>5. IsFiniteSet(DOMAIN f) /\ \A i \in DOMAIN f : f[i] \in Nat
    BY <1>3, <1>4
<1> HIDE DEF f
<1>6. SumFunction(f) \in Nat
    BY <1>5, SumOfNaturals
<1> QED
    BY <1>1, <1>3, <1>4, <1>6 DEF f

\* One close more, the only one of its interval.
LEMMA IntervalMore ==
    ASSUME NEW L, Book(L), NEW S, NEW c, S \cup {c} \subseteq Closes(L), c.since \notin Spans(S)
    PROVE  Intervals(S \cup {c}) = Intervals(S) + Length(c)
<1> DEFINE T == S \cup {c}
           f == [i \in Spans(T) |-> Longest(T, i)]
           g == [i \in Spans(S) |-> Longest(S, i)]
           x == c.since
<1>1. S \subseteq Closes(L) /\ T \subseteq Closes(L) /\ c \in T
    OBVIOUS
<1>2. Intervals(S) = SumFunction(g) /\ IsFiniteSet(Spans(S))
    BY <1>1, IntervalsAre
<1>3. Intervals(T) = SumFunction(f) /\ \A i \in Spans(T) : Longest(T, i) \in Nat
    BY <1>1, IntervalsAre
<1>4. Spans(T) = Spans(S) \cup {x} /\ x \notin Spans(S)
    BY DEF Spans
<1>5. ASSUME NEW i \in Spans(S) PROVE Longest(T, i) = Longest(S, i)
    <2>1. {d \in T : d.since = i} = {d \in S : d.since = i}
        BY <1>4, <1>5
    <2> QED
        BY <2>1 DEF Longest
<1>6. Longest(T, x) = Length(c)
    <2>1. x \in Spans(T)
        BY <1>4
    <2>2. PICK d \in T : d.since = x /\ Longest(T, x) = Length(d)
        BY <1>1, <2>1, LongestIs
    <2>3. d = c
        BY <1>4, <2>2 DEF Spans
    <2> QED
        BY <2>2, <2>3
<1>7. /\ IsFiniteSet(DOMAIN g) /\ x \notin DOMAIN g /\ DOMAIN f = DOMAIN g \cup {x}
      /\ (\A y \in DOMAIN g : f[y] = g[y]) /\ (\A y \in DOMAIN f : f[y] \in Int) /\ f[x] = Length(c)
    <2>1. DOMAIN g = Spans(S) /\ DOMAIN f = Spans(T)
        OBVIOUS
    <2>2. \A y \in Spans(S) : f[y] = g[y]
        BY <1>4, <1>5
    <2>3. \A y \in Spans(T) : f[y] \in Int
        BY <1>3
    <2>4. f[x] = Length(c)
        BY <1>4, <1>6
    <2> HIDE DEF f, g, x, T
    <2> QED
        BY <1>2, <1>4, <2>1, <2>2, <2>3, <2>4
<1> HIDE DEF f, g, x
<1>8. SumFunction(f) = SumFunction(g) + f[x]
    BY <1>7, SumWithOneMore
<1> QED
    BY <1>2, <1>3, <1>7, <1>8

-----------------------------------------------------------------------------
(* Seconds *)

LEMMA DivOrder ==
    ASSUME NEW a \in Nat, NEW b \in Nat, a <= b, NEW n \in Nat \ {0}
    PROVE  a \div n <= b \div n /\ a \div n \in Nat /\ b \div n \in Nat
<1> DEFINE q == a \div n
           p == b \div n
<1>1. q \in Nat /\ p \in Nat /\ a % n \in Nat /\ b % n \in Nat /\ b % n < n
    OBVIOUS
<1>2. a = n * q + (a % n) /\ b = n * p + (b % n)
    OBVIOUS
<1> HIDE DEF q, p
<1>3. ASSUME p < q PROVE FALSE
    <2>1. n * q >= n * p + n /\ n * p \in Nat /\ n * q \in Nat
        BY <1>1, <1>3, OneMore
    <2> QED
        BY <1>1, <1>2, <2>1
<1>4. q <= p
    BY <1>1, <1>3
<1> QED
    BY <1>1, <1>4 DEF q, p

\* No time passes backwards, and more the longer it takes.
LEMMA SecsOrder ==
    ASSUME NEW from \in Nat, NEW to \in Nat
    PROVE  /\ Secs(from, to) \in Nat /\ (to <= from => Secs(from, to) = 0)
           /\ \A past \in Nat : from <= past => Secs(past, to) <= Secs(from, to)
           /\ \A upto \in Nat : to <= upto => Secs(from, to) <= Secs(from, upto)
<1>1. SECOND \in Nat \ {0}
    BY LogAssumption
<1>2. \A x \in Nat : x \div SECOND \in Nat
    BY <1>1, DivOrder
<1>3. Secs(from, to) \in Nat
    BY <1>2 DEF Secs
<1>4. to <= from => Secs(from, to) = 0
    <2>1. to <= from => to \div SECOND <= from \div SECOND
        BY <1>1, DivOrder
    <2> QED
        BY <1>2, <2>1 DEF Secs
<1>5. ASSUME NEW past \in Nat, from <= past PROVE Secs(past, to) <= Secs(from, to)
    <2>1. from \div SECOND <= past \div SECOND
        BY <1>1, <1>5, DivOrder
    <2> QED
        BY <1>2, <2>1 DEF Secs
<1>6. ASSUME NEW upto \in Nat, to <= upto PROVE Secs(from, to) <= Secs(from, upto)
    <2>1. to \div SECOND <= upto \div SECOND
        BY <1>1, <1>6, DivOrder
    <2> QED
        BY <1>2, <2>1 DEF Secs
<1> QED
    BY <1>3, <1>4, <1>5, <1>6

-----------------------------------------------------------------------------
(* What runs, and what was left open *)

\* An opened interval is a start's instant.
LEMMA OpenedIs ==
    ASSUME NEW L, Book(L), Rooted(L), NEW e \in L, IsOpening(e) \/ IsClose(e)
    PROVE  /\ e.since \in Nat /\ e.since # 0 /\ e.since <= e.at
           /\ \E o \in L : o.op = "start" /\ o.at = e.since
<1>1. PICK o \in L : o.op = "start" /\ o.at = e.since
    BY DEF Rooted
<1>2. o.at \in Nat /\ e.at \in Nat
    BY BookNumbers
<1>3. e.since # 0
    BY DEF IsOpening, IsClose
<1>4. e.since <= e.at
    <2>1. CASE IsClose(e)
        BY <1>1, <1>2, <2>1, BookNumbers
    <2>2. CASE e.op = "start"
        <3>1. Entry(e)
            BY BookNumbers
        <3> QED
            BY <1>2, <2>2, <3>1 DEF Entry
    <2>3. CASE IsReopen(e) /\ ~IsClose(e)
        <3>1. PICK c \in L : c.op \in Closing /\ c.id = e.undone /\ c.since = e.since /\ c.at < e.at
            BY <2>3 DEF Rooted
        <3>2. IsClose(c)
            BY <1>3, <3>1 DEF IsClose
        <3>3. c.since < c.at /\ c.at \in Nat
            BY <3>1, <3>2, BookNumbers
        <3> QED
            BY <1>1, <1>2, <3>1, <3>3
    <2> QED
        BY <2>1, <2>2, <2>3 DEF IsOpening
<1> QED
    BY <1>1, <1>2, <1>3, <1>4

\* Every event that opens, ends or restores an interval writes the status.
LEMMA StatusEvents ==
    ASSUME NEW e
    PROVE  /\ IsOpening(e) => Touches(e, "status") /\ Opened(e) = e.since
           /\ IsClose(e) => Touches(e, "status") /\ Opened(e) = 0
           /\ IsReopen(e) => Touches(e, "status") /\ Opened(e) = e.since
           /\ Opened(e) # 0 => e.op = "start" \/ IsReopen(e)
BY DEF IsOpening, IsClose, IsReopen, Touches, Opened, Closing

\* The last word on the status.
LEMMA LastStatus ==
    ASSUME NEW L, Book(L), Edits(L, "status") # {}
    PROVE  LET l == Last(Edits(L, "status"))
           IN  /\ l \in L /\ Touches(l, "status")
               /\ \A x \in L : Touches(x, "status") => Place(x) <= Place(l)
<1> DEFINE S == Edits(L, "status")
<1>1. S \subseteq L /\ S = {x \in L : Touches(x, "status")}
    BY DEF Edits
<1>2. Book(S)
    BY <1>1, PartOfBook
<1> HIDE DEF S
<1>3. Last(S) \in S /\ \A x \in S : Place(x) <= Place(Last(S))
    BY <1>2, BookEnds DEF S
<1> QED
    BY <1>1, <1>3 DEF S

\* What runs was opened, by the last word on the status.
LEMMA RunsIs ==
    ASSUME NEW L, Book(L), Rooted(L), Edits(L, "status") # {}, Runs(L) # 0
    PROVE  LET l == Last(Edits(L, "status"))
           IN  l \in L /\ IsOpening(l) /\ l.since = Runs(L)
<1> DEFINE l == Last(Edits(L, "status"))
<1>1. l \in L
    BY LastStatus
<1>2. Opened(l) # 0 /\ Runs(L) = Opened(l)
    BY DEF Runs
<1> HIDE DEF l
<1>3. (l.op = "start" \/ IsReopen(l)) /\ Opened(l) = l.since
    BY <1>2, StatusEvents DEF Opened
<1> QED
    BY <1>1, <1>2, <1>3 DEF l, IsOpening

\* What runs is no interval that a close ended and no undo took back.
LEMMA RunsUnclosed ==
    ASSUME NEW L, Book(L), Rooted(L), Edits(L, "status") # {}, Runs(L) # 0
    PROVE  Runs(L) \notin Spans(Standing(L))
<1> DEFINE l == Last(Edits(L, "status"))
           i == Runs(L)
<1>1. l \in L /\ IsOpening(l) /\ l.since = i
    BY RunsIs
<1>2. \A x \in L : Touches(x, "status") => Place(x) <= Place(l)
    BY LastStatus
<1>3. Closes(L) = {e \in L : IsClose(e)} /\ Reopens(L) = {e \in L : IsReopen(e)}
    BY PartsAre
<1> HIDE DEF l, i
<1>4. SUFFICES ASSUME NEW c \in Standing(L), c.since = i PROVE FALSE
    BY DEF Spans, i
<1>5. c \in L /\ IsClose(c) /\ c \in Closes(L)
    BY <1>3 DEF Standing
<1>6. c.since \in Int /\ c.at \in Nat /\ c.since < c.at /\ l.at \in Nat /\ Place(c) \in Int /\ Place(l) \in Int
    BY <1>1, <1>5, BookNumbers
<1>7. Place(c) <= Place(l)
    BY <1>2, <1>5, StatusEvents
<1>8. CASE l.op = "start"
    <2>1. l.since = l.at
        BY <1>1, <1>8, BookNumbers DEF Entry
    <2>2. l.at < c.at
        BY <1>1, <1>4, <1>6, <2>1
    <2>3. Place(l) < Place(c)
        BY <1>1, <1>5, <2>2, BookPlaces
    <2> QED
        BY <1>6, <1>7, <2>3
<1>9. CASE IsReopen(l)
    <2>1. PICK d \in L : d.op \in Closing /\ d.id = l.undone /\ d.since = l.since /\ d.at < l.at
        BY <1>1, <1>9 DEF Rooted
    <2>2. d \in Closes(L) /\ Place(d) < Place(l)
        <3>1. IsClose(d)
            BY <1>1, <2>1 DEF IsClose, IsOpening
        <3> QED
            BY <1>1, <1>3, <2>1, <3>1, BookPlaces
    <2>3. d \in Reopened(L, l) /\ d.since = c.since
        BY <1>1, <1>4, <2>1, <2>2 DEF Reopened
    <2>4. c # l
        BY <1>5, <1>9 DEF IsClose, IsReopen, Closing
    <2>5. Place(c) # Place(l)
        BY <1>1, <1>5, <2>4, BookPlaces
    <2>6. Place(c) < Place(l)
        BY <1>6, <1>7, <2>5
    <2> QED
        BY <1>1, <1>3, <1>9, <2>3, <2>6 DEF Standing
<1> QED
    BY <1>1, <1>8, <1>9 DEF IsOpening

\* What a log says was left open was followed by another word on the status.
Follows(L, r) == \A i \in LeftOpen(L, r) : Sequel(L, i) # {}

LEMMA LeftOpenIs ==
    ASSUME NEW L, NEW r
    PROVE  LeftOpen(L, r) = Spans(Openings(L)) \ (Spans(Standing(L)) \cup {r})
BY DEF LeftOpen, Spans

\* An interval left open has been followed by a status event.
LEMMA RunsFollows ==
    ASSUME NEW L, Book(L), Rooted(L)
    PROVE  Follows(L, Runs(L))
<1> SUFFICES ASSUME NEW i \in LeftOpen(L, Runs(L)), Sequel(L, i) = {} PROVE FALSE
    BY DEF Follows
<1> DEFINE f == Opening(L, i)
           l == Last(Edits(L, "status"))
<1>1. i \in Spans(Openings(L)) /\ i # Runs(L)
    BY LeftOpenIs
<1>2. f \in L /\ IsOpening(f) /\ f.since = i
    BY <1>1, OpeningIs
<1> HIDE DEF f
<1>3. Touches(f, "status") /\ Opened(f) = i
    BY <1>2, StatusEvents
<1>4. l \in L /\ \A x \in L : Touches(x, "status") => Place(x) <= Place(l)
    <2>1. Edits(L, "status") # {}
        BY <1>2, <1>3 DEF Edits
    <2> QED
        BY <2>1, LastStatus
<1>5. l = f
    <2>0. Touches(l, "status")
        <3>1. Edits(L, "status") # {}
            BY <1>2, <1>3 DEF Edits
        <3> QED
            BY <3>1, LastStatus
    <2> HIDE DEF l
    <2>1. l \notin After(L, f)
        BY <2>0 DEF Sequel, Edits, f
    <2>2. ~(Place(l) > Place(f)) /\ Place(f) <= Place(l)
        BY <1>2, <1>3, <1>4, <2>1 DEF After
    <2>3. Place(f) \in Int /\ Place(l) \in Int
        BY <1>2, <1>4, BookNumbers
    <2>4. Place(f) = Place(l)
        BY <2>2, <2>3
    <2> QED
        BY <1>2, <1>4, <2>4, BookPlaces
<1> QED
    BY <1>1, <1>3, <1>5 DEF Runs

\* What an interval left open is worth.
LEMMA BankedIs ==
    ASSUME NEW L, Book(L), Rooted(L), NEW i \in Spans(Openings(L))
    PROVE  /\ i \in Nat /\ Banked(L, i) \in Nat
           /\ \E o \in L : o.op = "start" /\ o.at = i
           /\ \A top \in Nat : (\A x \in L : x.at <= top) => Banked(L, i) <= Secs(i, top)
           /\ Resets(L) # {} /\ (\A x \in L : x.at <= Last(Resets(L)).at) => Banked(L, i) = 0
<1> DEFINE after == After(L, Opening(L, i))
           next == Sequel(L, i)
           r == Last(Resets(L))
           from == IF Resets(L) # {} /\ When(r) > i THEN When(r) ELSE i
<1>0. PICK e \in L : IsOpening(e) /\ e.since = i
    BY PartsAre DEF Spans
<1>1. i \in Nat /\ \E o \in L : o.op = "start" /\ o.at = i
    BY <1>0, OpenedIs
<1>2. Resets(L) # {} => r \in L /\ When(r) = r.at /\ r.at \in Nat
    BY SinceType, BookNumbers DEF Book
<1>3. Banked(L, i) = IF next = {} \/ First(next).op \in {"start", "undo"} THEN 0
                     ELSE Secs(from, First(after).at)
    BY Zenon DEF Banked, Sequel, Opening
<1>4. next # {} => First(after) \in L
    <2>1. next \subseteq after /\ after \subseteq L
        BY DEF Sequel, Edits, After
    <2> HIDE DEF after, next
    <2>2. Book(after)
        BY <2>1, PartOfBook
    <2>3. after # {} => First(after) \in after
        BY <2>2, BookEnds
    <2> QED
        BY <2>1, <2>3
<1> DEFINE fore == First(after)
<1>5. next # {} => fore.at \in Nat
    BY <1>4, BookNumbers
<1>6. from \in Nat /\ i <= from
    BY <1>1, <1>2
<1>7. Resets(L) # {} /\ r.at >= i => from = r.at
    BY <1>1, <1>2
<1> HIDE DEF after, next, from, fore, r
<1>8. Banked(L, i) = 0 \/ (next # {} /\ Banked(L, i) = Secs(from, fore.at))
    BY <1>3 DEF fore
<1>9. Banked(L, i) \in Nat
    BY <1>5, <1>6, <1>8, SecsOrder
<1>10. ASSUME NEW top \in Nat, \A x \in L : x.at <= top PROVE Banked(L, i) <= Secs(i, top)
    <2>1. Secs(i, top) \in Nat
        BY <1>1, SecsOrder
    <2>2. CASE next # {} /\ Banked(L, i) = Secs(from, fore.at)
        <3>1. fore.at <= top /\ fore.at \in Nat
            BY <1>4, <1>5, <1>10, <2>2 DEF fore
        <3>2. Secs(from, fore.at) <= Secs(i, fore.at)
            BY <1>1, <1>6, <3>1, SecsOrder
        <3>3. Secs(i, fore.at) <= Secs(i, top)
            BY <1>1, <3>1, SecsOrder
        <3>4. Secs(from, fore.at) \in Nat /\ Secs(i, fore.at) \in Nat
            BY <1>1, <1>6, <3>1, SecsOrder
        <3> QED
            BY <2>1, <2>2, <3>2, <3>3, <3>4
    <2> QED
        BY <1>8, <2>1, <2>2
<1>11. ASSUME Resets(L) # {}, \A x \in L : x.at <= r.at PROVE Banked(L, i) = 0
    <2>1. i <= r.at
        BY <1>1, <1>11
    <2>2. from = r.at /\ from \in Nat
        BY <1>1, <1>2, <1>6, <1>7, <1>11, <2>1
    <2>3. CASE next # {} /\ Banked(L, i) = Secs(from, fore.at)
        <3>1. fore.at <= from /\ fore.at \in Nat
            BY <1>4, <1>5, <1>11, <2>2, <2>3 DEF fore
        <3> QED
            BY <2>2, <2>3, <3>1, SecsOrder
    <2> QED
        BY <1>8, <2>3
<1> QED
    BY <1>1, <1>9, <1>10, <1>11 DEF r

\* What the intervals left open are worth is a sum over finitely many of them.
LEMMA LeftIs ==
    ASSUME NEW L, Book(L), Rooted(L), NEW r
    PROVE  /\ LeftOpen(L, r) \subseteq Spans(Openings(L)) /\ IsFiniteSet(LeftOpen(L, r))
           /\ LeftSum(L, r) \in Nat
<1> DEFINE f == [i \in LeftOpen(L, r) |-> Banked(L, i)]
<1>1. LeftOpen(L, r) \subseteq Spans(Openings(L))
    BY LeftOpenIs
<1>2. IsFiniteSet(Openings(L))
    BY FS_Subset DEF Openings, Book, Logbook
<1>3. IsFiniteSet(LeftOpen(L, r))
    <2>1. IsFiniteSet(Spans(Openings(L)))
        BY <1>2, InstantsFinite DEF Spans
    <2> QED
        BY <1>1, <2>1, FS_Subset
<1>4. IsFiniteSet(DOMAIN f) /\ \A i \in DOMAIN f : f[i] \in Nat
    BY <1>1, <1>3, BankedIs
<1>5. LeftSum(L, r) = SumFunction(f)
    BY DEF LeftSum
<1> HIDE DEF f
<1> QED
    BY <1>1, <1>3, <1>4, <1>5, SumOfNaturals

\* While the same intervals are left open, they are worth the same.
LEMMA LeftStays ==
    ASSUME NEW L, NEW e, Book(L \cup {e}), Later(e, L), ~IsReset(e), NEW r, NEW q,
           LeftOpen(L \cup {e}, q) = LeftOpen(L, r), Follows(L, r)
    PROVE  LeftSum(L \cup {e}, q) = LeftSum(L, r)
<1>1. ASSUME NEW i \in LeftOpen(L, r) PROVE Banked(L \cup {e}, i) = Banked(L, i)
    <2>1. i \in Spans(Openings(L)) /\ Sequel(L, i) # {}
        BY LeftOpenIs DEF Follows
    <2> QED
        BY <2>1, BankedMore
<1>2. [i \in LeftOpen(L \cup {e}, q) |-> Banked(L \cup {e}, i)] = [i \in LeftOpen(L, r) |-> Banked(L, i)]
    BY <1>1
<1> QED
    BY <1>2 DEF LeftSum

\* A total that was set counts all that came before it.
LEMMA LeftReset ==
    ASSUME NEW L, NEW e, Book(L \cup {e}), Later(e, L), Rooted(L \cup {e}), IsReset(e), NEW r
    PROVE  LeftSum(L \cup {e}, r) = 0
<1> DEFINE M == L \cup {e}
           f == [i \in LeftOpen(M, r) |-> Banked(M, i)]
<1>1. Resets(M) # {} /\ Last(Resets(M)) = e
    BY SinceMore
<1>2. \A x \in M : x.at <= e.at
    <2>1. \A x \in M : x.at \in Nat /\ Place(x) \in Int
        BY BookNumbers
    <2>2. ASSUME NEW x \in L PROVE x.at <= e.at
        <3>1. Place(x) < Place(e)
            BY DEF Later
        <3>2. ~(e.at < x.at)
            <4>1. e.at < x.at => Place(e) < Place(x)
                BY BookPlaces
            <4> QED
                BY <2>1, <3>1, <4>1
        <3> QED
            BY <2>1, <3>2
    <2> QED
        BY <2>1, <2>2
<1>3. LeftOpen(M, r) \subseteq Spans(Openings(M)) /\ IsFiniteSet(LeftOpen(M, r))
    BY LeftIs
<1>4. \A i \in LeftOpen(M, r) : Banked(M, i) = 0
    BY <1>1, <1>2, <1>3, BankedIs
<1>5. IsFiniteSet(DOMAIN f) /\ \A i \in DOMAIN f : f[i] = 0
    BY <1>3, <1>4
<1>6. LeftSum(M, r) = SumFunction(f)
    BY DEF LeftSum
<1> HIDE DEF f
<1> QED
    BY <1>5, <1>6, SumOfZeros

\* The parts are numbers, and none of them negative.
LEMMA PartsNatural ==
    ASSUME NEW L, Book(L), Rooted(L), NEW r
    PROVE  /\ Base(L) \in Nat /\ Intervals(Counts(L)) \in Nat /\ LeftSum(L, r) \in Nat
           /\ Adjusted(L) \in Int /\ TakenBack(L) = 0
           /\ Tracked(L, r) = Base(L) + Intervals(Counts(L)) + Adjusted(L) + LeftSum(L, r)
           /\ Tracked(L, r) \in Int
           /\ Settled(L) => Adjusted(L) \in Nat /\ Tracked(L, r) \in Nat
<1>1. Base(L) \in Nat
    <2>1. ASSUME Resets(L) # {} PROVE Last(Resets(L)).total \in Nat
        <3>1. Resets(L) \subseteq L /\ Resets(L) = {e \in L : IsReset(e)}
            BY PartsAre
        <3>2. Last(Resets(L)) \in Resets(L)
            BY <2>1, <3>1, PartOfLog DEF Book
        <3>3. IsReset(Last(Resets(L))) /\ Entry(Last(Resets(L)))
            BY <3>1, <3>2, BookNumbers
        <3> QED
            BY <3>3 DEF Entry
    <2> QED
        BY <2>1 DEF Base
<1>2. Intervals(Counts(L)) \in Nat
    <2>1. Counts(L) \subseteq Closes(L)
        BY DEF Counts, Standing
    <2> QED
        BY <2>1, IntervalsAre
<1>3. LeftSum(L, r) \in Nat
    BY LeftIs
<1>4. Adjusted(L) \in Int
    BY AdjustedType DEF Book
<1>5. TakenBack(L) = 0
    BY NothingTakenBack
<1>6. Tracked(L, r) = Base(L) + Intervals(Counts(L)) + Adjusted(L) - TakenBack(L) + LeftSum(L, r)
    BY TrackedIs
<1>7. Settled(L) => Adjusted(L) \in Nat
    BY AdjustedNatural
<1> QED
    BY <1>1, <1>2, <1>3, <1>4, <1>5, <1>6, <1>7

-----------------------------------------------------------------------------
(* What one event more does to a count *)

Grows(L, e) == Book(L \cup {e}) /\ Later(e, L) /\ Rooted(L) /\ Rooted(L \cup {e})
IsCorrection(e) == IsAdjust(e) \/ IsRefund(e)

\* An event that is neither a reset nor a correction moves the intervals alone.
LEMMA MovePlain ==
    ASSUME NEW L, NEW e, Grows(L, e), ~IsReset(e), ~IsCorrection(e), NEW r, NEW q,
           LeftOpen(L \cup {e}, q) = LeftOpen(L, r), Follows(L, r)
    PROVE  /\ Resets(L \cup {e}) = Resets(L) /\ Adjusted(L \cup {e}) = Adjusted(L)
           /\ Tracked(L \cup {e}, q) \in Int /\ Tracked(L, r) \in Int
           /\ Intervals(Counts(L \cup {e})) \in Nat /\ Intervals(Counts(L)) \in Nat
           /\ Tracked(L \cup {e}, q) = Tracked(L, r) - Intervals(Counts(L)) + Intervals(Counts(L \cup {e}))
<1> DEFINE M == L \cup {e}
<1>1. Book(M) /\ Later(e, L) /\ Rooted(L) /\ Rooted(M) /\ Book(L)
    BY PartOfBook DEF Grows
<1>2. Resets(M) = Resets(L)
    BY <1>1, SinceMore
<1>3. Adjusted(M) = Adjusted(L)
    BY <1>1, AdjustedStays DEF IsCorrection
<1>4. LeftSum(M, q) = LeftSum(L, r)
    BY <1>1, LeftStays
<1>5. Base(M) = Base(L)
    BY <1>2 DEF Base
<1>6. /\ Base(L) \in Nat /\ Intervals(Counts(L)) \in Nat /\ LeftSum(L, r) \in Nat
      /\ Adjusted(L) \in Int /\ Tracked(L, r) \in Int
      /\ Tracked(L, r) = Base(L) + Intervals(Counts(L)) + Adjusted(L) + LeftSum(L, r)
    BY <1>1, PartsNatural
<1>7. /\ Intervals(Counts(M)) \in Nat /\ Tracked(M, q) \in Int
      /\ Tracked(M, q) = Base(M) + Intervals(Counts(M)) + Adjusted(M) + LeftSum(M, q)
    BY <1>1, PartsNatural
<1> HIDE DEF M
<1> QED
    BY <1>2, <1>3, <1>4, <1>5, <1>6, <1>7 DEF M

\* An event that ends, opens and corrects nothing.
IsIdle(L, e) ==
    /\ ~IsReset(e) /\ ~IsClose(e) /\ ~IsOpening(e)
    /\ IsReopen(e) => \A c \in Closes(L) : c.id # e.undone

\* It leaves what stands and what was left open as it was.
LEMMA IdleParts ==
    ASSUME NEW L, NEW e, Grows(L, e), IsIdle(L, e), NEW r
    PROVE  Counts(L \cup {e}) = Counts(L) /\ LeftOpen(L \cup {e}, r) = LeftOpen(L, r)
<1>0. /\ ~IsReopen(e) => Standing(L \cup {e}) = IF IsClose(e) THEN Standing(L) \cup {e} ELSE Standing(L)
      /\ IsReopen(e) => Standing(L \cup {e}) =
                {c \in Standing(L) : \A d \in Closes(L) : d.id = e.undone => d.since # c.since}
      /\ Standing(L) \subseteq Closes(L) /\ Closes(L) \subseteq L
    <2>1. Book(L \cup {e}) /\ Later(e, L)
        BY DEF Grows
    <2> QED
        BY <2>1, StandingMore
<1> DEFINE M == L \cup {e}
<1>1. Book(M) /\ Later(e, L) /\ e \notin L
    BY EndsOfMore DEF Grows
<1>2. Standing(M) = Standing(L)
    <2>1. ~IsReopen(e) => Standing(M) = Standing(L)
        BY <1>0 DEF IsIdle
    <2>2. IsReopen(e) => Standing(M) = Standing(L)
        <3>1. IsReopen(e) => Standing(M) =
                {c \in Standing(L) : \A d \in Closes(L) : d.id = e.undone => d.since # c.since}
            BY <1>0
        <3>2. IsReopen(e) => \A d \in Closes(L) : d.id # e.undone
            BY DEF IsIdle
        <3> QED
            BY <3>1, <3>2
    <2> QED
        BY <2>1, <2>2
<1>3. Standing(L) \subseteq L /\ Since(M) = Since(L) \cup {e}
    BY <1>0, <1>1, SinceMore DEF IsIdle
<1>4. Openings(M) = Openings(L)
    BY PartsMore DEF IsIdle
<1>5. LeftOpen(M, r) = LeftOpen(L, r)
    BY <1>2, <1>4, LeftOpenIs
<1> QED
    BY <1>1, <1>2, <1>3, <1>5 DEF Counts

LEMMA MoveIdle ==
    ASSUME NEW L, NEW e, Grows(L, e), IsIdle(L, e), ~IsCorrection(e), NEW r, Follows(L, r)
    PROVE  /\ Resets(L \cup {e}) = Resets(L) /\ Adjusted(L \cup {e}) = Adjusted(L)
           /\ Tracked(L \cup {e}, r) = Tracked(L, r)
<1> DEFINE M == L \cup {e}
<1>1. Counts(M) = Counts(L) /\ LeftOpen(M, r) = LeftOpen(L, r) /\ ~IsReset(e)
    BY IdleParts DEF IsIdle
<1>2. /\ Resets(M) = Resets(L) /\ Adjusted(M) = Adjusted(L)
      /\ Tracked(L, r) \in Int /\ Intervals(Counts(L)) \in Nat
      /\ Tracked(M, r) = Tracked(L, r) - Intervals(Counts(L)) + Intervals(Counts(M))
    BY <1>1, MovePlain
<1> QED
    BY <1>1, <1>2

\* A correction, or its undo.
LEMMA MoveCorrection ==
    ASSUME NEW L, NEW e, Grows(L, e), IsIdle(L, e), IsCorrection(e), NEW r, Follows(L, r)
    PROVE  /\ Resets(L \cup {e}) = Resets(L) /\ Amount(L \cup {e}, e) \in Int
           /\ Adjusted(L \cup {e}) = Adjusted(L) + Amount(L \cup {e}, e)
           /\ Tracked(L \cup {e}, r) = Tracked(L, r) + Amount(L \cup {e}, e)
<1> DEFINE M == L \cup {e}
<1>1. Book(M) /\ Later(e, L) /\ Rooted(L) /\ Rooted(M) /\ Book(L) /\ ~IsReset(e)
    BY PartOfBook DEF Grows, IsIdle
<1>2. Counts(M) = Counts(L) /\ LeftOpen(M, r) = LeftOpen(L, r)
    BY IdleParts
<1>3. Resets(M) = Resets(L)
    BY <1>1, SinceMore
<1>4. Adjusted(M) = Adjusted(L) + Amount(M, e) /\ Amount(M, e) \in Int
    BY <1>1, AdjustedMore DEF IsCorrection
<1>5. LeftSum(M, r) = LeftSum(L, r)
    BY <1>1, <1>2, LeftStays
<1>6. Base(M) = Base(L)
    BY <1>3 DEF Base
<1>7. /\ Base(L) \in Nat /\ Intervals(Counts(L)) \in Nat /\ LeftSum(L, r) \in Nat /\ Adjusted(L) \in Int
      /\ Tracked(L, r) = Base(L) + Intervals(Counts(L)) + Adjusted(L) + LeftSum(L, r)
    BY <1>1, PartsNatural
<1>8. Tracked(M, r) = Base(M) + Intervals(Counts(M)) + Adjusted(M) + LeftSum(M, r)
    BY <1>1, PartsNatural
<1> HIDE DEF M
<1> QED
    BY <1>2, <1>3, <1>4, <1>5, <1>6, <1>7, <1>8 DEF M

\* A total that is set.
LEMMA MoveReset ==
    ASSUME NEW L, NEW e, Grows(L, e), IsReset(e), NEW r
    PROVE  /\ Resets(L \cup {e}) # {} /\ Adjusted(L \cup {e}) = 0
           /\ Tracked(L \cup {e}, r) = e.total
<1> DEFINE M == L \cup {e}
<1>1. Book(M) /\ Later(e, L) /\ Rooted(M)
    BY DEF Grows
<1>2. Resets(M) # {} /\ Last(Resets(M)) = e /\ Since(M) = {}
    BY <1>1, SinceMore
<1>3. Adjusted(M) = 0
    BY <1>1, <1>2, AdjustedReset
<1>4. LeftSum(M, r) = 0
    BY <1>1, LeftReset
<1>5. Counts(M) = {}
    BY <1>2 DEF Counts
<1>6. Intervals(Counts(M)) = 0
    <2> DEFINE f == [i \in Spans(Counts(M)) |-> Longest(Counts(M), i)]
    <2>1. Intervals(Counts(M)) = SumFunction(f)
        <3>1. Counts(M) \subseteq Closes(M)
            BY <1>5
        <3> QED
            BY <1>1, <3>1, IntervalsAre
    <2>2. DOMAIN f = {}
        BY <1>5 DEF Spans
    <2> HIDE DEF f
    <2> QED
        BY <2>1, <2>2, SumOfNone
<1>7. Base(M) = e.total
    BY <1>2 DEF Base
<1>8. Base(M) \in Nat /\ Tracked(M, r) = Base(M) + Intervals(Counts(M)) + Adjusted(M) + LeftSum(M, r)
    BY <1>1, PartsNatural
<1> HIDE DEF M
<1> QED
    BY <1>2, <1>3, <1>4, <1>6, <1>7, <1>8 DEF M

\* A start.
LEMMA MoveStart ==
    ASSUME NEW L, NEW e, Grows(L, e), e.op = "start", \A x \in L : x.at < e.at, Follows(L, 0), ~IsCorrection(e)
    PROVE  /\ Resets(L \cup {e}) = Resets(L) /\ Adjusted(L \cup {e}) = Adjusted(L)
           /\ Tracked(L \cup {e}, e.since) = Tracked(L, 0)
<1> DEFINE M == L \cup {e}
           i == e.since
<1>1. Book(M) /\ Later(e, L) /\ Rooted(L) /\ Book(L) /\ e \in M /\ e \notin L
    BY PartOfBook, EndsOfMore DEF Grows
<1>2. ~IsReset(e) /\ ~IsClose(e) /\ ~IsReopen(e)
    BY DEF IsReset, IsClose, IsReopen, Closing
<1>3. e.since = e.at /\ e.at > 0 /\ e.at \in Nat
    BY <1>1, BookNumbers DEF Entry
<1>4. IsOpening(e)
    BY <1>3 DEF IsOpening
<1>5. Standing(M) = Standing(L) /\ Standing(L) \subseteq L /\ Since(M) = Since(L) \cup {e}
    BY <1>1, <1>2, StandingMore, SinceMore
<1>6. Counts(M) = Counts(L)
    BY <1>1, <1>5 DEF Counts
<1>7. Openings(M) = Openings(L) \cup {e}
    BY <1>4, PartsMore
<1>8. i \notin Spans(Openings(L)) /\ 0 \notin Spans(Openings(L))
    <2>1. ASSUME NEW x \in Openings(L) PROVE x.since # i /\ x.since # 0
        <3>1. x \in L /\ IsOpening(x)
            BY PartsAre
        <3>2. x.since # 0 /\ \E o \in L : o.op = "start" /\ o.at = x.since
            BY <1>1, <3>1, OpenedIs
        <3>3. \A o \in L : o.at \in Nat /\ o.at # e.at
            BY <1>1, <1>3, BookNumbers
        <3> QED
            BY <1>3, <3>2, <3>3
    <2> QED
        BY <2>1 DEF Spans
<1>9. LeftOpen(M, i) = LeftOpen(L, 0)
    <2>1. Spans(Openings(M)) = Spans(Openings(L)) \cup {i}
        BY <1>7 DEF Spans
    <2>2. LeftOpen(M, i) = Spans(Openings(M)) \ (Spans(Standing(M)) \cup {i})
        BY LeftOpenIs
    <2>3. LeftOpen(L, 0) = Spans(Openings(L)) \ (Spans(Standing(L)) \cup {0})
        BY LeftOpenIs
    <2> QED
        BY <1>5, <1>8, <2>1, <2>2, <2>3
<1>10. /\ Resets(M) = Resets(L) /\ Adjusted(M) = Adjusted(L)
       /\ Tracked(L, 0) \in Int /\ Intervals(Counts(L)) \in Nat
       /\ Tracked(M, i) = Tracked(L, 0) - Intervals(Counts(L)) + Intervals(Counts(M))
    BY <1>2, <1>9, MovePlain
<1> QED
    BY <1>6, <1>10

\* A close of the interval that runs.
LEMMA MoveClose ==
    ASSUME NEW L, NEW e, Grows(L, e), IsClose(e), ~IsCorrection(e), e.since \notin Spans(Standing(L)),
           Follows(L, e.since)
    PROVE  /\ Resets(L \cup {e}) = Resets(L) /\ Adjusted(L \cup {e}) = Adjusted(L)
           /\ Tracked(L, e.since) \in Int /\ Length(e) \in Nat
           /\ Tracked(L \cup {e}, 0) = Tracked(L, e.since) + Length(e)
<1> DEFINE M == L \cup {e}
           i == e.since
<1>1. Book(M) /\ Later(e, L) /\ Rooted(L) /\ Book(L) /\ e \in M /\ e \notin L
    BY PartOfBook, EndsOfMore DEF Grows
<1>2. ~IsReset(e) /\ ~IsOpening(e) /\ ~IsReopen(e)
    BY DEF IsReset, IsClose, IsReopen, IsOpening, Closing
<1>3. Standing(M) = Standing(L) \cup {e} /\ Standing(L) \subseteq L /\ Since(M) = Since(L) \cup {e}
    BY <1>1, <1>2, StandingMore, SinceMore
<1>4. Counts(M) = Counts(L) \cup {e} /\ Spans(Counts(L)) \subseteq Spans(Standing(L))
    BY <1>1, <1>3 DEF Counts, Spans
<1>5. Openings(M) = Openings(L)
    BY <1>2, PartsMore
<1>6. 0 \notin Spans(Openings(L))
    <2>1. ASSUME NEW x \in Openings(L) PROVE x.since # 0
        BY <1>1, PartsAre DEF IsOpening
    <2> QED
        BY <2>1 DEF Spans
<1>7. LeftOpen(M, 0) = LeftOpen(L, i)
    <2>1. Spans(Standing(M)) = Spans(Standing(L)) \cup {i}
        BY <1>3 DEF Spans
    <2>2. LeftOpen(M, 0) = Spans(Openings(M)) \ (Spans(Standing(M)) \cup {0})
        BY LeftOpenIs
    <2>3. LeftOpen(L, i) = Spans(Openings(L)) \ (Spans(Standing(L)) \cup {i})
        BY LeftOpenIs
    <2> QED
        BY <1>5, <1>6, <2>1, <2>2, <2>3
<1>8. Intervals(Counts(L) \cup {e}) = Intervals(Counts(L)) + Length(e)
    <2> DEFINE S == Counts(L)
    <2>1. S \cup {e} \subseteq Closes(M)
        <3>1. S \subseteq Closes(M)
            BY PartsMore DEF Counts, Standing
        <3>2. e \in Closes(M)
            BY <1>1, PartsAre
        <3> QED
            BY <3>1, <3>2
    <2>2. e.since \notin Spans(S)
        BY <1>4
    <2> HIDE DEF S
    <2>3. Intervals(S \cup {e}) = Intervals(S) + Length(e)
        BY <1>1, <2>1, <2>2, IntervalMore
    <2> QED
        BY <2>3 DEF S
<1>9. Length(e) \in Nat
    BY <1>1, LengthNatural
<1>10. /\ Resets(M) = Resets(L) /\ Adjusted(M) = Adjusted(L)
       /\ Tracked(L, i) \in Int /\ Intervals(Counts(L)) \in Nat
       /\ Tracked(M, 0) = Tracked(L, i) - Intervals(Counts(L)) + Intervals(Counts(M))
    BY <1>2, <1>7, MovePlain
<1> HIDE DEF M, i
<1>11. Tracked(M, 0) = Tracked(L, i) + Length(e)
    BY <1>4, <1>8, <1>9, <1>10
<1> QED
    BY <1>9, <1>10, <1>11 DEF M, i

\* An undo of the only close of an interval that stands.
LEMMA MoveReopen ==
    ASSUME NEW L, NEW e, Grows(L, e), IsReopen(e), e.since # 0, ~IsCorrection(e), Follows(L, 0),
           NEW c \in Counts(L), c.id = e.undone, c.since = e.since,
           \A d \in Standing(L) : d.since = e.since => d = c
    PROVE  /\ Resets(L \cup {e}) = Resets(L) /\ Adjusted(L \cup {e}) = Adjusted(L)
           /\ Length(c) \in Nat /\ Tracked(L, 0) \in Int
           /\ Tracked(L \cup {e}, e.since) = Tracked(L, 0) - Length(c)
<1> DEFINE M == L \cup {e}
           i == e.since
<1>1. Book(M) /\ Later(e, L) /\ Rooted(L) /\ Rooted(M) /\ Book(L) /\ e \in M /\ e \notin L
    BY PartOfBook, EndsOfMore DEF Grows
<1>2. ~IsReset(e) /\ IsOpening(e) /\ ~IsClose(e)
    BY DEF IsReset, IsClose, IsReopen, IsOpening, Closing
<1>3. /\ Standing(M) = {d \in Standing(L) : \A x \in Closes(L) : x.id = e.undone => x.since # d.since}
      /\ Standing(L) \subseteq Closes(L) /\ Closes(L) \subseteq L /\ Since(M) = Since(L) \cup {e}
    BY <1>1, <1>2, StandingMore, SinceMore
<1>4. c \in Standing(L) /\ c \in Closes(L) /\ c \in L /\ IsClose(c)
    BY <1>3, PartsAre DEF Counts
<1>5. \A x \in Closes(L) : x.id = e.undone => x = c
    <2>1. \A x \in L : x.id = c.id => x = c
        BY <1>1, <1>4, BookIds
    <2> QED
        BY <1>3, <2>1
<1>6. Standing(M) = Standing(L) \ {c}
    <2>1. Standing(M) = {d \in Standing(L) : d.since # i}
        BY <1>3, <1>4, <1>5
    <2> QED
        BY <1>4, <2>1
<1>7. Counts(M) \cup {c} = Counts(L) /\ c \notin Counts(M) /\ i \notin Spans(Counts(M))
    <2>1. Counts(M) = Counts(L) \ {c}
        BY <1>1, <1>3, <1>6 DEF Counts
    <2>2. \A d \in Counts(M) : d.since # i
        BY <1>6 DEF Counts
    <2> QED
        BY <2>1, <2>2 DEF Spans
<1>8. Openings(M) = Openings(L) \cup {e}
    BY <1>2, PartsMore
<1>9. LeftOpen(M, i) = LeftOpen(L, 0)
    <2>1. Spans(Openings(M)) = Spans(Openings(L)) \cup {i} /\ 0 \notin Spans(Openings(L))
        <3>1. ASSUME NEW x \in Openings(L) PROVE x.since # 0
            BY <1>1, PartsAre DEF IsOpening
        <3> QED
            BY <1>8, <3>1 DEF Spans
    <2>2. Spans(Standing(L)) = Spans(Standing(M)) \cup {i}
        BY <1>4, <1>6 DEF Spans
    <2>3. LeftOpen(M, i) = Spans(Openings(M)) \ (Spans(Standing(M)) \cup {i})
        BY LeftOpenIs
    <2>4. LeftOpen(L, 0) = Spans(Openings(L)) \ (Spans(Standing(L)) \cup {0})
        BY LeftOpenIs
    <2> QED
        BY <2>1, <2>2, <2>3, <2>4
<1>10. Intervals(Counts(L)) = Intervals(Counts(M)) + Length(c)
    <2> DEFINE S == Counts(M)
    <2>1. S \cup {c} \subseteq Closes(L) /\ c.since \notin Spans(S)
        BY <1>3, <1>7 DEF Counts
    <2> HIDE DEF S
    <2>2. Intervals(S \cup {c}) = Intervals(S) + Length(c)
        BY <1>1, <2>1, IntervalMore
    <2> QED
        BY <1>7, <2>2 DEF S
<1>11. Length(c) \in Nat
    BY <1>1, <1>4, LengthNatural
<1>12. /\ Resets(M) = Resets(L) /\ Adjusted(M) = Adjusted(L)
       /\ Tracked(L, 0) \in Int /\ Intervals(Counts(L)) \in Nat /\ Intervals(Counts(M)) \in Nat
       /\ Tracked(M, i) = Tracked(L, 0) - Intervals(Counts(L)) + Intervals(Counts(M))
    BY <1>2, <1>9, MovePlain
<1> HIDE DEF M, i
<1> QED
    BY <1>10, <1>11, <1>12 DEF M, i

-----------------------------------------------------------------------------
(* A merge adds up *)

\* What holds while the clocks agree and every count is a number.
Ready == StateOK /\ SumInv /\ InTime /\ Unique /\ Alike /\ \A e \in Sound : Entry(e)

LEMMA SoundKnown ==
    /\ Sound \subseteq Known
    /\ \A c \in Copies : Clean(c.log) => c.log \subseteq Sound
<1>1. \A c \in Copies : c.log \subseteq Known
    BY DEF Copies, Rows, Documents, Known
<1> QED
    BY <1>1 DEF Sound

LEMMA CleanPart ==
    ASSUME NEW L, NEW M, L \subseteq M, Clean(M)
    PROVE  Clean(L)
BY DEF Clean, Blind

LEMMA CleanUnion ==
    ASSUME NEW L, NEW M, Clean(L), Clean(M)
    PROVE  Clean(L \cup M)
BY DEF Clean, Blind

LEMMA SoundBook ==
    ASSUME Ready, NEW L, L \subseteq Sound, IsFiniteSet(L), \A e \in L : CountedEvent(e)
    PROVE  Book(L)
BY SoundKnown DEF Ready, InTime, Unique, Book, Logbook

LEMMA CopiesCounted ==
    ASSUME StateOK, SumInv, NEW c \in Copies
    PROVE  Counted(c) /\ CopyOK(c) /\ c.log # {} /\ c.log \subseteq Known
<1>1. CASE c \in Rows
    <2>1. PICK s \in Stores : c = copy[s]
        BY <1>1 DEF Rows
    <2> QED
        BY <2>1, CopiesOK DEF SumInv
<1>2. CASE c \in Documents
    <2>1. PICK s \in Stores : c = doc[s]
        BY <1>2 DEF Documents
    <2> QED
        BY <2>1, CopiesOK DEF SumInv
<1> QED
    BY <1>1, <1>2 DEF Copies

\* Every copy is a book.
LEMMA CopyBook ==
    ASSUME Ready, NEW c \in Copies, Clean(c.log)
    PROVE  Book(c.log) /\ Counted(c) /\ CopyOK(c) /\ c.log # {} /\ Edits(c.log, "status") # {}
<1>1. Counted(c) /\ CopyOK(c) /\ c.log # {} /\ c.log \subseteq Known
    BY CopiesCounted DEF Ready
<1>2. Book(c.log)
    BY <1>1, SoundKnown, SoundBook DEF Counted, Logbook
<1>3. Edits(c.log, "status") # {}
    BY <1>1 DEF CopyOK, Edits, Touches
<1> QED
    BY <1>1, <1>2, <1>3

LEMMA SettledPart ==
    ASSUME NEW K, Settled(K), NEW L, L \subseteq K
    PROVE  Settled(L)
BY DEF Settled

LEMMA RootedUnion ==
    ASSUME NEW L, NEW M, Rooted(L), Rooted(M)
    PROVE  Rooted(L \cup M)
BY DEF Rooted

\* One residual is kept, whichever copies it comes from.
LEMMA KeptOne ==
    ASSUME NEW K, NEW x \in Int, NEW y \in Int, K = {[tracked |-> x, adj |-> y]}
    PROVE  Rest({k.tracked : k \in K}) = x /\ Rest({k.adj : k \in K}) = y
<1>1. {k.tracked : k \in K} = {x} /\ {k.adj : k \in K} = {y}
    OBVIOUS
<1>2. \A z \in Int : Rest({z}) = z
    <2>1. ASSUME NEW z \in Int PROVE Rest({z}) = z
        <3>1. Rest({z}) \in {z}
            BY RestOf
        <3> QED
            BY <3>1
    <2> QED
        BY <2>1
<1> QED
    BY <1>1, <1>2

\* What two copies that their logs explain leave unexplained of their union.
LEMMA KeptIs ==
    ASSUME NEW a, Explained(a), Book(a.log), NEW b, Explained(b), Book(b.log), Book(a.log \cup b.log)
    PROVE  Kept(a, b) = {[tracked |-> IF Resets(a.log \cup b.log) = {} THEN Earlier ELSE 0, adj |-> 0]}
<1> DEFINE U == a.log \cup b.log
           x == [tracked |-> IF Resets(U) = {} THEN Earlier ELSE 0, adj |-> 0]
<1>1. Resets(U) = Resets(a.log) \cup Resets(b.log)
    BY DEF Resets
<1>2. Kept(a, b) = {Beyond(c) : c \in {c \in {a, b} : Holds(c.log, U)}}
    BY DEF Kept
<1>3. CASE Resets(U) = {}
    <2>1. Beyond(a) = x /\ Beyond(b) = x
        BY <1>1, <1>3 DEF Explained
    <2>2. \A c \in {a, b} : Holds(c.log, U)
        BY <1>3 DEF Holds
    <2> HIDE DEF x, U
    <2> QED
        BY <1>2, <2>1, <2>2 DEF x, U
<1>4. CASE Resets(U) # {}
    <2>1. Last(Resets(U)) \in Resets(U)
        <3>1. Resets(U) \subseteq U
            BY DEF Resets
        <3>2. Book(Resets(U))
            BY <3>1, PartOfBook
        <3> QED
            BY <1>4, <3>2, BookEnds
    <2>2. ASSUME NEW c \in {a, b}, Last(Resets(U)) \in c.log PROVE Beyond(c) = x
        <3>1. Resets(c.log) # {}
            BY <2>1, <2>2 DEF Resets
        <3>2. Explained(c)
            OBVIOUS
        <3> QED
            BY <1>4, <3>1, <3>2 DEF Explained
    <2>3. \A c \in {a, b} : Holds(c.log, U) <=> Last(Resets(U)) \in c.log
        BY <1>4 DEF Holds
    <2>4. \E c \in {a, b} : Last(Resets(U)) \in c.log
        BY <2>1 DEF Resets
    <2> HIDE DEF x, U
    <2> QED
        BY <1>2, <2>2, <2>3, <2>4 DEF x, U
<1> QED
    BY <1>3, <1>4

\* Two copies that explain their totals merge to one that explains its own: the log
\* of both counts at least what either counts, and neither has a residual to add.
LEMMA MergeExplained ==
    ASSUME NEW a, CopyOK(a), a.log # {}, Explained(a), Book(a.log), Rooted(a.log),
           NEW b, CopyOK(b), Explained(b), Book(b.log), Rooted(b.log),
           Book(a.log \cup b.log), Settled(a.log \cup b.log)
    PROVE  Explained(Merged(a, b))
<1> DEFINE m == Merged(a, b)
           U == a.log \cup b.log
           status == Chosen(a, b, "status")
           r == Running(m.row)
           T == Tracked(U, r)
           A == Adjusted(U)
           K == Kept(a, b)
           x == IF Resets(U) = {} THEN Earlier ELSE 0
<1>1. /\ m.log = U /\ m.row.status = status[1] /\ m.row.since = status[2]
      /\ m.row.tracked = MergedTotal(a, b, RunningOf(status)).tracked
      /\ m.row.adj = MergedTotal(a, b, RunningOf(status)).adj
    BY MergedFields
<1>2. RunningOf(status) = r
    <2> HIDE DEF m, status
    <2> QED
        BY <1>1 DEF RunningOf, Running
<1>3. Rooted(U)
    BY RootedUnion
<1>4. T \in Nat /\ A \in Nat
    BY <1>3, PartsNatural
<1>5. K = {[tracked |-> x, adj |-> 0]} /\ x \in Nat
    BY KeptIs, StoresAssumption
<1>6. MergedTotal(a, b, r) = AtLeastZero(T + Larger(0, Rest({k.tracked : k \in K})),
                                         A + Rest({k.adj : k \in K}))
    BY DEF MergedTotal, TotalOf
<1>7. Beyond(m) = [tracked |-> m.row.tracked - T, adj |-> m.row.adj - A]
    BY <1>1 DEF Beyond
<1>8. Resets(m.log) = Resets(U)
    BY <1>1
<1> HIDE DEF m, U, T, A, K, x, r
<1>9. Rest({k.tracked : k \in K}) = x /\ Rest({k.adj : k \in K}) = 0
    <2>1. K = {[tracked |-> x, adj |-> 0]} /\ x \in Int /\ 0 \in Int
        BY <1>5
    <2> QED
        BY <2>1, KeptOne, Zenon
<1>10. MergedTotal(a, b, r) = [tracked |-> T + x, adj |-> A]
    BY <1>4, <1>5, <1>6, <1>9 DEF AtLeastZero, Larger
<1>11. m.row.tracked = T + x /\ m.row.adj = A
    BY <1>1, <1>2, <1>10
<1>12. Beyond(m) = [tracked |-> x, adj |-> 0]
    BY <1>4, <1>5, <1>7, <1>11
<1> QED
    BY <1>8, <1>12 DEF Explained, m, x

\* A merge is as new as the newer of the two.
LEMMA MergeStamp ==
    ASSUME NEW a, CopyOK(a), a.log # {}, Stamp(a), NEW b, CopyOK(b), Stamp(b)
    PROVE  Stamp(Merged(a, b))
<1> DEFINE m == Merged(a, b)
<1>1. m.log = a.log \cup b.log /\ m.row.modified = Larger(a.row.modified, b.row.modified)
    BY MergedFields
<1>2. \A e \in a.log \cup b.log : e.at \in Nat
    BY DEF CopyOK, EventOK
<1>3. a.row.modified \in Nat /\ b.row.modified \in Nat
    BY DEF CopyOK, RowOK
<1> HIDE DEF m
<1>4. Stamp(m)
    <2>1. CASE a.row.modified > b.row.modified
        <3>1. m.row.modified = a.row.modified
            BY <1>1, <2>1 DEF Larger
        <3> QED
            BY <1>1, <1>2, <1>3, <2>1, <3>1 DEF Stamp
    <2>2. CASE ~(a.row.modified > b.row.modified)
        <3>1. m.row.modified = b.row.modified
            BY <1>1, <2>2 DEF Larger
        <3> QED
            BY <1>1, <1>2, <1>3, <2>2, <3>1 DEF Stamp
    <2> QED
        BY <2>1, <2>2
<1> QED
    BY <1>4 DEF m

\* A merge of two honest copies is one.
LEMMA MergeHonest ==
    ASSUME Ready, Settled(Sound), NEW a \in Copies, NEW b \in Copies, Honest(a), Honest(b),
           Clean(a.log), Clean(b.log)
    PROVE  Honest(Merged(a, b))
<1> DEFINE m == Merged(a, b)
<1>1. /\ Book(a.log) /\ Counted(a) /\ CopyOK(a) /\ a.log # {}
      /\ Book(b.log) /\ Counted(b) /\ CopyOK(b) /\ b.log # {}
    BY CopyBook
<1>2. a.log \subseteq Sound /\ b.log \subseteq Sound
    BY SoundKnown
<1>3. Book(a.log \cup b.log)
    <2>1. IsFiniteSet(a.log \cup b.log) /\ \A e \in a.log \cup b.log : CountedEvent(e)
        BY <1>1, FS_Union DEF Counted, Logbook
    <2> QED
        BY <1>2, <2>1, SoundBook
<1>4. Settled(a.log \cup b.log)
    BY <1>2, SettledPart
<1>5. Rooted(a.log) /\ Rooted(b.log) /\ Explained(a) /\ Explained(b)
    BY DEF Honest
<1>6. Explained(m)
    BY <1>1, <1>3, <1>4, <1>5, MergeExplained
<1>7. m.log = a.log \cup b.log
    BY <1>1, MergedFields
<1>8. Rooted(m.log)
    BY <1>5, <1>7, RootedUnion
<1>10. Tells(m)
    <2>1. PICK x \in {a, b} : /\ Last(Edits(m.log, "status")) = Last(Edits(x.log, "status"))
                              /\ Value(m.row, "status") = Value(x.row, "status")
        BY MergeKeepsValue DEF Ready, Told, Scalar
    <2>2. Tells(x)
        BY DEF Honest
    <2> HIDE DEF m
    <2>3. m.row.status = x.row.status /\ m.row.since = x.row.since
        BY <2>1 DEF Value
    <2> QED
        BY <2>1, <2>2, <2>3 DEF Tells, Runs, Running
<1> QED
    BY <1>6, <1>8, <1>10 DEF Honest

-----------------------------------------------------------------------------
(* A log that explains a row, and one event more *)

\* A book without what its events say.
Sheet(L) ==
    /\ Logbook(L)
    /\ \A e \in L : ~Slow(e) /\ Minted(e)
    /\ \A e, f \in L : e.at = f.at /\ e.id = f.id => e = f

\* What an event rests on is in the log it is written to.
Roots(L, e) ==
    /\ IsClose(e) \/ IsOpening(e) =>
            \/ e.op = "start" /\ e.at = e.since
            \/ \E o \in L : o.op = "start" /\ o.at = e.since
    /\ IsReopen(e) => \E c \in L : c.op \in Closing /\ c.id = e.undone /\ c.since = e.since /\ c.at < e.at
    /\ IsRefund(e) => \E d \in L : IsAdjust(d) /\ d.id = e.undone

\* An event a log can be continued with.
Extends(L, e) == Sheet(L \cup {e}) /\ Later(e, L) /\ Entry(e) /\ Roots(L, e)

\* What was there before the log began.
Ahead(L) == IF Resets(L) = {} THEN Earlier ELSE 0

\* A log that explains the interval that runs, the total and the correction.
Fits(L, r, t, a) ==
    /\ Book(L) /\ Rooted(L) /\ Edits(L, "status") # {} /\ Runs(L) = r
    /\ Tracked(L, r) \in Int /\ Adjusted(L) \in Int
    /\ t = Tracked(L, r) + Ahead(L) /\ a = Adjusted(L)

LEMMA SheetBook ==
    ASSUME NEW L, Sheet(L), \A e \in L : Entry(e)
    PROVE  Book(L)
BY DEF Sheet, Book

\* A log that fits still opens what it says when it is continued.
LEMMA FitGrows ==
    ASSUME NEW L, NEW r, NEW t, NEW a, Fits(L, r, t, a), NEW e, Extends(L, e)
    PROVE  /\ Grows(L, e) /\ Follows(L, r) /\ Edits(L \cup {e}, "status") # {}
           /\ Runs(L \cup {e}) = IF Touches(e, "status") THEN Opened(e) ELSE r
<1> DEFINE M == L \cup {e}
<1>1. Book(M)
    <2>1. \A x \in M : Entry(x)
        BY DEF Extends, Fits, Book
    <2>2. Sheet(M)
        BY DEF Extends
    <2> HIDE DEF M
    <2> QED
        BY <2>1, <2>2, SheetBook
<1>2. Rooted(M)
    <2>1. Rooted(L) /\ Roots(L, e)
        BY DEF Fits, Extends
    <2>2. \A x \in M : IsClose(x) \/ IsOpening(x) => \E o \in M : o.op = "start" /\ o.at = x.since
        BY <2>1 DEF Rooted, Roots
    <2>3. \A u \in M : IsReopen(u) =>
            \E c \in M : c.op \in Closing /\ c.id = u.undone /\ c.since = u.since /\ c.at < u.at
        BY <2>1 DEF Rooted, Roots
    <2>4. \A u \in M : IsRefund(u) => \E d \in M : IsAdjust(d) /\ d.id = u.undone
        BY <2>1 DEF Rooted, Roots
    <2> HIDE DEF M
    <2> QED
        BY <2>2, <2>3, <2>4 DEF Rooted
<1>3. Later(e, L) /\ Book(L) /\ Rooted(L)
    BY DEF Extends, Fits
<1>4. Grows(L, e)
    BY <1>1, <1>2, <1>3 DEF Grows
<1>5. Follows(L, r)
    <2>1. Runs(L) = r
        BY DEF Fits
    <2> QED
        BY <1>3, <2>1, RunsFollows
<1>6. Edits(M, "status") = IF Touches(e, "status") THEN Edits(L, "status") \cup {e} ELSE Edits(L, "status")
    BY DEF Edits
<1>7. Edits(M, "status") # {} /\ Edits(L, "status") # {}
    BY <1>6 DEF Fits
<1>8. Touches(e, "status") => Last(Edits(M, "status")) = e
    <2> SUFFICES ASSUME Touches(e, "status") PROVE Last(Edits(M, "status")) = e
        OBVIOUS
    <2> DEFINE E == Edits(L, "status")
    <2>1. Edits(M, "status") = E \cup {e} /\ E \subseteq L /\ E \cup {e} \subseteq M
        BY <1>6 DEF Edits
    <2>2. Book(E \cup {e})
        BY <1>1, <2>1, PartOfBook
    <2>3. Later(e, E)
        BY <1>3, <2>1 DEF Later
    <2> HIDE DEF E, M
    <2> QED
        BY <2>1, <2>2, <2>3, EndsOfMore
<1>9. Runs(M) = IF Touches(e, "status") THEN Opened(e) ELSE r
    <2>1. Runs(L) = r
        BY DEF Fits
    <2> HIDE DEF M
    <2> QED
        BY <1>6, <1>8, <2>1 DEF Runs
<1> QED
    BY <1>4, <1>5, <1>7, <1>9

\* How a log goes on fitting.
LEMMA FitsAgain ==
    ASSUME NEW L, NEW r, NEW t, NEW a, Fits(L, r, t, a), NEW e, Extends(L, e),
           NEW q, Runs(L \cup {e}) = q, NEW d \in Int, NEW f \in Int,
           Resets(L \cup {e}) = Resets(L), Adjusted(L \cup {e}) = Adjusted(L) + f,
           Tracked(L \cup {e}, q) = Tracked(L, r) + d
    PROVE  Fits(L \cup {e}, q, t + d, a + f)
<1> DEFINE M == L \cup {e}
<1>1. Grows(L, e) /\ Edits(M, "status") # {}
    BY FitGrows
<1>2. Book(M) /\ Rooted(M)
    BY <1>1 DEF Grows
<1>3. /\ Tracked(L, r) \in Int /\ Adjusted(L) \in Int
      /\ t = Tracked(L, r) + Ahead(L) /\ a = Adjusted(L)
    BY DEF Fits
<1>4. Ahead(M) = Ahead(L) /\ Ahead(L) \in Int
    BY StoresAssumption DEF Ahead
<1> HIDE DEF M
<1>5. /\ Tracked(M, q) \in Int /\ Adjusted(M) \in Int
      /\ t + d = Tracked(M, q) + Ahead(M) /\ a + f = Adjusted(M)
    BY <1>3, <1>4 DEF M
<1>6. Fits(M, q, t + d, a + f)
    BY <1>1, <1>2, <1>5 DEF Fits, M
<1> QED
    BY <1>6 DEF M

LEMMA FitType ==
    ASSUME NEW L, NEW r, NEW t, NEW a, Fits(L, r, t, a)
    PROVE  t \in Int /\ a \in Int
BY StoresAssumption DEF Fits, Ahead

\* An event that moves no time changes nothing the log counts.
LEMMA FitIdle ==
    ASSUME NEW L, NEW r, NEW t, NEW a, Fits(L, r, t, a), NEW e, Extends(L, e),
           IsIdle(L, e), ~IsCorrection(e), Touches(e, "status") => Opened(e) = r
    PROVE  Fits(L \cup {e}, r, t, a)
<1>1. Grows(L, e) /\ Follows(L, r) /\ Runs(L \cup {e}) = r
    BY FitGrows
<1>2. /\ Resets(L \cup {e}) = Resets(L) /\ Adjusted(L \cup {e}) = Adjusted(L)
      /\ Tracked(L \cup {e}, r) = Tracked(L, r)
    BY <1>1, MoveIdle
<1>3. Tracked(L, r) \in Int /\ Adjusted(L) \in Int /\ t \in Int /\ a \in Int
    BY FitType DEF Fits
<1>4. Tracked(L \cup {e}, r) = Tracked(L, r) + 0 /\ Adjusted(L \cup {e}) = Adjusted(L) + 0
    BY <1>2, <1>3
<1>5. 0 \in Int
    OBVIOUS
<1>6. Fits(L \cup {e}, r, t + 0, a + 0)
    BY <1>1, <1>2, <1>4, <1>5, FitsAgain
<1>7. t + 0 = t /\ a + 0 = a
    BY <1>3
<1> QED
    BY <1>6, <1>7

\* A correction moves the total and the corrections alike.
LEMMA FitCorrection ==
    ASSUME NEW L, NEW r, NEW t, NEW a, Fits(L, r, t, a), NEW e, Extends(L, e),
           IsIdle(L, e), IsCorrection(e), ~Touches(e, "status")
    PROVE  LET d == Amount(L \cup {e}, e) IN d \in Int /\ Fits(L \cup {e}, r, t + d, a + d)
<1>1. Grows(L, e) /\ Follows(L, r) /\ Runs(L \cup {e}) = r
    BY FitGrows
<1>2. /\ Resets(L \cup {e}) = Resets(L) /\ Amount(L \cup {e}, e) \in Int
      /\ Adjusted(L \cup {e}) = Adjusted(L) + Amount(L \cup {e}, e)
      /\ Tracked(L \cup {e}, r) = Tracked(L, r) + Amount(L \cup {e}, e)
    BY <1>1, MoveCorrection
<1> QED
    BY <1>1, <1>2, FitsAgain

\* A total that is set ends what was counted before it.
LEMMA FitReset ==
    ASSUME NEW L, NEW r, NEW t, NEW a, Fits(L, r, t, a), NEW e, Extends(L, e),
           IsReset(e), ~Touches(e, "status")
    PROVE  Fits(L \cup {e}, r, e.total, 0)
<1> DEFINE M == L \cup {e}
<1>1. Grows(L, e) /\ Follows(L, r) /\ Runs(M) = r /\ Edits(M, "status") # {}
    BY FitGrows
<1>2. Resets(M) # {} /\ Adjusted(M) = 0 /\ Tracked(M, r) = e.total
    BY <1>1, MoveReset
<1>3. Book(M) /\ Rooted(M)
    BY <1>1 DEF Grows
<1>4. e.total \in Nat
    BY DEF Extends, Entry
<1>5. Ahead(M) = 0
    BY <1>2 DEF Ahead
<1> HIDE DEF M
<1>6. e.total = Tracked(M, r) + Ahead(M) /\ Tracked(M, r) \in Int /\ Adjusted(M) \in Int
    BY <1>2, <1>4, <1>5
<1>7. Fits(M, r, e.total, 0)
    BY <1>1, <1>2, <1>3, <1>6 DEF Fits
<1> QED
    BY <1>7 DEF M

\* A start counts nothing.
LEMMA FitStart ==
    ASSUME NEW L, NEW t, NEW a, Fits(L, 0, t, a), NEW e, Extends(L, e),
           e.op = "start", \A x \in L : x.at < e.at, ~IsCorrection(e)
    PROVE  Fits(L \cup {e}, e.since, t, a)
<1>1. Touches(e, "status") /\ Opened(e) = e.since
    BY DEF Touches, Opened
<1>2. Grows(L, e) /\ Follows(L, 0) /\ Runs(L \cup {e}) = e.since
    BY <1>1, FitGrows, Zenon
<1>3. /\ Resets(L \cup {e}) = Resets(L) /\ Adjusted(L \cup {e}) = Adjusted(L)
      /\ Tracked(L \cup {e}, e.since) = Tracked(L, 0)
    BY <1>2, MoveStart
<1>4. Tracked(L, 0) \in Int /\ Adjusted(L) \in Int /\ t \in Int /\ a \in Int
    BY FitType DEF Fits
<1>5. Tracked(L \cup {e}, e.since) = Tracked(L, 0) + 0 /\ Adjusted(L \cup {e}) = Adjusted(L) + 0
    BY <1>3, <1>4
<1>6. 0 \in Int
    OBVIOUS
<1>7. Fits(L \cup {e}, e.since, t + 0, a + 0)
    BY <1>2, <1>3, <1>5, <1>6, FitsAgain, Zenon
<1>8. t + 0 = t /\ a + 0 = a
    BY <1>4
<1> QED
    BY <1>7, <1>8

\* A close counts the interval it ends.
LEMMA FitClose ==
    ASSUME NEW L, NEW r, NEW t, NEW a, Fits(L, r, t, a), NEW e, Extends(L, e),
           IsClose(e), e.since = r, ~IsCorrection(e)
    PROVE  /\ Length(e) \in Nat /\ Fits(L \cup {e}, 0, t + Length(e), a)
           /\ \A c \in Standing(L \cup {e}) : c.since = e.since => c = e
<1> DEFINE M == L \cup {e}
<1>1. Touches(e, "status") /\ Opened(e) = 0 /\ ~IsReopen(e)
    BY StatusEvents DEF IsClose, IsReopen, Closing
<1>2. Grows(L, e) /\ Follows(L, e.since) /\ Runs(M) = 0
    BY <1>1, FitGrows
<1>3. e.since \notin Spans(Standing(L))
    <2>1. Runs(L) # 0 /\ Book(L) /\ Rooted(L) /\ Edits(L, "status") # {} /\ Runs(L) = e.since
        BY DEF Fits, IsClose
    <2> QED
        BY <2>1, RunsUnclosed
<1>4. /\ Resets(M) = Resets(L) /\ Adjusted(M) = Adjusted(L)
      /\ Tracked(L, e.since) \in Int /\ Length(e) \in Nat
      /\ Tracked(M, 0) = Tracked(L, e.since) + Length(e)
    BY <1>2, <1>3, MoveClose
<1>5. Adjusted(L) \in Int /\ a \in Int
    BY FitType DEF Fits
<1>6. Adjusted(M) = Adjusted(L) + 0 /\ 0 \in Int /\ Length(e) \in Int
    BY <1>4, <1>5
<1>7. Fits(M, 0, t + Length(e), a + 0)
    <2>1. Tracked(M, 0) = Tracked(L, r) + Length(e)
        BY <1>4
    <2> QED
        BY <1>2, <1>4, <1>6, <2>1, FitsAgain, Zenon
<1>8. a + 0 = a
    BY <1>5
<1>9. \A c \in Standing(M) : c.since = e.since => c = e
    <2>1. Standing(M) = Standing(L) \cup {e}
        BY <1>1, <1>2, StandingMore DEF Grows
    <2> QED
        BY <1>3, <2>1 DEF Spans
<1> QED
    BY <1>4, <1>7, <1>8, <1>9

\* The newest event of a log, when it closes: nothing runs.
LEMMA ClosedLast ==
    ASSUME NEW L, Book(L), NEW c \in L, c.op \in Closing, \A x \in L \ {c} : Place(x) < Place(c)
    PROVE  Runs(L) = 0
<1>1. Touches(c, "status") /\ Opened(c) = 0
    BY DEF Touches, Opened, Closing, IsReopen
<1>2. Edits(L, "status") \subseteq L /\ c \in Edits(L, "status")
    BY <1>1 DEF Edits
<1>3. Book(Edits(L, "status"))
    BY <1>2, PartOfBook
<1>4. \A x \in Edits(L, "status") : Place(x) <= Place(c)
    <2>1. \A x \in L : Place(x) \in Int
        BY BookNumbers
    <2> QED
        BY <1>2, <2>1
<1>5. Last(Edits(L, "status")) = c
    BY <1>2, <1>3, <1>4, EndsWhich
<1> QED
    BY <1>1, <1>5 DEF Runs

\* An undo of the close a log ends with: E is that log, L what the undo follows.
LEMMA FitReopen ==
    ASSUME NEW L, NEW t, NEW a, Fits(L, 0, t, a), NEW e, Extends(L, e),
           IsReopen(e), e.since # 0, ~IsCorrection(e),
           NEW c \in L, IsClose(c), c.id = e.undone, c.since = e.since,
           \A x \in L \ {c} : Place(c) < Place(x) => ~IsReopen(x) /\ ~IsReset(x),
           \A d \in Standing(L) : d.since = e.since => d = c
    PROVE  Length(c) \in Nat /\ Fits(L \cup {e}, e.since, t - Length(c), a)
<1> DEFINE M == L \cup {e}
<1>1. Touches(e, "status") /\ Opened(e) = e.since
    BY StatusEvents
<1>2. Grows(L, e) /\ Follows(L, 0) /\ Runs(M) = e.since
    BY <1>1, FitGrows, Zenon
<1>3. Book(L)
    BY DEF Fits
<1>4. \A x \in L : Place(x) \in Int
    BY <1>3, BookNumbers
<1>5. ~IsReopen(c) /\ ~IsReset(c)
    BY DEF IsClose, IsReopen, IsReset, Closing
<1>6. c \in Standing(L)
    <2>1. c \in Closes(L) /\ Reopens(L) = {u \in L : IsReopen(u)}
        BY PartsAre
    <2>2. \A u \in Reopens(L) : ~(Place(c) < Place(u))
        BY <1>4, <1>5, <2>1
    <2> QED
        BY <2>1, <2>2 DEF Standing
<1>7. c \in Since(L)
    <2>1. CASE Resets(L) = {}
        BY <2>1 DEF Since
    <2>2. CASE Resets(L) # {}
        <3>1. Resets(L) \subseteq L /\ Resets(L) = {x \in L : IsReset(x)}
            BY PartsAre
        <3>2. Book(Resets(L))
            BY <1>3, <3>1, PartOfBook
        <3>3. Last(Resets(L)) \in Resets(L)
            BY <2>2, <3>2, BookEnds
        <3> DEFINE l == Last(Resets(L))
        <3>4. l \in L /\ IsReset(l)
            BY <3>1, <3>3
        <3>5. l # c /\ ~(Place(c) < Place(l)) /\ Place(l) \in Int /\ Place(c) \in Int
            BY <1>4, <1>5, <3>4
        <3>6. Place(l) # Place(c)
            BY <1>3, <3>4, <3>5, BookPlaces
        <3>7. Place(c) > Place(l)
            BY <3>5, <3>6
        <3> QED
            BY <2>2, <3>7 DEF Since, After
    <2> QED
        BY <2>1, <2>2
<1>8. c \in Counts(L)
    BY <1>6, <1>7 DEF Counts
<1>9. /\ Resets(M) = Resets(L) /\ Adjusted(M) = Adjusted(L)
      /\ Length(c) \in Nat /\ Tracked(L, 0) \in Int
      /\ Tracked(M, e.since) = Tracked(L, 0) - Length(c)
    BY <1>2, <1>8, MoveReopen
<1>10. Adjusted(L) \in Int /\ a \in Int /\ t \in Int
    BY FitType DEF Fits
<1>11. Adjusted(M) = Adjusted(L) + 0 /\ 0 \in Int /\ -Length(c) \in Int
    BY <1>9, <1>10
<1>12. Tracked(M, e.since) = Tracked(L, 0) + (-Length(c))
    BY <1>9
<1>13. Fits(M, e.since, t + (-Length(c)), a + 0)
    BY <1>2, <1>9, <1>11, <1>12, FitsAgain, Zenon
<1>14. a + 0 = a /\ t + (-Length(c)) = t - Length(c)
    BY <1>9, <1>10
<1> QED
    BY <1>9, <1>13, <1>14

-----------------------------------------------------------------------------
(* What an edit must leave *)

\* The log after an edit is one clock's, all it held before is earlier, and no
\* modify of it cancelled a running task.
Sheets(s) ==
    /\ Sheet(copy'[s].log) /\ \A x \in copy[s].log : x.at < Clock(s)
    /\ Clean(copy[s].log) /\ Clean(copy'[s].log)

\* What an edit leaves: an honest copy, what undo needs of it, and the events
\* that are new.
Posted(s) ==
    /\ Honest(copy'[s]) /\ Backed(s)'
    /\ \A e \in copy'[s].log \ copy[s].log :
        /\ Entry(e)
        /\ IsRefund(e) => /\ "adjust_tracked" \in scene.undone
                          /\ IsAdjust(last[s].ev) /\ e.undone = last[s].ev.id
                          /\ \A f \in copy'[s].log \ copy[s].log : IsRefund(f) => f = e
        /\ IsReset(e) => SetsTotals(scene)

\* The events of an edit: e is the newest, what comes before it only says that
\* a claim goes on.
Newest(s, events, e) ==
    \A x \in events : /\ x.at = Clock(s)
                      /\ x # e => Place(x) < Place(e) /\ ~IsRefund(x) /\ ~IsReset(x)
\* What the scene lets an edit write.
Granted(s, e) ==
    /\ IsRefund(e) => /\ "adjust_tracked" \in scene.undone
                      /\ IsAdjust(last[s].ev) /\ e.undone = last[s].ev.id
    /\ IsReset(e) => SetsTotals(scene)
\* What undo will need of an edit.
Undoable(s, row, events, e) ==
    /\ e.op \in Closing =>
            /\ e.since = Running(copy[s].row)
            /\ row.tracked = copy[s].row.tracked + (IF e.since = 0 THEN 0 ELSE Secs(e.since, e.at))
            /\ \A c \in Standing(copy[s].log \cup events) : c.since = e.since => c = e
    /\ e.op = "modify" /\ ~IsReset(e) =>
            /\ row.tracked = copy[s].row.tracked /\ row.adj = copy[s].row.adj
            /\ "status" \in e.cols => row.status # "active" /\ copy[s].row.status # "active"
RowFits(L, row) ==
    /\ Shaped(row) /\ Fits(L, Running(row), row.tracked, row.adj)
    /\ row.status = "active" => row.since # 0

LEMMA StampedRow ==
    ASSUME NEW s, NEW row, Shaped(row)
    PROVE  LET m == Stamped(s, row)
           IN  /\ m.status = row.status /\ m.since = row.since /\ m.tracked = row.tracked
               /\ m.adj = row.adj /\ m.modified = Clock(s)
<1>1. /\ "status" \in DOMAIN row /\ "since" \in DOMAIN row /\ "tracked" \in DOMAIN row
      /\ "adj" \in DOMAIN row /\ "modified" \in DOMAIN row
    BY DEF Shaped
<1> QED
    BY <1>1 DEF Stamped

\* What a store holds before an edit.
LEMMA Held ==
    ASSUME Ready, LedgerInv, NEW s \in Stores, Has(s), Sheets(s)
    PROVE  LET L == copy[s].log  old == copy[s].row
           IN  /\ Fits(L, Running(old), old.tracked, old.adj) /\ Tells(copy[s])
               /\ Book(L) /\ L \subseteq Sound /\ Settled(L)
               /\ copy[s] \in Copies /\ Backed(s)
<1> DEFINE c == copy[s]
           L == c.log
           r == Running(c.row)
<1>0. Clean(L) /\ Backed(s)
    BY DEF LedgerInv, Sheets
<1>1. c \in Copies
    BY DEF Copies, Rows
<1>2. Book(L) /\ Counted(c) /\ CopyOK(c) /\ L # {} /\ Edits(L, "status") # {}
    BY <1>0, <1>1, CopyBook
<1>3. L \subseteq Sound
    BY <1>0, <1>1, SoundKnown
<1>4. Settled(L)
    BY <1>3, SettledPart DEF LedgerInv
<1>5. Honest(c)
    BY <1>0, <1>1 DEF LedgerInv
<1>6. Rooted(L) /\ Tells(c) /\ Explained(c)
    BY <1>5 DEF Honest
<1>7. Tracked(L, r) \in Nat /\ Adjusted(L) \in Nat
    BY <1>2, <1>4, <1>6, PartsNatural
<1>8. c.row.tracked \in Int /\ c.row.adj \in Int
    BY <1>2 DEF Counted, CountedRow
<1>9. c.row.tracked - Tracked(L, r) = Ahead(L) /\ c.row.adj - Adjusted(L) = 0
    BY <1>6 DEF Explained, Beyond, Ahead
<1>10. Ahead(L) \in Int
    BY StoresAssumption DEF Ahead
<1>11. Runs(L) = r
    BY <1>6 DEF Tells
<1>12. c.row.tracked = Tracked(L, r) + Ahead(L) /\ c.row.adj = Adjusted(L)
    <2> HIDE DEF L, r, c
    <2>1. PICK x, y, p, q, z : x = c.row.tracked /\ y = Tracked(L, r) /\ p = c.row.adj
                              /\ q = Adjusted(L) /\ z = Ahead(L)
        OBVIOUS
    <2>2. x - y = z /\ p - q = 0 /\ x \in Int /\ y \in Int /\ p \in Int /\ q \in Int /\ z \in Int
        BY <1>7, <1>8, <1>9, <1>10, <2>1
    <2>3. x = y + z /\ p = q
        BY <2>2
    <2> QED
        BY <2>1, <2>3
<1>13. Fits(L, r, c.row.tracked, c.row.adj)
    <2> HIDE DEF L, r, c
    <2>1. Tracked(L, r) \in Int /\ Adjusted(L) \in Int
        BY <1>7
    <2> QED
        BY <1>2, <1>6, <1>11, <1>12, <2>1 DEF Fits
<1> QED
    BY <1>0, <1>1, <1>2, <1>3, <1>4, <1>6, <1>13

\* A log and an event of now.
LEMMA Continues ==
    ASSUME NEW L, Book(L), NEW e, Sheet(L \cup {e}), NEW instant \in Nat, \A x \in L : x.at < instant, e.at = instant,
           Entry(e), Roots(L, e)
    PROVE  Extends(L, e) /\ Book(L \cup {e})
<1> DEFINE M == L \cup {e}
<1>1. Book(M)
    <2>1. \A x \in M : Entry(x)
        BY DEF Book
    <2> HIDE DEF M
    <2>2. Sheet(M)
        BY DEF M
    <2> QED
        BY <2>1, <2>2, SheetBook
<1>2. Later(e, L)
    <2>1. ASSUME NEW x \in L PROVE Place(x) < Place(e)
        <3>1. x \in M /\ e \in M /\ x.at < e.at
            OBVIOUS
        <3> HIDE DEF M
        <3> QED
            BY <1>1, <3>1, BookPlaces
    <2> QED
        BY <2>1 DEF Later
<1> QED
    BY <1>1, <1>2 DEF Extends

\* From a log that fits the row an edit makes to what the edit leaves.
LEMMA Posts ==
    ASSUME Ready, LedgerInv, NEW s \in Stores, Has(s), Sheets(s),
           NEW row, NEW events, Edit(s, row, events), RowFits(copy[s].log \cup events, row),
           NEW e \in events, Newest(s, events, e), Granted(s, e), Undoable(s, row, events, e)
    PROVE  Posted(s)
<1> DEFINE M == copy[s].log \cup events
           m == Stamped(s, row)
<1>1. /\ copy'[s] = [row |-> m, log |-> M] /\ last'[s] = [ev |-> Last(events), before |-> copy[s].row]
    BY EditMoves DEF Ready
<1>2. m.status = row.status /\ m.since = row.since /\ m.tracked = row.tracked /\ m.adj = row.adj /\ m.modified = Clock(s)
    BY StampedRow DEF RowFits
<1>3. Book(M) /\ Rooted(M) /\ Runs(M) = Running(row) /\ Tracked(M, Running(row)) \in Int /\ Adjusted(M) \in Int
      /\ row.tracked = Tracked(M, Running(row)) + Ahead(M) /\ row.adj = Adjusted(M)
    BY DEF Fits, RowFits
<1>4. Last(events) = e
    <2>1. Book(events)
        BY <1>3, PartOfBook
    <2>2. \A x \in events : Place(x) \in Int
        BY <2>1, BookNumbers
    <2>3. \A x \in events : Place(x) <= Place(e)
        BY <2>2 DEF Newest
    <2> QED
        BY <2>1, <2>3, EndsWhich
<1>5. Clock(s) \in Nat /\ e \in M /\ e.at = Clock(s)
    BY ClockType DEF Ready, Newest
<1>7. copy'[s].row = m /\ copy'[s].log = M
    BY <1>1
<1>8. last'[s].ev = e /\ last'[s].before = copy[s].row
    BY <1>1, <1>4
<1>9. Tells(copy[s])
    BY Held
<1>10. \A x \in M \ {e} : Place(x) < Place(e)
    <2>1. ASSUME NEW x \in M \ {e} PROVE Place(x) < Place(e)
        <3>1. CASE x \in events
            BY <3>1 DEF Newest
        <3>2. CASE x \in copy[s].log
            <4>1. x.at < e.at /\ x \in M
                BY <3>2, <1>5 DEF Sheets
            <4> QED
                BY <1>3, <1>5, <4>1, BookPlaces
        <3> QED
            BY <3>1, <3>2
    <2> QED
        BY <2>1
<1>11. Running(m) = Running(row)
    BY <1>2 DEF Running
<1>12. Standing(M) = Standing(copy[s].log \cup events)
    OBVIOUS
<1> HIDE DEF M, m
<1>13. Honest(copy'[s])
    <2>1. Tells(copy'[s])
        BY <1>2, <1>3, <1>7, <1>11 DEF Tells, RowFits
    <2>3. Explained(copy'[s])
        <3>1. Ahead(M) \in Int
            BY StoresAssumption DEF Ahead
        <3>2. row.tracked - Tracked(M, Running(row)) = Ahead(M) /\ row.adj - Adjusted(M) = 0
            BY <1>3, <3>1
        <3>3. Beyond(copy'[s]) = [tracked |-> row.tracked - Tracked(M, Running(row)), adj |-> row.adj - Adjusted(M)]
            BY <1>2, <1>7, <1>11 DEF Beyond
        <3> QED
            BY <1>7, <3>2, <3>3 DEF Explained, Ahead
    <2> QED
        BY <1>3, <1>7, <2>1, <2>3 DEF Honest
<1>14. Backed(s)'
    <2>1. e.op \in Closing =>
                /\ e.since = Running(copy[s].row)
                /\ copy[s].row.status = "active" => copy[s].row.since # 0
                /\ m.tracked = copy[s].row.tracked + (IF e.since = 0 THEN 0 ELSE Secs(e.since, e.at))
                /\ \A c \in Standing(M) : c.since = e.since => c = e
        BY <1>2, <1>9, <1>12 DEF Tells, Undoable
    <2>2. e.op = "modify" /\ ~IsReset(e) =>
                /\ m.tracked = copy[s].row.tracked /\ m.adj = copy[s].row.adj
                /\ "status" \in e.cols => m.status # "active" /\ copy[s].row.status # "active"
        BY <1>2 DEF Undoable
    <2> QED
        BY <1>5, <1>7, <1>8, <1>10, <2>1, <2>2 DEF Backed
<1>15. \A x \in copy'[s].log \ copy[s].log : x \in events /\ Entry(x)
    BY <1>3, <1>7 DEF Book, M
<1>16. \A x \in events : x = e \/ (~IsRefund(x) /\ ~IsReset(x))
    BY DEF Newest
<1> QED
    BY <1>13, <1>14, <1>15, <1>16 DEF Posted, Granted

-----------------------------------------------------------------------------
(* The edits that move no time *)

LEMMA LogAfter ==
    ASSUME StateOK, NEW s \in Stores, NEW row, NEW events, Edit(s, row, events)
    PROVE  copy'[s].log = copy[s].log \cup events
<1>1. /\ copy'[s] = [row |-> Stamped(s, row), log |-> copy[s].log \cup events]
      /\ last'[s] = [ev |-> Last(events), before |-> copy[s].row]
    BY EditMoves
<1> QED
    BY <1>1

LEMMA OneExtends ==
    ASSUME Ready, LedgerInv, NEW s \in Stores, Has(s), Sheets(s),
           NEW row, NEW e, Edit(s, row, {e}), e.at = Clock(s), Entry(e), Roots(copy[s].log, e)
    PROVE  Extends(copy[s].log, e) /\ Book(copy[s].log \cup {e})
<1>1. copy'[s].log = copy[s].log \cup {e}
    BY LogAfter DEF Ready
<1>2. Sheet(copy[s].log \cup {e}) /\ \A x \in copy[s].log : x.at < Clock(s)
    BY <1>1 DEF Sheets
<1>3. Book(copy[s].log)
    BY Held
<1>4. Clock(s) \in Nat
    BY ClockType DEF Ready
<1> QED
    BY <1>2, <1>3, <1>4, Continues

\* An edit of one event leaves what an edit must leave.
LEMMA OnePosts ==
    ASSUME Ready, LedgerInv, NEW s \in Stores, Has(s), Sheets(s),
           NEW row, NEW e, Edit(s, row, {e}), e.at = Clock(s), RowFits(copy[s].log \cup {e}, row),
           Granted(s, e), Undoable(s, row, {e}, e)
    PROVE  Posted(s)
<1>1. PICK events : events = {e}
    OBVIOUS
<1>2. Newest(s, events, e)
    BY <1>1 DEF Newest
<1>3. /\ e \in events /\ Edit(s, row, events)
      /\ RowFits(copy[s].log \cup events, row) /\ Undoable(s, row, events, e)
    BY <1>1
<1> QED
    BY <1>2, <1>3, Posts

\* Nothing in what a log counts stands for no interval.
LEMMA NoneStands ==
    ASSUME NEW L, NEW c \in Standing(L)
    PROVE  c.since # 0
BY DEF Standing, Closes

\* An edit that moves no time.
LEMMA IdlePosts ==
    ASSUME Ready, LedgerInv, NEW s \in Stores, Has(s), Sheets(s),
           NEW row, Shaped(row), NEW e, Edit(s, row, {e}), e.at = Clock(s), e.since = 0,
           e.op \notin {"start", "stop", "adjust_tracked"}, ~IsReset(e), ~IsRefund(e),
           IsReopen(e) => /\ e.secs = 0
                          /\ \E c \in copy[s].log : c.op \in Closing /\ c.id = e.undone /\ c.since = 0,
           e.op \in Closing \/ Touches(e, "status") => Running(copy[s].row) = 0,
           Running(row) = Running(copy[s].row),
           row.tracked = copy[s].row.tracked, row.adj = copy[s].row.adj,
           row.status = "active" => row.since # 0
    PROVE  Posted(s)
<1> DEFINE old == copy[s].row
           L == copy[s].log
           r == Running(old)
<1>1. Fits(L, r, old.tracked, old.adj) /\ Book(L)
    BY Held
<1>2. Entry(e)
    BY DEF Entry, IsAdjust
<1>3. ~IsClose(e) /\ ~IsOpening(e) /\ ~IsCorrection(e)
    BY DEF IsClose, IsOpening, IsCorrection, IsAdjust
<1>4. Roots(L, e)
    <2>1. IsReopen(e) => \E c \in L : c.op \in Closing /\ c.id = e.undone /\ c.since = e.since /\ c.at < e.at
        BY DEF Sheets
    <2> QED
        BY <1>3, <2>1 DEF Roots
<1>5. Extends(L, e)
    BY <1>2, <1>4, OneExtends
<1>6. IsIdle(L, e)
    <2>1. ASSUME IsReopen(e), NEW d \in Closes(L), d.id = e.undone PROVE FALSE
        <3>1. PICK c \in L : c.op \in Closing /\ c.id = e.undone /\ c.since = 0
            BY <2>1
        <3>2. d \in L /\ d.since # 0
            BY DEF Closes
        <3>3. d = c
            BY <1>1, <2>1, <3>1, <3>2, BookIds
        <3> QED
            BY <3>1, <3>2, <3>3
    <2> QED
        BY <1>3, <2>1 DEF IsIdle
<1>7. Touches(e, "status") => Opened(e) = r
    BY DEF Opened
<1>8. Fits(L \cup {e}, r, old.tracked, old.adj)
    BY <1>1, <1>3, <1>5, <1>6, <1>7, FitIdle
<1>9. Fits(L \cup {e}, Running(row), row.tracked, row.adj)
    BY <1>8
<1>10. Undoable(s, row, {e}, e)
    <2>1. old.tracked \in Int
        BY <1>1, FitType
    <2>2. \A c \in Standing(copy[s].log \cup {e}) : c.since # 0
        BY NoneStands
    <2>3. old.tracked + 0 = old.tracked
        BY <2>1
    <2>4. e.op = "modify" /\ "status" \in e.cols => row.status # "active" /\ old.status # "active"
        <3>1. e.op = "modify" /\ "status" \in e.cols => r = 0
            BY DEF Touches
        <3>2. old.status = "active" => old.since # 0
            BY Held DEF Tells
        <3> QED
            BY <3>1, <3>2 DEF Running
    <2> QED
        BY <2>2, <2>3, <2>4, Zenon DEF Undoable
<1>11. RowFits(L \cup {e}, row) /\ Granted(s, e)
    BY <1>9 DEF RowFits, Granted
<1> QED
    BY <1>10, <1>11, OnePosts

LEMMA ReopenPosts ==
    ASSUME Ready, LedgerInv, NEW s \in Stores, Has(s), Sheets(s), Reopen(s, copy[s].row)
    PROVE  Posted(s)
<1> DEFINE old == copy[s].row
           row == [old EXCEPT !.status = "pending"]
           e == Logged(s, "reopen")
<1>1. Edit(s, row, {e}) /\ ~Open(old)
    BY DEF Reopen
<1>2. e.op = "reopen" /\ e.at = Clock(s) /\ e.since = 0 /\ e.of = "none"
    BY LoggedFields
<1>3. row = [old EXCEPT !.status = "pending"]
    OBVIOUS
<1> HIDE DEF row, e
<1>4. old = Made(old, old.status, old.since, old.title, old.claim, old.tracked, old.adj, old.tags)
    BY OldType DEF Ready
<1>5. row = Made(old, "pending", old.since, old.title, old.claim, old.tracked, old.adj, old.tags)
    BY <1>3, <1>4 DEF Made
<1>6. Shaped(row) /\ row.status = "pending" /\ row.tracked = old.tracked /\ row.adj = old.adj
    BY <1>5 DEF Shaped, Made
<1>7. Running(old) = 0 /\ Running(row) = 0
    BY <1>1, <1>6 DEF Running, Open
<1>8. /\ e.op \notin {"start", "stop", "adjust_tracked"} /\ ~IsReset(e) /\ ~IsRefund(e) /\ ~IsReopen(e)
    BY <1>2 DEF IsReset, IsRefund, IsReopen
<1> QED
    BY <1>1, <1>2, <1>6, <1>7, <1>8, IdlePosts

LEMMA ClaimPosts ==
    ASSUME Ready, LedgerInv, NEW s \in Stores, Has(s), Sheets(s), Claim(s, copy[s].row)
    PROVE  Posted(s)
<1> DEFINE old == copy[s].row
           row == [old EXCEPT !.claim = s]
           e == Logged(s, IF old.claim = s THEN "renew" ELSE "claim")
<1>1. Edit(s, row, {e})
    BY DEF Claim
<1>2. e.op \in {"renew", "claim"} /\ e.at = Clock(s) /\ e.since = 0 /\ e.of = "none"
    BY LoggedFields
<1>3. row = [old EXCEPT !.claim = s]
    OBVIOUS
<1> HIDE DEF row, e
<1>4. old = Made(old, old.status, old.since, old.title, old.claim, old.tracked, old.adj, old.tags)
    BY OldType DEF Ready
<1>5. row = Made(old, old.status, old.since, old.title, s, old.tracked, old.adj, old.tags)
    BY <1>3, <1>4 DEF Made
<1>6. /\ Shaped(row) /\ row.status = old.status /\ row.since = old.since
      /\ row.tracked = old.tracked /\ row.adj = old.adj
    BY <1>5 DEF Shaped, Made
<1>7. Running(row) = Running(old) /\ (row.status = "active" => row.since # 0)
    BY <1>6, Held DEF Running, Tells
<1>8. /\ e.op \notin {"start", "stop", "adjust_tracked"} /\ ~IsReset(e) /\ ~IsRefund(e) /\ ~IsReopen(e)
      /\ e.op \notin Closing /\ ~Touches(e, "status")
    BY <1>2 DEF IsReset, IsRefund, IsReopen, Closing, Touches
<1> QED
    BY <1>1, <1>2, <1>6, <1>7, <1>8, IdlePosts

LEMMA ReleasePosts ==
    ASSUME Ready, LedgerInv, NEW s \in Stores, Has(s), Sheets(s), Release(s, copy[s].row)
    PROVE  Posted(s)
<1> DEFINE old == copy[s].row
           row == [old EXCEPT !.claim = 0]
           e == Logged(s, "release")
<1>1. Edit(s, row, {e})
    BY DEF Release
<1>2. e.op = "release" /\ e.at = Clock(s) /\ e.since = 0 /\ e.of = "none"
    BY LoggedFields
<1>3. row = [old EXCEPT !.claim = 0]
    OBVIOUS
<1> HIDE DEF row, e
<1>4. old = Made(old, old.status, old.since, old.title, old.claim, old.tracked, old.adj, old.tags)
    BY OldType DEF Ready
<1>5. row = Made(old, old.status, old.since, old.title, 0, old.tracked, old.adj, old.tags)
    BY <1>3, <1>4 DEF Made
<1>6. /\ Shaped(row) /\ row.status = old.status /\ row.since = old.since
      /\ row.tracked = old.tracked /\ row.adj = old.adj
    BY <1>5 DEF Shaped, Made
<1>7. Running(row) = Running(old) /\ (row.status = "active" => row.since # 0)
    BY <1>6, Held DEF Running, Tells
<1>8. /\ e.op \notin {"start", "stop", "adjust_tracked"} /\ ~IsReset(e) /\ ~IsRefund(e) /\ ~IsReopen(e)
      /\ e.op \notin Closing /\ ~Touches(e, "status")
    BY <1>2 DEF IsReset, IsRefund, IsReopen, Closing, Touches
<1> QED
    BY <1>1, <1>2, <1>6, <1>7, <1>8, IdlePosts

LEMMA RenamePosts ==
    ASSUME Ready, LedgerInv, NEW s \in Stores, Has(s), Sheets(s), NEW title, Rename(s, copy[s].row, title)
    PROVE  Posted(s)
<1> DEFINE old == copy[s].row
           row == [old EXCEPT !.title = title]
           e == [Logged(s, "modify") EXCEPT !.cols = {"title"}]
<1>1. Edit(s, row, {e})
    BY DEF Rename
<1>2. e.op = "modify" /\ e.at = Clock(s) /\ e.since = 0 /\ e.of = "none" /\ e.cols = {"title"}
    BY LoggedFields
<1>3. row = [old EXCEPT !.title = title]
    OBVIOUS
<1> HIDE DEF row, e
<1>4. old = Made(old, old.status, old.since, old.title, old.claim, old.tracked, old.adj, old.tags)
    BY OldType DEF Ready
<1>5. row = Made(old, old.status, old.since, title, old.claim, old.tracked, old.adj, old.tags)
    BY <1>3, <1>4 DEF Made
<1>6. /\ Shaped(row) /\ row.status = old.status /\ row.since = old.since
      /\ row.tracked = old.tracked /\ row.adj = old.adj
    BY <1>5 DEF Shaped, Made
<1>7. Running(row) = Running(old) /\ (row.status = "active" => row.since # 0)
    BY <1>6, Held DEF Running, Tells
<1>8. /\ e.op \notin {"start", "stop", "adjust_tracked"} /\ ~IsReset(e) /\ ~IsRefund(e) /\ ~IsReopen(e)
      /\ e.op \notin Closing /\ ~Touches(e, "status")
    BY <1>2 DEF IsReset, IsRefund, IsReopen, Closing, Touches
<1> QED
    BY <1>1, <1>2, <1>6, <1>7, <1>8, IdlePosts

LEMMA AddTagPosts ==
    ASSUME Ready, LedgerInv, NEW s \in Stores, Has(s), Sheets(s), NEW tag, AddTag(s, copy[s].row, tag)
    PROVE  Posted(s)
<1> DEFINE old == copy[s].row
           row == [old EXCEPT !.tags = old.tags \cup {tag}]
           e == [Logged(s, "tag.add") EXCEPT !.tag = tag]
<1>1. Edit(s, row, {e})
    BY DEF AddTag
<1>2. e.op = "tag.add" /\ e.at = Clock(s) /\ e.since = 0 /\ e.of = "none"
    BY LoggedFields
<1>3. row = [old EXCEPT !.tags = old.tags \cup {tag}]
    OBVIOUS
<1> HIDE DEF row, e
<1>4. old = Made(old, old.status, old.since, old.title, old.claim, old.tracked, old.adj, old.tags)
    BY OldType DEF Ready
<1>5. row = Made(old, old.status, old.since, old.title, old.claim, old.tracked, old.adj, old.tags \cup {tag})
    BY <1>3, <1>4 DEF Made
<1>6. /\ Shaped(row) /\ row.status = old.status /\ row.since = old.since
      /\ row.tracked = old.tracked /\ row.adj = old.adj
    BY <1>5 DEF Shaped, Made
<1>7. Running(row) = Running(old) /\ (row.status = "active" => row.since # 0)
    BY <1>6, Held DEF Running, Tells
<1>8. /\ e.op \notin {"start", "stop", "adjust_tracked"} /\ ~IsReset(e) /\ ~IsRefund(e) /\ ~IsReopen(e)
      /\ e.op \notin Closing /\ ~Touches(e, "status")
    BY <1>2 DEF IsReset, IsRefund, IsReopen, Closing, Touches
<1> QED
    BY <1>1, <1>2, <1>6, <1>7, <1>8, IdlePosts

LEMMA RemoveTagPosts ==
    ASSUME Ready, LedgerInv, NEW s \in Stores, Has(s), Sheets(s), NEW tag, RemoveTag(s, copy[s].row, tag)
    PROVE  Posted(s)
<1> DEFINE old == copy[s].row
           row == [old EXCEPT !.tags = old.tags \ {tag}]
           e == [Logged(s, "tag.remove") EXCEPT !.tag = tag]
<1>1. Edit(s, row, {e})
    BY DEF RemoveTag
<1>2. e.op = "tag.remove" /\ e.at = Clock(s) /\ e.since = 0 /\ e.of = "none"
    BY LoggedFields
<1>3. row = [old EXCEPT !.tags = old.tags \ {tag}]
    OBVIOUS
<1> HIDE DEF row, e
<1>4. old = Made(old, old.status, old.since, old.title, old.claim, old.tracked, old.adj, old.tags)
    BY OldType DEF Ready
<1>5. row = Made(old, old.status, old.since, old.title, old.claim, old.tracked, old.adj, old.tags \ {tag})
    BY <1>3, <1>4 DEF Made
<1>6. /\ Shaped(row) /\ row.status = old.status /\ row.since = old.since
      /\ row.tracked = old.tracked /\ row.adj = old.adj
    BY <1>5 DEF Shaped, Made
<1>7. Running(row) = Running(old) /\ (row.status = "active" => row.since # 0)
    BY <1>6, Held DEF Running, Tells
<1>8. /\ e.op \notin {"start", "stop", "adjust_tracked"} /\ ~IsReset(e) /\ ~IsRefund(e) /\ ~IsReopen(e)
      /\ e.op \notin Closing /\ ~Touches(e, "status")
    BY <1>2 DEF IsReset, IsRefund, IsReopen, Closing, Touches
<1> QED
    BY <1>1, <1>2, <1>6, <1>7, <1>8, IdlePosts

LEMMA UndoTagPosts ==
    ASSUME Ready, LedgerInv, NEW s \in Stores, Has(s), Sheets(s), UndoTag(s, copy[s].row)
    PROVE  Posted(s)
<1> DEFINE old == copy[s].row
           before == last[s].before
           row == [old EXCEPT !.tags = before.tags]
           e == [UndoEvent(s) EXCEPT !.tag = IF before.tags = old.tags THEN 0 ELSE last[s].ev.tag]
<1>1. Edit(s, row, {e}) /\ last[s].ev.op \in {"tag.add", "tag.remove"}
    BY DEF UndoTag
<1>2. e.op = "undo" /\ e.at = Clock(s) /\ e.since = 0 /\ e.of = last[s].ev.op
    BY LoggedFields DEF UndoEvent
<1>3. row = [old EXCEPT !.tags = before.tags]
    OBVIOUS
<1> HIDE DEF row, e
<1>4. old = Made(old, old.status, old.since, old.title, old.claim, old.tracked, old.adj, old.tags)
    BY OldType DEF Ready
<1>5. row = Made(old, old.status, old.since, old.title, old.claim, old.tracked, old.adj, before.tags)
    BY <1>3, <1>4 DEF Made
<1>6. /\ Shaped(row) /\ row.status = old.status /\ row.since = old.since
      /\ row.tracked = old.tracked /\ row.adj = old.adj
    BY <1>5 DEF Shaped, Made
<1>7. Running(row) = Running(old) /\ (row.status = "active" => row.since # 0)
    BY <1>6, Held DEF Running, Tells
<1>8. /\ e.op \notin {"start", "stop", "adjust_tracked"} /\ ~IsReset(e) /\ ~IsRefund(e) /\ ~IsReopen(e)
      /\ e.op \notin Closing /\ ~Touches(e, "status")
    BY <1>1, <1>2 DEF IsReset, IsRefund, IsReopen, Closing, Touches
<1> QED
    BY <1>1, <1>2, <1>6, <1>7, <1>8, IdlePosts

-----------------------------------------------------------------------------
(* The edits that move time *)

\* A start and a stop.
LEMMA StartPosts ==
    ASSUME Ready, LedgerInv, NEW s \in Stores, Has(s), Sheets(s), Start(s, copy[s].row)
    PROVE  Posted(s)
<1> DEFINE old == copy[s].row
           L == copy[s].log
           row == [old EXCEPT !.status = "active", !.since = Clock(s)]
           e == [Logged(s, "start") EXCEPT !.since = Clock(s)]
<1>1. Edit(s, row, {e}) /\ old.status = "pending"
    BY DEF Start
<1>2. e.op = "start" /\ e.at = Clock(s) /\ e.since = Clock(s) /\ e.of = "none"
    BY LoggedFields
<1>3. row = [old EXCEPT !.status = "active", !.since = Clock(s)]
    OBVIOUS
<1> HIDE DEF row, e
<1>4. old = Made(old, old.status, old.since, old.title, old.claim, old.tracked, old.adj, old.tags)
    BY OldType DEF Ready
<1>5. row = Made(old, "active", Clock(s), old.title, old.claim, old.tracked, old.adj, old.tags)
    BY <1>3, <1>4 DEF Made
<1>6. /\ Shaped(row) /\ row.status = "active" /\ row.since = Clock(s)
      /\ row.tracked = old.tracked /\ row.adj = old.adj
    BY <1>5 DEF Shaped, Made
<1>7. Running(old) = 0 /\ Running(row) = e.since
    BY <1>1, <1>2, <1>6 DEF Running
<1>8. Clock(s) \in Nat /\ Clock(s) # 0
    BY ClockType, LogAssumption DEF Ready
<1>9. /\ ~IsReset(e) /\ ~IsRefund(e) /\ ~IsReopen(e) /\ ~IsAdjust(e) /\ ~IsClose(e) /\ ~IsCorrection(e)
      /\ e.op \notin Closing /\ e.op # "modify"
    BY <1>2 DEF IsReset, IsRefund, IsReopen, IsAdjust, IsClose, IsCorrection, Closing
<1>10. Entry(e) /\ Roots(L, e)
    BY <1>2, <1>9 DEF Entry, Roots
<1>11. Extends(L, e)
    BY <1>1, <1>2, <1>10, OneExtends
<1>12. \A x \in L : x.at < e.at
    BY <1>2 DEF Sheets
<1>13. Fits(L, 0, old.tracked, old.adj)
    BY <1>7, Held
<1>14. Fits(L \cup {e}, e.since, old.tracked, old.adj)
    <2> HIDE DEF L, old
    <2> QED
        BY <1>2, <1>9, <1>11, <1>12, <1>13, FitStart
<1>15. RowFits(L \cup {e}, row)
    BY <1>6, <1>7, <1>8, <1>14 DEF RowFits
<1>16. Granted(s, e) /\ Undoable(s, row, {e}, e)
    BY <1>9 DEF Granted, Undoable
<1> QED
    BY <1>1, <1>2, <1>15, <1>16, OnePosts

\* A close of an interval that runs.
LEMMA ClosePosts ==
    ASSUME Ready, LedgerInv, NEW s \in Stores, Has(s), Sheets(s),
           NEW row, Shaped(row), NEW e, Edit(s, row, {e}), e.at = Clock(s), e.op \in Closing, e.of = "none",
           e.since = Running(copy[s].row), copy[s].row.status = "active",
           e.op = "stop" => e.secs = Secs(e.since, e.at),
           row.status # "active", row.tracked = copy[s].row.tracked + Secs(e.since, e.at),
           row.adj = copy[s].row.adj
    PROVE  Posted(s)
<1> DEFINE old == copy[s].row
           L == copy[s].log
           r == Running(old)
<1>1. Fits(L, r, old.tracked, old.adj) /\ Tells(copy[s])
    BY Held
<1>2. e.since # 0 /\ IsClose(e)
    BY <1>1 DEF Tells, Running, IsClose
<1>3. /\ ~IsReset(e) /\ ~IsRefund(e) /\ ~IsReopen(e) /\ ~IsAdjust(e) /\ ~IsOpening(e) /\ ~IsCorrection(e)
      /\ e.op # "modify" /\ e.op # "start"
    BY DEF IsReset, IsRefund, IsReopen, IsAdjust, IsOpening, IsCorrection, Closing
<1>4. Entry(e)
    BY <1>2, <1>3 DEF Entry
<1>5. Roots(L, e)
    <2>1. Runs(L) = r /\ Book(L) /\ Rooted(L) /\ Edits(L, "status") # {}
        BY <1>1 DEF Fits
    <2>2. Runs(L) # 0
        BY <1>2, <2>1
    <2>3. LET l == Last(Edits(L, "status")) IN l \in L /\ IsOpening(l) /\ l.since = Runs(L)
        BY <2>1, <2>2, RunsIs
    <2>4. \E o \in L : o.op = "start" /\ o.at = e.since
        BY <2>1, <2>3 DEF Rooted
    <2> QED
        BY <1>3, <2>4 DEF Roots
<1>6. Extends(L, e)
    BY <1>4, <1>5, OneExtends
<1>7. /\ Length(e) \in Nat /\ Fits(L \cup {e}, 0, old.tracked + Length(e), old.adj)
      /\ \A c \in Standing(L \cup {e}) : c.since = e.since => c = e
    <2> HIDE DEF L, old, r
    <2> QED
        BY <1>1, <1>2, <1>3, <1>6, FitClose DEF r, old
<1>8. Length(e) = Secs(e.since, e.at)
    BY DEF Length
<1>9. Running(row) = 0
    BY DEF Running
<1>10. Fits(L \cup {e}, Running(row), row.tracked, row.adj)
    BY <1>7, <1>8, <1>9
<1>11. RowFits(L \cup {e}, row)
    BY <1>10 DEF RowFits
<1>12. Granted(s, e)
    BY <1>3 DEF Granted
<1>13. Undoable(s, row, {e}, e)
    BY <1>2, <1>3, <1>7 DEF Undoable
<1> QED
    BY <1>11, <1>12, <1>13, OnePosts

LEMMA StopPosts ==
    ASSUME Ready, LedgerInv, NEW s \in Stores, Has(s), Sheets(s), Stop(s, copy[s].row)
    PROVE  Posted(s)
<1> DEFINE old == copy[s].row
           row == [old EXCEPT !.status = "pending", !.since = 0, !.tracked = old.tracked + Elapsed(s, old)]
           e == [Logged(s, "stop") EXCEPT !.since = old.since, !.secs = Elapsed(s, old)]
<1>1. Edit(s, row, {e}) /\ old.status = "active"
    BY DEF Stop
<1>2. e.op = "stop" /\ e.at = Clock(s) /\ e.since = old.since /\ e.secs = Elapsed(s, old) /\ e.of = "none"
    BY LoggedFields
<1>3. row = [old EXCEPT !.status = "pending", !.since = 0, !.tracked = old.tracked + Elapsed(s, old)]
    OBVIOUS
<1> HIDE DEF row, e
<1>4. old = Made(old, old.status, old.since, old.title, old.claim, old.tracked, old.adj, old.tags)
    BY OldType DEF Ready
<1>5. row = Made(old, "pending", 0, old.title, old.claim, old.tracked + Elapsed(s, old), old.adj, old.tags)
    BY <1>3, <1>4 DEF Made
<1>6. Shaped(row) /\ row.status = "pending" /\ row.tracked = old.tracked + Elapsed(s, old) /\ row.adj = old.adj
    BY <1>5 DEF Shaped, Made
<1>7. Elapsed(s, old) = Secs(e.since, e.at) /\ e.since = Running(old)
    BY <1>1, <1>2 DEF Elapsed, Running
<1>8. e.op \in Closing
    BY <1>2 DEF Closing
<1> QED
    BY <1>1, <1>2, <1>6, <1>7, <1>8, ClosePosts

\* Done and cancel close the interval of a task that runs, and any other task too.
LEMMA DonePosts ==
    ASSUME Ready, LedgerInv, NEW s \in Stores, Has(s), Sheets(s),
           NEW op \in {"done", "cancel"}, NEW status \in {"done", "cancelled"},
           Close(s, copy[s].row, op, status)
    PROVE  Posted(s)
<1> DEFINE old == copy[s].row
           row == [old EXCEPT !.status = status, !.since = 0, !.claim = 0,
                              !.tracked = old.tracked + Elapsed(s, old)]
           e == [Logged(s, op) EXCEPT !.since = Running(old)]
<1>1. Edit(s, row, {e})
    BY DEF Close
<1>2. e.op = op /\ e.at = Clock(s) /\ e.since = Running(old) /\ e.of = "none"
    BY LoggedFields
<1>3. row = [old EXCEPT !.status = status, !.since = 0, !.claim = 0,
                        !.tracked = old.tracked + Elapsed(s, old)]
    OBVIOUS
<1> HIDE DEF row, e
<1>4. old = Made(old, old.status, old.since, old.title, old.claim, old.tracked, old.adj, old.tags)
    BY OldType DEF Ready
<1>5. row = Made(old, status, 0, old.title, 0, old.tracked + Elapsed(s, old), old.adj, old.tags)
    BY <1>3, <1>4 DEF Made
<1>6. Shaped(row) /\ row.status = status /\ row.tracked = old.tracked + Elapsed(s, old) /\ row.adj = old.adj
    BY <1>5 DEF Shaped, Made
<1>7. e.op \in Closing /\ e.op # "stop" /\ row.status # "active"
    BY <1>2, <1>6 DEF Closing
<1>8. CASE old.status = "active"
    <2>1. Elapsed(s, old) = Secs(e.since, e.at)
        BY <1>2, <1>8 DEF Elapsed, Running
    <2> QED
        BY <1>1, <1>2, <1>6, <1>7, <1>8, <2>1, ClosePosts
<1>9. CASE old.status # "active"
    <2>1. Running(old) = 0 /\ Running(row) = 0 /\ Elapsed(s, old) = 0
        BY <1>7, <1>9 DEF Running, Elapsed
    <2>2. old.tracked \in Int
        BY OldNumbers DEF Ready, CountedRow
    <2>3. row.tracked = old.tracked
        BY <1>6, <2>1, <2>2
    <2>4. /\ e.op \notin {"start", "stop", "adjust_tracked"} /\ ~IsReset(e) /\ ~IsRefund(e) /\ ~IsReopen(e)
        BY <1>2 DEF IsReset, IsRefund, IsReopen
    <2>5. e.since = 0 /\ row.adj = old.adj
        BY <1>2, <1>6, <2>1
    <2> QED
        BY <1>1, <1>2, <1>6, <1>7, <2>1, <2>3, <2>4, <2>5, IdlePosts
<1> QED
    BY <1>8, <1>9

\* In a log that tells of every close, the task it cancels is not running.
LEMMA CancelByModifyPosts ==
    ASSUME Ready, LedgerInv, NEW s \in Stores, Has(s), Sheets(s), CancelByModify(s, copy[s].row)
    PROVE  Posted(s)
<1> DEFINE old == copy[s].row
           row == [old EXCEPT !.status = "cancelled", !.since = 0, !.claim = 0,
                              !.tracked = old.tracked + Elapsed(s, old)]
           cols == {"status"} \cup IF old.status = "active" THEN {"active_since"} ELSE {}
           e == [Logged(s, "modify") EXCEPT !.cols = cols]
<1>1. Edit(s, row, {e})
    BY DEF CancelByModify
<1>2. e.op = "modify" /\ e.at = Clock(s) /\ e.since = 0 /\ e.of = "none" /\ e.cols = cols
    BY LoggedFields
<1>3. row = [old EXCEPT !.status = "cancelled", !.since = 0, !.claim = 0,
                        !.tracked = old.tracked + Elapsed(s, old)]
    OBVIOUS
<1> HIDE DEF row, e
<1>4. old.status # "active"
    <2>1. e \in copy'[s].log
        BY <1>1, LogAfter DEF Ready
    <2>2. e \notin Blind(copy'[s].log)
        BY DEF Sheets, Clean
    <2> QED
        BY <1>2, <2>1, <2>2 DEF Blind
<1>5. old = Made(old, old.status, old.since, old.title, old.claim, old.tracked, old.adj, old.tags)
    BY OldType DEF Ready
<1>6. row = Made(old, "cancelled", 0, old.title, 0, old.tracked + Elapsed(s, old), old.adj, old.tags)
    BY <1>3, <1>5 DEF Made
<1>7. Shaped(row) /\ row.status = "cancelled" /\ row.tracked = old.tracked + Elapsed(s, old) /\ row.adj = old.adj
    BY <1>6 DEF Shaped, Made
<1>8. Running(old) = 0 /\ Running(row) = 0 /\ Elapsed(s, old) = 0
    BY <1>4, <1>7 DEF Running, Elapsed
<1>9. row.tracked = old.tracked
    <2>1. old.tracked \in Int
        BY OldNumbers DEF Ready, CountedRow
    <2> QED
        BY <1>7, <1>8, <2>1
<1>10. "tracked" \notin cols
    BY <1>4
<1>11. /\ e.op \notin {"start", "stop", "adjust_tracked"} /\ ~IsReset(e) /\ ~IsRefund(e) /\ ~IsReopen(e)
    BY <1>2, <1>10 DEF IsReset, IsRefund, IsReopen
<1> QED
    BY <1>1, <1>2, <1>7, <1>8, <1>9, <1>11, IdlePosts

\* The two calls that write a total.
LEMMA SetTotalPosts ==
    ASSUME Ready, LedgerInv, NEW s \in Stores, Has(s), Sheets(s),
           NEW total \in Totals, SetTotal(s, copy[s].row, total)
    PROVE  Posted(s)
<1> DEFINE old == copy[s].row
           L == copy[s].log
           row == [old EXCEPT !.tracked = total, !.adj = 0]
           e == [Logged(s, "modify") EXCEPT !.cols = {"tracked"}, !.total = total]
<1>1. Edit(s, row, {e}) /\ SetsTotals(scene)
    BY Zenon DEF SetTotal, SetsTotals
<1>2. e.op = "modify" /\ e.at = Clock(s) /\ e.since = 0 /\ e.of = "none" /\ e.cols = {"tracked"} /\ e.total = total
    BY LoggedFields
<1>3. row = [old EXCEPT !.tracked = total, !.adj = 0]
    OBVIOUS
<1> HIDE DEF row, e
<1>4. old = Made(old, old.status, old.since, old.title, old.claim, old.tracked, old.adj, old.tags)
    BY OldType DEF Ready
<1>5. row = Made(old, old.status, old.since, old.title, old.claim, total, 0, old.tags)
    BY <1>3, <1>4 DEF Made
<1>6. /\ Shaped(row) /\ row.status = old.status /\ row.since = old.since
      /\ row.tracked = total /\ row.adj = 0
    BY <1>5 DEF Shaped, Made
<1>7. Running(row) = Running(old) /\ (row.status = "active" => row.since # 0)
    BY <1>6, Held DEF Running, Tells
<1>8. /\ IsReset(e) /\ ~IsRefund(e) /\ ~IsReopen(e) /\ ~IsAdjust(e) /\ ~IsClose(e) /\ ~IsOpening(e)
      /\ e.op \notin Closing /\ ~Touches(e, "status") /\ e.op \notin {"start", "stop"}
    BY <1>2 DEF IsReset, IsRefund, IsReopen, IsAdjust, IsClose, IsOpening, Closing, Touches
<1>9. Entry(e) /\ Roots(L, e)
    BY <1>2, <1>8, StoresAssumption DEF Entry, Roots
<1>10. Extends(L, e)
    BY <1>1, <1>2, <1>9, OneExtends
<1>11. Fits(L, Running(old), old.tracked, old.adj)
    BY Held
<1>12. Fits(L \cup {e}, Running(old), e.total, 0)
    BY <1>8, <1>10, <1>11, FitReset
<1>13. RowFits(L \cup {e}, row)
    BY <1>2, <1>6, <1>7, <1>12 DEF RowFits
<1>14. Granted(s, e) /\ Undoable(s, row, {e}, e)
    BY <1>1, <1>8 DEF Granted, Undoable
<1> QED
    BY <1>1, <1>2, <1>13, <1>14, OnePosts

LEMMA AdjustPosts ==
    ASSUME Ready, LedgerInv, Repayable, NEW s \in Stores, Has(s), Sheets(s),
           NEW delta \in Deltas, Adjust(s, copy[s].row, delta)
    PROVE  Posted(s)
<1> DEFINE old == copy[s].row
           L == copy[s].log
           row == [old EXCEPT !.tracked = old.tracked + delta, !.adj = old.adj + delta]
           e == [Logged(s, "adjust_tracked") EXCEPT !.delta = delta]
<1>1. Edit(s, row, {e})
    BY DEF Adjust
<1>2. e.op = "adjust_tracked" /\ e.at = Clock(s) /\ e.since = 0 /\ e.of = "none" /\ e.delta = delta
    BY LoggedFields
<1>3. row = [old EXCEPT !.tracked = old.tracked + delta, !.adj = old.adj + delta]
    OBVIOUS
<1> HIDE DEF row, e
<1>4. old = Made(old, old.status, old.since, old.title, old.claim, old.tracked, old.adj, old.tags)
    BY OldType DEF Ready
<1>5. row = Made(old, old.status, old.since, old.title, old.claim, old.tracked + delta, old.adj + delta, old.tags)
    BY <1>3, <1>4 DEF Made
<1>6. /\ Shaped(row) /\ row.status = old.status /\ row.since = old.since
      /\ row.tracked = old.tracked + delta /\ row.adj = old.adj + delta
    BY <1>5 DEF Shaped, Made
<1>7. Running(row) = Running(old) /\ (row.status = "active" => row.since # 0)
    BY <1>6, Held DEF Running, Tells
<1>8. /\ ~IsReset(e) /\ ~IsRefund(e) /\ ~IsReopen(e) /\ IsAdjust(e) /\ ~IsClose(e) /\ ~IsOpening(e)
      /\ e.op \notin Closing /\ ~Touches(e, "status") /\ e.op \notin {"start", "stop", "modify"}
    BY <1>2 DEF IsReset, IsRefund, IsReopen, IsAdjust, IsClose, IsOpening, Closing, Touches
<1>9. delta \in Nat
    BY Zenon DEF Repayable
<1>10. Entry(e) /\ Roots(L, e)
    BY <1>2, <1>8, <1>9 DEF Entry, Roots
<1>11. Extends(L, e)
    BY <1>1, <1>2, <1>10, OneExtends
<1>12. Fits(L, Running(old), old.tracked, old.adj)
    BY Held
<1>13. IsIdle(L, e) /\ IsCorrection(e)
    BY <1>8 DEF IsIdle, IsCorrection
<1>14. Amount(L \cup {e}, e) = delta
    BY <1>2, <1>8 DEF Amount
<1>15. Fits(L \cup {e}, Running(old), old.tracked + delta, old.adj + delta)
    BY <1>8, <1>11, <1>12, <1>13, <1>14, FitCorrection
<1>16. RowFits(L \cup {e}, row)
    BY <1>6, <1>7, <1>15 DEF RowFits
<1>17. Granted(s, e) /\ Undoable(s, row, {e}, e)
    BY <1>8 DEF Granted, Undoable
<1> QED
    BY <1>1, <1>2, <1>16, <1>17, OnePosts

-----------------------------------------------------------------------------
(* The undos *)

\* What undo takes back is the newest event of its log.
LEMMA LastIs ==
    ASSUME Ready, LedgerInv, NEW s \in Stores, Has(s), Sheets(s), last[s].ev.op # "import"
    PROVE  LET ev == last[s].ev  L == copy[s].log
           IN  /\ ev \in L /\ ev \in Sound /\ Entry(ev) /\ ~Slow(ev)
               /\ ev.at \in Nat /\ ev.since \in Int
               /\ \A x \in L \ {ev} : Place(x) < Place(ev)
               /\ ev.op \in Closing => Running(copy[s].row) = 0
<1> DEFINE ev == last[s].ev
           L == copy[s].log
<1>1. ev \in L /\ \A x \in L \ {ev} : Place(x) < Place(ev)
    BY Held DEF Backed
<1>2. Book(L) /\ L \subseteq Sound /\ Fits(L, Running(copy[s].row), copy[s].row.tracked, copy[s].row.adj)
    BY Held
<1>3. EventOK(ev) /\ ~Slow(ev) /\ Entry(ev) /\ ev.at \in Nat /\ ev.since \in Int
    BY <1>1, <1>2, BookNumbers
<1>4. Runs(L) = Running(copy[s].row)
    BY <1>2 DEF Fits
<1>5. ev.op \in Closing => Runs(L) = 0
    <2> HIDE DEF ev, L
    <2> QED
        BY <1>1, <1>2, ClosedLast
<1> QED
    BY <1>1, <1>2, <1>3, <1>4, <1>5

\* The undo of a correction, which nothing has been set after.
LEMMA UndoAdjustPosts ==
    ASSUME Ready, LedgerInv, NEW s \in Stores, Has(s), Sheets(s),
           "adjust_tracked" \in scene.undone, UndoAdjust(s, copy[s].row)
    PROVE  Posted(s)
<1> DEFINE old == copy[s].row
           L == copy[s].log
           ev == last[s].ev
           row == [old EXCEPT !.tracked = old.tracked - ev.delta, !.adj = old.adj - ev.delta]
           e == UndoEvent(s)
<1>1. Edit(s, row, {e}) /\ IsAdjust(ev)
    BY DEF UndoAdjust, IsAdjust
<1>2. e.op = "undo" /\ e.at = Clock(s) /\ e.since = 0 /\ e.of = "adjust_tracked" /\ e.undone = ev.id
    BY <1>1, LoggedFields DEF UndoEvent, IsAdjust
<1>3. row = [old EXCEPT !.tracked = old.tracked - ev.delta, !.adj = old.adj - ev.delta]
    OBVIOUS
<1> HIDE DEF row, e
<1>4. old = Made(old, old.status, old.since, old.title, old.claim, old.tracked, old.adj, old.tags)
    BY OldType DEF Ready
<1>5. row = Made(old, old.status, old.since, old.title, old.claim, old.tracked - ev.delta, old.adj - ev.delta, old.tags)
    BY <1>3, <1>4 DEF Made
<1>6. /\ Shaped(row) /\ row.status = old.status /\ row.since = old.since
      /\ row.tracked = old.tracked - ev.delta /\ row.adj = old.adj - ev.delta
    BY <1>5 DEF Shaped, Made
<1>7. Running(row) = Running(old) /\ (row.status = "active" => row.since # 0)
    BY <1>6, Held DEF Running, Tells
<1>8. /\ ~IsReset(e) /\ IsRefund(e) /\ ~IsReopen(e) /\ ~IsAdjust(e) /\ ~IsClose(e) /\ ~IsOpening(e)
      /\ e.op \notin Closing /\ ~Touches(e, "status") /\ e.op \notin {"start", "stop", "modify"}
    BY <1>2 DEF IsReset, IsRefund, IsReopen, IsAdjust, IsClose, IsOpening, Closing, Touches
<1>9. ev \in L /\ Entry(ev)
    <2>1. ev.op # "import"
        BY <1>1 DEF IsAdjust
    <2> QED
        BY <2>1, LastIs
<1>10. Entry(e) /\ Roots(L, e)
    BY <1>1, <1>2, <1>8, <1>9 DEF Entry, Roots
<1>11. Extends(L, e) /\ Book(L \cup {e})
    BY <1>1, <1>2, <1>10, OneExtends
<1>12. Fits(L, Running(old), old.tracked, old.adj)
    BY Held
<1>13. IsIdle(L, e) /\ IsCorrection(e)
    BY <1>8 DEF IsIdle, IsCorrection
<1>14. Amount(L \cup {e}, e) = -ev.delta
    <2> DEFINE M == L \cup {e}
    <2>1. Grows(L, e)
        BY <1>11, <1>12, FitGrows
    <2>2. Book(M) /\ Rooted(M) /\ e \in M /\ ev \in M
        BY <1>9, <2>1 DEF Grows
    <2>3. LET d == Refunded(M, e)
          IN  {x \in M : IsAdjust(x) /\ x.id = e.undone} = {d}
        BY <1>8, <2>2, RefundIs
    <2>4. ev \in {x \in M : IsAdjust(x) /\ x.id = e.undone}
        BY <1>1, <1>2, <2>2
    <2> HIDE DEF M
    <2>5. Refunded(M, e) = ev
        BY <2>3, <2>4
    <2>6. Amount(M, e) = -ev.delta
        BY <1>8, <2>5 DEF Amount
    <2> QED
        BY <2>6 DEF M
<1>15. old.tracked \in Int /\ old.adj \in Int /\ ev.delta \in Nat
    BY <1>1, <1>9, <1>12, FitType DEF Entry
<1>16. old.tracked + (-ev.delta) = old.tracked - ev.delta /\ old.adj + (-ev.delta) = old.adj - ev.delta
    BY <1>15
<1>17. Fits(L \cup {e}, Running(old), old.tracked + (-ev.delta), old.adj + (-ev.delta))
    BY <1>8, <1>11, <1>12, <1>13, <1>14, FitCorrection
<1>18. RowFits(L \cup {e}, row)
    BY <1>6, <1>7, <1>16, <1>17 DEF RowFits
<1>19. Granted(s, e) /\ Undoable(s, row, {e}, e)
    BY <1>1, <1>2, <1>8 DEF Granted, Undoable
<1> QED
    BY <1>1, <1>2, <1>18, <1>19, OnePosts

\* What a log holds when its newest event is a close that ended an interval.
LEMMA CloseUndone ==
    ASSUME Ready, LedgerInv, NEW s \in Stores, Has(s), Sheets(s), IsClose(last[s].ev)
    PROVE  LET ev == last[s].ev  L == copy[s].log
           IN  /\ ev \in L /\ ev.since \in Nat /\ ev.since < ev.at /\ ev.at \in Nat
               /\ Length(ev) = Secs(ev.since, ev.at)
               /\ ev.since = Running(last[s].before)
               /\ copy[s].row.tracked = last[s].before.tracked + Secs(ev.since, ev.at)
               /\ \A x \in L \ {ev} : Place(x) < Place(ev)
               /\ \A d \in Standing(L) : d.since = ev.since => d = ev
               /\ \E o \in L : o.op = "start" /\ o.at = ev.since
               /\ Running(copy[s].row) = 0
<1> DEFINE ev == last[s].ev
           L == copy[s].log
<1>1. ev.op \in Closing /\ ev.since # 0 /\ ev.op # "import"
    BY DEF IsClose, Closing
<1>2. /\ ev \in L /\ \A x \in L \ {ev} : Place(x) < Place(ev)
      /\ Running(copy[s].row) = 0
    BY <1>1, LastIs
<1>3. Book(L) /\ Fits(L, Running(copy[s].row), copy[s].row.tracked, copy[s].row.adj)
    BY Held
<1>4. Length(ev) = Secs(ev.since, ev.at)
    BY <1>2, <1>3, LengthNatural
<1>5. ev.since < ev.at /\ ev.at \in Nat
    BY <1>2, <1>3, BookNumbers
<1>6. ev.since \in Nat /\ \E o \in L : o.op = "start" /\ o.at = ev.since
    BY <1>2, <1>3, OpenedIs DEF Fits
<1>7. /\ ev.since = Running(last[s].before)
      /\ copy[s].row.tracked = last[s].before.tracked + Secs(ev.since, ev.at)
      /\ \A d \in Standing(L) : d.since = ev.since => d = ev
    BY <1>1, Held DEF Backed
<1> QED
    BY <1>2, <1>4, <1>5, <1>6, <1>7

\* The undo of a stop: it opens the interval again at the instant it began.
LEMMA UndoStopPosts ==
    ASSUME Ready, LedgerInv, Repayable, NEW s \in Stores, Has(s), Sheets(s),
           "stop" \in scene.undone, UndoStop(s, copy[s].row)
    PROVE  Posted(s)
<1> DEFINE old == copy[s].row
           L == copy[s].log
           ev == last[s].ev
           row == [old EXCEPT !.status = "active", !.since = Rebuilt(ev), !.tracked = old.tracked - ev.secs]
           e == [UndoEvent(s) EXCEPT !.since = Rebuilt(ev), !.secs = ev.secs]
<1>1. Edit(s, row, {e}) /\ ev.op = "stop"
    BY DEF UndoStop
<1>2. /\ e.op = "undo" /\ e.at = Clock(s) /\ e.since = Rebuilt(ev) /\ e.of = "stop" /\ e.undone = ev.id
    BY <1>1, LoggedFields DEF UndoEvent
<1>3. row = [old EXCEPT !.status = "active", !.since = Rebuilt(ev), !.tracked = old.tracked - ev.secs]
    OBVIOUS
<1> HIDE DEF row, e
<1>4. old = Made(old, old.status, old.since, old.title, old.claim, old.tracked, old.adj, old.tags)
    BY OldType DEF Ready
<1>5. row = Made(old, "active", Rebuilt(ev), old.title, old.claim, old.tracked - ev.secs, old.adj, old.tags)
    BY <1>3, <1>4 DEF Made
<1>6. /\ Shaped(row) /\ row.status = "active" /\ row.since = Rebuilt(ev)
      /\ row.tracked = old.tracked - ev.secs /\ row.adj = old.adj
    BY <1>5 DEF Shaped, Made
<1>7. IsClose(ev) /\ Entry(ev)
    <2>1. Entry(ev)
        BY <1>1, LastIs
    <2> QED
        BY <1>1, <2>1 DEF Entry, IsClose, Closing
<1>8. /\ ev \in L /\ ev.since \in Nat /\ ev.since < ev.at /\ ev.at \in Nat
      /\ Length(ev) = Secs(ev.since, ev.at)
      /\ \A x \in L \ {ev} : Place(x) < Place(ev)
      /\ \A d \in Standing(L) : d.since = ev.since => d = ev
      /\ \E o \in L : o.op = "start" /\ o.at = ev.since
      /\ Running(old) = 0
    BY <1>7, CloseUndone
<1>9. ev.secs = Secs(ev.since, ev.at) /\ ev.since # 0
    BY <1>1, <1>7 DEF Entry
\* Instants are seconds: the start comes back as it was.
<1>10. Rebuilt(ev) = ev.since
    <2>1. SECOND = 1
        <3>1. scene \in Scenes
            BY DEF Ready, StateOK
        <3> QED
            BY <3>1, Zenon DEF Repayable
    <2>2. ev.at \div 1 = ev.at /\ ev.since \div 1 = ev.since
        BY <1>8
    <2>3. ev.secs = ev.at - ev.since
        BY <1>8, <1>9, <2>1, <2>2 DEF Secs
    <2>4. Rebuilt(ev) = 1 * (ev.at - ev.secs)
        BY <2>1, <2>2 DEF Rebuilt
    <2> QED
        BY <1>8, <2>3, <2>4
<1>11. Running(row) = e.since /\ e.since = ev.since /\ e.since # 0
    BY <1>2, <1>6, <1>9, <1>10 DEF Running
<1>12. /\ ~IsReset(e) /\ ~IsRefund(e) /\ IsReopen(e) /\ ~IsAdjust(e) /\ ~IsClose(e) /\ ~IsCorrection(e)
       /\ e.op \notin Closing /\ e.op \notin {"start", "stop", "modify"}
    BY <1>2 DEF IsReset, IsRefund, IsReopen, IsAdjust, IsClose, IsCorrection, Closing
<1>13. Entry(e) /\ Roots(L, e)
    BY <1>2, <1>7, <1>8, <1>11, <1>12 DEF Entry, Roots, Sheets, IsClose
<1>14. Extends(L, e)
    BY <1>1, <1>2, <1>13, OneExtends
<1>15. Fits(L, 0, old.tracked, old.adj)
    BY <1>8, Held
<1>16. \A x \in L \ {ev} : Place(ev) < Place(x) => ~IsReopen(x) /\ ~IsReset(x)
    <2>1. \A x \in L : Place(x) \in Int
        BY Held, BookNumbers
    <2> QED
        BY <1>8, <2>1
<1>17. Length(ev) \in Nat /\ Fits(L \cup {e}, e.since, old.tracked - Length(ev), old.adj)
    <2>1. ev.id = e.undone /\ ev.since = e.since
        BY <1>2, <1>11
    <2> HIDE DEF L, old, ev
    <2> QED
        BY <1>7, <1>8, <1>11, <1>12, <1>14, <1>15, <1>16, <2>1, FitReopen
<1>18. RowFits(L \cup {e}, row)
    BY <1>6, <1>8, <1>9, <1>10, <1>11, <1>17 DEF RowFits
<1>19. Granted(s, e) /\ Undoable(s, row, {e}, e)
    BY <1>12 DEF Granted, Undoable
<1> QED
    BY <1>1, <1>2, <1>18, <1>19, OnePosts

LEMMA SheetPart ==
    ASSUME NEW L, Sheet(L), NEW S, S \subseteq L
    PROVE  Sheet(S)
<1>1. Logbook(S)
    BY PartOfLog DEF Sheet
<1> QED
    BY <1>1 DEF Sheet

\* An undo of a close that a log still has as the last to move time: the
\* interval runs on, or there was none.
LEMMA FitUndone ==
    ASSUME NEW L, NEW t, NEW a, Fits(L, 0, t, a), NEW e, Extends(L, e), IsReopen(e), ~IsCorrection(e),
           NEW c \in L, c.op \in Closing, c.id = e.undone, c.since = e.since,
           \A x \in L \ {c} : Place(c) < Place(x) => ~IsReopen(x) /\ ~IsReset(x),
           \A d \in Standing(L) : d.since = e.since => d = c
    PROVE  /\ e.since = 0 => Fits(L \cup {e}, 0, t, a)
           /\ e.since # 0 => Length(c) \in Nat /\ Fits(L \cup {e}, e.since, t - Length(c), a)
<1>1. ASSUME e.since = 0 PROVE Fits(L \cup {e}, 0, t, a)
    <2>1. ~IsReset(e) /\ ~IsClose(e) /\ ~IsOpening(e) /\ Opened(e) = 0
        BY <1>1 DEF IsReopen, IsReset, IsClose, IsOpening, Opened
    <2>2. \A d \in Closes(L) : d.id # e.undone
        <3> SUFFICES ASSUME NEW d \in Closes(L), d.id = e.undone PROVE FALSE
            OBVIOUS
        <3>1. d \in L /\ d.since # 0 /\ Book(L)
            BY DEF Closes, Fits
        <3>2. d = c
            BY <3>1, BookIds
        <3> QED
            BY <1>1, <3>1, <3>2
    <2>3. IsIdle(L, e)
        BY <2>1, <2>2 DEF IsIdle
    <2> QED
        BY <2>1, <2>3, FitIdle, Zenon
<1>2. ASSUME e.since # 0 PROVE Length(c) \in Nat /\ Fits(L \cup {e}, e.since, t - Length(c), a)
    <2>1. IsClose(c)
        BY <1>2 DEF IsClose
    <2> QED
        BY <1>2, <2>1, FitReopen
<1> QED
    BY <1>1, <1>2

\* The claim a close ended is renewed first: the log goes on fitting.
LEMMA Renewed ==
    ASSUME NEW L, NEW r, NEW t, NEW a, Fits(L, r, t, a), NEW f, f.op = "renew", f.of = "none", f.since = 0,
           Extends(L, f)
    PROVE  /\ Fits(L \cup {f}, r, t, a) /\ Standing(L \cup {f}) = Standing(L)
           /\ ~IsReopen(f) /\ ~IsReset(f) /\ ~IsRefund(f)
<1>1. /\ ~IsReset(f) /\ ~IsReopen(f) /\ ~IsClose(f) /\ ~IsOpening(f) /\ ~IsCorrection(f) /\ ~IsRefund(f)
      /\ ~Touches(f, "status")
    BY DEF IsReset, IsReopen, IsClose, IsOpening, IsCorrection, IsAdjust, IsRefund, Touches, Closing
<1>2. IsIdle(L, f)
    BY <1>1 DEF IsIdle
<1>3. Fits(L \cup {f}, r, t, a)
    BY <1>1, <1>2, FitIdle
<1>4. Grows(L, f)
    BY FitGrows
<1>5. Standing(L \cup {f}) = Standing(L)
    BY <1>1, <1>4, StandingMore DEF Grows
<1> QED
    BY <1>1, <1>3, <1>5

LEMMA SameInstant ==
    ASSUME NEW e, EventOK(e), ~Slow(e), NEW f, EventOK(f), ~Slow(f), e.at = f.at, f.id < e.id
    PROVE  Place(f) < Place(e)
<1>1. e.at \in Nat /\ e.id \in Nat /\ f.id \in Nat /\ MaxId \in Nat
    BY LogAssumption DEF EventOK
<1>2. Place(e) = 2 * e.at * MaxId + e.id /\ Place(f) = 2 * e.at * MaxId + f.id
    BY DEF Place
<1>3. PICK k : k = 2 * e.at * MaxId
    OBVIOUS
<1>4. k \in Nat
    BY <1>1, <1>3
<1> QED
    BY <1>1, <1>2, <1>3, <1>4

\* An undo that restores a claim writes the renew of it first.
LEMMA RenewedFirst ==
    ASSUME Ready, LedgerInv, NEW s \in Stores, Has(s), Sheets(s),
           NEW row, NEW e, NEW f, NEW events, events = {e} \cup {f}, Edit(s, row, events),
           f.op = "renew", f.id = Id(s, 0), f.at = Clock(s), f.since = 0, f.of = "none",
           e.id = Id(s, 1), e.at = Clock(s), Entry(e), Roots(copy[s].log \cup {f}, e),
           NEW r, NEW t, NEW a, Fits(copy[s].log, r, t, a)
    PROVE  LET L == copy[s].log  K == L \cup {f}
           IN  /\ L \cup events = K \cup {e} /\ Newest(s, events, e)
               /\ Fits(K, r, t, a) /\ Extends(K, e) /\ Standing(K) = Standing(L)
               /\ ~IsReopen(f) /\ ~IsReset(f)
<1> DEFINE L == copy[s].log
           K == L \cup {f}
<1>1. L \cup events = K \cup {e}
    OBVIOUS
<1>2. copy'[s].log = L \cup events
    BY LogAfter DEF Ready
<1>3. Sheet(K \cup {e}) /\ \A x \in L : x.at < Clock(s)
    BY <1>1, <1>2 DEF Sheets
<1>4. Sheet(K)
    BY <1>3, SheetPart
<1>5. Clock(s) \in Nat /\ Id(s, 0) \in Nat /\ Id(s, 1) \in Nat /\ Id(s, 0) < Id(s, 1)
    <2>1. Id(s, 0) \in Nat /\ Id(s, 1) \in Nat /\ Clock(s) \in Nat
        BY ClockType DEF Ready
    <2>2. PICK k : k = 2 * (Clock(s) * (Machines + 1) + s)
        OBVIOUS
    <2>3. Id(s, 0) = k + 0 /\ Id(s, 1) = k + 1
        BY <2>2 DEF Id
    <2>4. k \in Int
        <3>1. Machines + 1 \in Int /\ s \in Int
            BY StoresAssumption DEF Stores
        <3>2. Clock(s) * (Machines + 1) \in Int
            BY <2>1, <3>1
        <3> QED
            BY <2>2, <3>1, <3>2
    <2> QED
        BY <2>1, <2>3, <2>4
<1>6. Entry(f) /\ Roots(L, f)
    BY DEF Entry, Roots, IsReset, IsReopen, IsClose, IsOpening, IsAdjust, IsRefund, Closing
<1>7. Book(L)
    BY DEF Fits
<1>8. Extends(L, f)
    BY <1>3, <1>4, <1>5, <1>6, <1>7, Continues
<1>9. Fits(K, r, t, a) /\ Standing(K) = Standing(L) /\ ~IsReopen(f) /\ ~IsReset(f) /\ ~IsRefund(f)
    <2> HIDE DEF L
    <2> QED
        BY <1>8, Renewed, Zenon DEF L
<1>10. Place(f) < Place(e)
    <2>1. \A x \in K \cup {e} : EventOK(x) /\ ~Slow(x)
        BY <1>3 DEF Sheet, Logbook, CountedEvent
    <2> QED
        BY <1>5, <2>1, SameInstant
<1>11. Book(K \cup {e})
    <2>1. \A x \in K \cup {e} : Entry(x)
        BY <1>6, <1>7 DEF Book
    <2> HIDE DEF K
    <2> QED
        BY <1>3, <2>1, SheetBook
<1>12. Later(e, K)
    <2>1. ASSUME NEW x \in L PROVE Place(x) < Place(e)
        <3>1. x \in K \cup {e} /\ e \in K \cup {e} /\ x.at < e.at
            BY <1>3
        <3> HIDE DEF K
        <3> QED
            BY <1>11, <3>1, BookPlaces
    <2> QED
        BY <1>10, <2>1 DEF Later
<1>13. Extends(K, e)
    BY <1>3, <1>12 DEF Extends
<1>14. Newest(s, events, e)
    BY <1>9, <1>10 DEF Newest
<1> QED
    BY <1>1, <1>9, <1>13, <1>14

-----------------------------------------------------------------------------
(* The undos of a close and of a modify *)

\* The last event of the undo of a close, in a log that has the close as the
\* last to move time.
LEMMA UndoClosePosts ==
    ASSUME Ready, LedgerInv, NEW s \in Stores, Has(s), Sheets(s), UndoClose(s, copy[s].row)
    PROVE  Posted(s)
<1> DEFINE old == copy[s].row
           L == copy[s].log
           ev == last[s].ev
           before == last[s].before
           row == [old EXCEPT !.status = before.status, !.since = before.since,
                              !.claim = before.claim, !.tracked = before.tracked]
           e == [UndoEvent(s) EXCEPT !.id = Id(s, 1), !.since = ev.since, !.secs = old.tracked - before.tracked]
           f == Logged(s, "renew")
           fold == IF ev.since = 0 THEN 0 ELSE Secs(ev.since, ev.at)
<1>1. /\ Edit(s, row, {e} \cup IF before.claim = 0 THEN {} ELSE {f})
      /\ ev.op \in {"done", "cancel"}
    BY DEF UndoClose
<1>2. /\ e.op = "undo" /\ e.id = Id(s, 1) /\ e.at = Clock(s) /\ e.of = ev.op /\ e.since = ev.since
      /\ e.secs = old.tracked - before.tracked /\ e.undone = ev.id
      /\ f.op = "renew" /\ f.id = Id(s, 0) /\ f.at = Clock(s) /\ f.since = 0 /\ f.of = "none"
    BY LoggedFields DEF UndoEvent
<1>3. row = [old EXCEPT !.status = before.status, !.since = before.since,
                        !.claim = before.claim, !.tracked = before.tracked]
    OBVIOUS
<1> HIDE DEF row, e, f
<1>4. old = Made(old, old.status, old.since, old.title, old.claim, old.tracked, old.adj, old.tags)
    BY OldType DEF Ready
<1>5. row = Made(old, before.status, before.since, old.title, before.claim, before.tracked, old.adj, old.tags)
    BY <1>3, <1>4 DEF Made
<1>6. /\ Shaped(row) /\ row.status = before.status /\ row.since = before.since
      /\ row.tracked = before.tracked /\ row.adj = old.adj
    BY <1>5 DEF Shaped, Made
<1>7. ev.op \in Closing /\ ev.op # "import"
    BY <1>1 DEF Closing
<1>8. /\ ev \in L /\ ev.at \in Nat /\ ev.since \in Int /\ ~Slow(ev)
      /\ \A x \in L \ {ev} : Place(x) < Place(ev)
      /\ Running(old) = 0
    BY <1>7, LastIs
<1>9. /\ ev.since = Running(before) /\ (before.status = "active" => before.since # 0)
      /\ old.tracked = before.tracked + fold
      /\ \A c \in Standing(L) : c.since = ev.since => c = ev
    BY <1>7, Held DEF Backed
<1>10. Book(L) /\ Fits(L, 0, old.tracked, old.adj)
    BY <1>8, Held
<1>11. ev.since # 0 => /\ IsClose(ev) /\ Length(ev) = fold
                       /\ \E o \in L : o.op = "start" /\ o.at = ev.since
    <2> SUFFICES ASSUME ev.since # 0
                 PROVE /\ IsClose(ev) /\ Length(ev) = fold /\ \E o \in L : o.op = "start" /\ o.at = ev.since
        OBVIOUS
    <2>1. IsClose(ev)
        BY <1>7 DEF IsClose
    <2>2. Length(ev) = Secs(ev.since, ev.at) /\ \E o \in L : o.op = "start" /\ o.at = ev.since
        BY <2>1, CloseUndone
    <2> QED
        BY <2>1, <2>2
<1>12. fold \in Int
    <2>1. ev.since \in Int /\ ev.at \in Int
        BY <1>8
    <2> HIDE DEF ev
    <2>2. Secs(ev.since, ev.at) \in Int
        BY <2>1, SecsType
    <2> QED
        BY <2>2
<1>13. old.tracked \in Int /\ before.tracked \in Int
    BY OldNumbers DEF Ready, CountedRow
<1>14. before.tracked = old.tracked - fold /\ e.secs = fold /\ (ev.since = 0 => fold = 0)
    <2> HIDE DEF fold, old, before
    <2>1. before.tracked = old.tracked - fold /\ old.tracked - before.tracked = fold
        BY <1>9, <1>12, <1>13
    <2>2. ev.since = 0 => fold = 0
        BY DEF fold
    <2> QED
        BY <1>2, <2>1, <2>2
<1>15. Running(row) = ev.since /\ (row.status = "active" => row.since # 0)
    BY <1>6, <1>9 DEF Running
<1>16. /\ ~IsReset(e) /\ ~IsRefund(e) /\ IsReopen(e) /\ ~IsAdjust(e) /\ ~IsClose(e) /\ ~IsCorrection(e)
       /\ e.op \notin Closing /\ e.op \notin {"start", "stop", "modify"}
    BY <1>1, <1>2, <1>7 DEF IsReset, IsRefund, IsReopen, IsAdjust, IsClose, IsCorrection, Closing
<1>17. Entry(e)
    BY <1>2, <1>14, <1>16 DEF Entry
<1>18. ASSUME NEW K, L \subseteq K PROVE Roots(K, e)
    <2>1. ev \in K /\ ev.at < e.at
        BY <1>2, <1>8, <1>18 DEF Sheets
    <2>2. IsOpening(e) => \E o \in K : o.op = "start" /\ o.at = e.since
        BY <1>2, <1>11, <1>18 DEF IsOpening
    <2> QED
        BY <1>2, <1>7, <1>16, <2>1, <2>2 DEF Roots
<1>19. Granted(s, e) /\ \A events : Undoable(s, row, events, e)
    BY <1>16 DEF Granted, Undoable
<1>20. \A x \in L : Place(x) \in Int
    BY <1>10, BookNumbers
\* From the log the undo is written to.
<1>21. ASSUME NEW K, K \in {L, L \cup {f}}, Fits(K, 0, old.tracked, old.adj), Extends(K, e),
              \A x \in K : x \in L \/ (~IsReopen(x) /\ ~IsReset(x)), Standing(K) = Standing(L)
       PROVE  RowFits(K \cup {e}, row)
    <2>1. ev \in K /\ ev.id = e.undone /\ ev.since = e.since
        BY <1>2, <1>8, <1>21
    <2>2. \A x \in K \ {ev} : Place(ev) < Place(x) => ~IsReopen(x) /\ ~IsReset(x)
        BY <1>8, <1>20, <1>21
    <2>3. \A d \in Standing(K) : d.since = e.since => d = ev
        BY <1>9, <1>21, <2>1
    <2>4. /\ e.since = 0 => Fits(K \cup {e}, 0, old.tracked, old.adj)
          /\ e.since # 0 => Length(ev) \in Nat /\ Fits(K \cup {e}, e.since, old.tracked - Length(ev), old.adj)
        <3> HIDE DEF L, old, ev
        <3> QED
            BY <1>7, <1>16, <1>21, <2>1, <2>2, <2>3, FitUndone
    <2>5. CASE e.since = 0
        <3>1. before.tracked = old.tracked
            BY <1>13, <1>14, <2>1, <2>5
        <3>2. Fits(K \cup {e}, Running(row), row.tracked, row.adj)
            BY <1>6, <1>15, <2>1, <2>4, <2>5, <3>1
        <3> QED
            BY <1>6, <1>15, <3>2 DEF RowFits
    <2>6. CASE e.since # 0
        <3>1. before.tracked = old.tracked - Length(ev)
            BY <1>11, <1>14, <2>1, <2>6
        <3>2. Fits(K \cup {e}, Running(row), row.tracked, row.adj)
            BY <1>6, <1>15, <2>1, <2>4, <2>6, <3>1
        <3> QED
            BY <1>6, <1>15, <3>2 DEF RowFits
    <2> QED
        BY <2>5, <2>6
<1> HIDE DEF fold
<1>22. CASE before.claim = 0
    <2>1. Edit(s, row, {e})
        <3>1. {e} \cup (IF before.claim = 0 THEN {} ELSE {f}) = {e}
            BY <1>22
        <3> QED
            BY <1>1, <3>1
    <2>2. Roots(L, e)
        BY <1>18
    <2>3. Extends(L, e)
        BY <1>2, <1>17, <2>1, <2>2, OneExtends
    <2>4. RowFits(L \cup {e}, row)
        <3>1. (\A x \in L : x \in L \/ (~IsReopen(x) /\ ~IsReset(x))) /\ L \in {L, L \cup {f}}
            OBVIOUS
        <3> QED
            BY <1>10, <1>21, <2>3, <3>1
    <2> QED
        BY <1>2, <1>19, <2>1, <2>4, OnePosts
<1>23. CASE before.claim # 0
    <2> DEFINE K == L \cup {f}
    <2>1. PICK events : events = {e} \cup {f}
        OBVIOUS
    <2>2. Edit(s, row, events)
        BY <1>1, <1>23, <2>1
    <2>3. Roots(K, e) /\ Fits(L, 0, old.tracked, old.adj)
        BY <1>10, <1>18
    <2>4. /\ L \cup events = K \cup {e} /\ Newest(s, events, e)
          /\ Fits(K, 0, old.tracked, old.adj) /\ Extends(K, e) /\ Standing(K) = Standing(L)
          /\ ~IsReopen(f) /\ ~IsReset(f)
        <3> HIDE DEF old
        <3> QED
            BY <1>2, <1>17, <2>1, <2>2, <2>3, RenewedFirst
    <2>5. \A x \in K : x \in L \/ (~IsReopen(x) /\ ~IsReset(x))
        BY <2>4
    <2>6. RowFits(K \cup {e}, row)
        BY <1>21, <2>4, <2>5
    <2>7. e \in events /\ RowFits(L \cup events, row) /\ Undoable(s, row, events, e)
        BY <1>19, <2>1, <2>4, <2>6
    <2> QED
        BY <1>19, <2>2, <2>4, <2>7, Posts
<1> QED
    BY <1>22, <1>23

\* The undo of a modify that set no total: that of one is not among what
\* Repayable lets undo. One that cancelled a running task is in no clean log.
LEMMA UndoModifyPosts ==
    ASSUME Ready, LedgerInv, Repayable, NEW s \in Stores, Has(s), Sheets(s),
           "modify" \in scene.undone, UndoModify(s, copy[s].row)
    PROVE  Posted(s)
<1> DEFINE old == copy[s].row
           L == copy[s].log
           before == last[s].before
           ev == last[s].ev
           row == [old EXCEPT !.status = before.status, !.since = before.since,
                              !.title = before.title, !.claim = before.claim,
                              !.tracked = before.tracked, !.adj = before.adj]
           e == [UndoEvent(s) EXCEPT !.id = Id(s, 1), !.cols = ev.cols]
           f == Logged(s, "renew")
<1>1. Edit(s, row, {e} \cup IF before.claim = old.claim THEN {} ELSE {f}) /\ ev.op = "modify"
    BY DEF UndoModify
<1>2. /\ e.op = "undo" /\ e.id = Id(s, 1) /\ e.at = Clock(s) /\ e.since = 0 /\ e.of = ev.op /\ e.cols = ev.cols
      /\ f.op = "renew" /\ f.id = Id(s, 0) /\ f.at = Clock(s) /\ f.since = 0 /\ f.of = "none"
    BY LoggedFields DEF UndoEvent
<1>3. row = [old EXCEPT !.status = before.status, !.since = before.since,
                        !.title = before.title, !.claim = before.claim,
                        !.tracked = before.tracked, !.adj = before.adj]
    OBVIOUS
<1> HIDE DEF row, e, f
<1>4. old = Made(old, old.status, old.since, old.title, old.claim, old.tracked, old.adj, old.tags)
    BY OldType DEF Ready
<1>5. row = Made(old, before.status, before.since, before.title, before.claim, before.tracked, before.adj, old.tags)
    BY <1>3, <1>4 DEF Made
<1>6. ev \in Sound
    BY <1>1, LastIs
<1>7. ~IsReset(ev)
    <2>1. scene \in Scenes /\ scene.undone \cap {"modify", "adjust_tracked"} # {}
        BY DEF Ready, StateOK
    <2>2. ~SetsTotals(scene)
        BY <2>1, Zenon DEF Repayable
    <2> QED
        BY <1>6, <2>2 DEF LedgerInv, Called
<1>8. /\ before.tracked = old.tracked /\ before.adj = old.adj
      /\ "status" \in ev.cols => old.status # "active" /\ before.status # "active"
    BY <1>1, <1>7, Held DEF Backed
<1>9. "status" \notin ev.cols => before.status = old.status /\ before.since = old.since
    BY <1>1 DEF Ready, StateOK, Spared
<1>10. /\ Shaped(row) /\ row.status = before.status /\ row.since = before.since
       /\ row.tracked = old.tracked /\ row.adj = old.adj
    BY <1>5, <1>8 DEF Shaped, Made
<1>11. Running(row) = Running(old) /\ (row.status = "active" => row.since # 0)
    BY <1>8, <1>9, <1>10, Held DEF Running, Tells
<1>12. Touches(e, "status") => Running(old) = 0
    BY <1>1, <1>2, <1>8 DEF Touches, Running, Closing
<1>13. /\ ~IsReset(e) /\ ~IsRefund(e) /\ ~IsReopen(e) /\ ~IsClose(e) /\ ~IsOpening(e) /\ ~IsCorrection(e)
       /\ e.op \notin Closing /\ e.op \notin {"start", "stop", "adjust_tracked", "modify"} /\ Opened(e) = 0
    BY <1>1, <1>2 DEF IsReset, IsRefund, IsReopen, IsClose, IsOpening, IsCorrection, IsAdjust, Closing, Opened
<1>14. CASE before.claim = old.claim
    <2>1. Edit(s, row, {e})
        <3>1. {e} \cup (IF before.claim = old.claim THEN {} ELSE {f}) = {e}
            BY <1>14
        <3> QED
            BY <1>1, <3>1
    <2> QED
        BY <1>2, <1>10, <1>11, <1>12, <1>13, <2>1, IdlePosts
<1>15. CASE before.claim # old.claim
    <2> DEFINE K == L \cup {f}
    <2>1. PICK events : events = {e} \cup {f}
        OBVIOUS
    <2>2. Edit(s, row, events)
        BY <1>1, <1>15, <2>1
    <2>3. Roots(K, e) /\ Entry(e)
        BY <1>13 DEF Roots, Entry, IsAdjust
    <2>4. Fits(L, Running(old), old.tracked, old.adj)
        BY Held
    <2>5. /\ L \cup events = K \cup {e} /\ Newest(s, events, e)
          /\ Fits(K, Running(old), old.tracked, old.adj) /\ Extends(K, e)
        BY <1>2, <2>1, <2>2, <2>3, <2>4, RenewedFirst
    <2>6. IsIdle(K, e)
        BY <1>13 DEF IsIdle
    <2>7. Fits(K \cup {e}, Running(old), old.tracked, old.adj)
        <3> HIDE DEF K, old
        <3> QED
            BY <1>12, <1>13, <2>5, <2>6, FitIdle
    <2>8. RowFits(K \cup {e}, row)
        BY <1>10, <1>11, <2>7 DEF RowFits
    <2>9. e \in events /\ RowFits(L \cup events, row) /\ Undoable(s, row, events, e) /\ Granted(s, e)
        BY <1>13, <2>1, <2>5, <2>8 DEF Undoable, Granted
    <2> QED
        BY <2>2, <2>5, <2>9, Posts
<1> QED
    BY <1>14, <1>15

\* Every edit keeps the ledger of its store.
LEMMA EveryPosts ==
    ASSUME Ready, LedgerInv, Repayable, NEW s \in Stores, Has(s), Sheets(s),
           UserEdit(s, copy[s].row) \/ Undo(s, copy[s].row)
    PROVE  Posted(s)
<1>1. CASE UserEdit(s, copy[s].row)
    <2>1. Start(s, copy[s].row) => Posted(s)
        BY StartPosts
    <2>2. Stop(s, copy[s].row) => Posted(s)
        BY StopPosts
    <2>3. Close(s, copy[s].row, "done", "done") \/ Close(s, copy[s].row, "cancel", "cancelled") => Posted(s)
        BY DonePosts
    <2>4. Reopen(s, copy[s].row) \/ Claim(s, copy[s].row) \/ Release(s, copy[s].row) => Posted(s)
        BY ReopenPosts, ClaimPosts, ReleasePosts
    <2>5. (\E title \in Titles : Rename(s, copy[s].row, title)) => Posted(s)
        BY RenamePosts
    <2>6. (\E total \in Totals : SetTotal(s, copy[s].row, total)) => Posted(s)
        BY SetTotalPosts
    <2>7. (\E delta \in Deltas : Adjust(s, copy[s].row, delta)) => Posted(s)
        BY AdjustPosts
    <2>8. (\E tag \in Tags : AddTag(s, copy[s].row, tag) \/ RemoveTag(s, copy[s].row, tag)) => Posted(s)
        BY AddTagPosts, RemoveTagPosts
    <2>9. CancelByModify(s, copy[s].row) => Posted(s)
        BY CancelByModifyPosts
    <2> QED
        BY <1>1, <2>1, <2>2, <2>3, <2>4, <2>5, <2>6, <2>7, <2>8, <2>9, Zenon DEF UserEdit
<1>2. CASE Undo(s, copy[s].row)
    <2>1. last[s].ev.op \in scene.undone
        BY <1>2 DEF Undo
    <2>2. UndoStop(s, copy[s].row) => Posted(s)
        <3>1. UndoStop(s, copy[s].row) => "stop" \in scene.undone
            BY <2>1 DEF UndoStop
        <3> QED
            BY <3>1, UndoStopPosts
    <2>3. UndoModify(s, copy[s].row) => Posted(s)
        <3>1. UndoModify(s, copy[s].row) => "modify" \in scene.undone
            BY <2>1 DEF UndoModify
        <3> QED
            BY <3>1, UndoModifyPosts
    <2>4. UndoAdjust(s, copy[s].row) => Posted(s)
        <3>1. UndoAdjust(s, copy[s].row) => "adjust_tracked" \in scene.undone
            BY <2>1 DEF UndoAdjust
        <3> QED
            BY <3>1, UndoAdjustPosts
    <2>5. UndoClose(s, copy[s].row) \/ UndoTag(s, copy[s].row) => Posted(s)
        BY UndoClosePosts, UndoTagPosts
    <2> QED
        BY <1>2, <2>2, <2>3, <2>4, <2>5 DEF Undo
<1> QED
    BY <1>1, <1>2

-----------------------------------------------------------------------------
(* The ledger after an edit *)

LEMMA LedgerReady ==
    ASSUME StateOK, SumInv, Told, LedgerInv
    PROVE  Ready
BY DEF Ready, Told, LedgerInv

\* Nothing is what undo finds after an import.
LEMMA NothingBacked ==
    Nothing.ev.op = "import" /\ ~IsAdjust(Nothing.ev) /\ ~IsReset(Nothing.ev)
BY DEF Nothing, Event, IsAdjust, IsReset

\* What teaches no sound copy an event, and leaves undo what it had or nothing,
\* keeps the ledger when the copies are honest.
LEMMA SoundStays ==
    ASSUME LedgerInv, scene' = scene, Sound' \subseteq Sound,
           \A c \in Copies' : Stamp(c) /\ (Clean(c.log) => Honest(c)),
           \A q \in Stores : Clean(copy'[q].log) =>
                last'[q] = Nothing \/ (copy'[q] = copy[q] /\ last'[q] = last[q])
    PROVE  LedgerInv'
<1>1. Called /\ Once /\ Settled(Sound) /\ (\A e \in Sound : Entry(e))
      /\ \A q \in Stores : Clean(copy[q].log) => Backed(q)
    BY DEF LedgerInv
<1>2. Called'
    BY <1>1 DEF Called
<1>3. \A q \in Stores : Adjusting(q)' => Adjusting(q) /\ last'[q] = last[q]
    BY NothingBacked DEF Adjusting
<1>4. Once'
    <2>1. ASSUME NEW q \in Stores, Adjusting(q)', NEW u \in Sound', IsRefund(u)
          PROVE  u.undone # last'[q].ev.id
        BY <1>1, <1>3, <2>1 DEF Once
    <2>2. ASSUME NEW q \in Stores, NEW p \in Stores \ {q}, Adjusting(q)', Adjusting(p)'
          PROVE  last'[p].ev.id # last'[q].ev.id
        BY <1>1, <1>3, <2>2 DEF Once
    <2> QED
        BY <2>1, <2>2 DEF Once
<1>5. Settled(Sound')
    BY <1>1, SettledPart
<1>6. \A q \in Stores : Clean(copy'[q].log) => Backed(q)'
    <2>1. ASSUME NEW q \in Stores, last'[q] = Nothing PROVE Backed(q)'
        BY <2>1, NothingBacked DEF Backed, Closing
    <2>2. ASSUME NEW q \in Stores, Clean(copy[q].log), copy'[q] = copy[q], last'[q] = last[q]
          PROVE  Backed(q)'
        BY <1>1, <2>2 DEF Backed
    <2> QED
        BY <2>1, <2>2
<1> QED
    BY <1>1, <1>2, <1>4, <1>5, <1>6 DEF LedgerInv

\* What a correction made in a sound copy rests on.
LEMMA LastSound ==
    ASSUME LedgerInv, NEW s \in Stores, Adjusting(s)
    PROVE  last[s].ev \in Sound
<1>1. last[s].ev \in copy[s].log
    BY DEF LedgerInv, Backed, IsAdjust, Adjusting
<1>2. copy[s] \in Copies
    BY <1>1 DEF Copies, Rows, Has
<1> QED
    BY <1>1, <1>2 DEF Sound, Adjusting

LEMMA RefundSound ==
    ASSUME LedgerInv, NEW u \in Sound, IsRefund(u)
    PROVE  \E d \in Sound : IsAdjust(d) /\ d.id = u.undone
<1>1. PICK c \in Copies : Clean(c.log) /\ u \in c.log
    BY DEF Sound
<1>2. c.log \subseteq Sound
    BY <1>1, SoundKnown
<1>3. Rooted(c.log)
    BY <1>1 DEF LedgerInv, Honest
<1> QED
    BY <1>1, <1>2, <1>3 DEF Rooted

LEMMA EditSheets ==
    ASSUME StateOK, StateOK', SumInv', InTime', Unique', NEW s \in Stores,
           \A x \in copy[s].log : x.at < Clock(s), Clean(copy[s].log), Clean(copy'[s].log)
    PROVE  Sheets(s)
<1>1. Logbook(copy'[s].log)
    BY DEF SumInv, Counted
<1>2. copy'[s].log \subseteq Known'
    BY DEF Known
<1>3. (\A e \in Known' : ~Slow(e) /\ Minted(e)) /\ \A e, f \in Known' : e.at = f.at /\ e.id = f.id => e = f
    BY DEF InTime, Unique
<1>4. Sheet(copy'[s].log)
    BY <1>1, <1>2, <1>3 DEF Sheet
<1> QED
    BY <1>4 DEF Sheets

\* An edit leaves a row as new as its log.
LEMMA EditStamps ==
    ASSUME StateOK, NEW s \in Stores, NEW row, NEW events, Edit(s, row, events), Edited(s, row, events),
           \A x \in copy[s].log : x.at < Clock(s)
    PROVE  Stamp(copy'[s])
<1>1. /\ copy'[s] = [row |-> Stamped(s, row), log |-> copy[s].log \cup events]
      /\ last'[s] = [ev |-> Last(events), before |-> copy[s].row]
    BY EditMoves
<1>2. Stamped(s, row).modified = Clock(s)
    BY StampedRow DEF Edited, RowOK
<1>3. /\ \A x \in copy[s].log : x.at \in Nat
      /\ \A x \in events : x.at = Clock(s)
      /\ \E x \in events : TRUE
    BY LastOf DEF StateOK, CopyOK, EventOK, Edited
<1>4. Clock(s) \in Nat
    BY ClockType
<1>5. copy'[s].row.modified = Clock(s) /\ copy'[s].log = copy[s].log \cup events
    BY <1>1, <1>2
<1> QED
    BY <1>3, <1>4, <1>5 DEF Stamp

\* An edit keeps the ledger when the log it leaves tells of every close.
LEMMA CleanEdit ==
    ASSUME StateOK, SumInv, Told, Agree, Repayable, LedgerInv, NEW s \in Stores, Has(s),
           UserEdit(s, copy[s].row) \/ Undo(s, copy[s].row), Clean(copy'[s].log),
           NEW row, NEW events,
           Edit(s, row, events), Edited(s, row, events), Timely(s, row, events)
    PROVE  LedgerInv'
<1> DEFINE L == copy[s].log
           N == copy'[s].log \ L
           ev == last[s].ev
<1>1. Edit(s, row, events) /\ Edited(s, row, events) /\ Timely(s, row, events)
    OBVIOUS
<1>2. InTime /\ Unique /\ Ready
    BY LedgerReady DEF Told
<1>3. StateOK' /\ SumInv' /\ InTime' /\ Unique'
    BY <1>1, <1>2, StateEdit, SumEdit, EditInTime, EditUnique
<1>4. /\ \A e \in events, f \in Known : ~(e.at = f.at /\ e.id = f.id)
      /\ \A f \in L : f.at < Clock(s)
    BY <1>1, <1>2, Fresh
<1>5. Sheets(s) /\ Clean(L)
    <2>1. L \subseteq copy'[s].log
        BY <1>1, EditKnown
    <2> QED
        BY <1>3, <1>4, <2>1, CleanPart, EditSheets
<1>6. Posted(s)
    BY <1>2, <1>5, EveryPosts
<1>7. /\ scene' = scene /\ doc' = doc
      /\ \A q \in Stores \ {s} : copy'[q] = copy[q] /\ last'[q] = last[q]
    <2>1. /\ now' \in Nat /\ now' >= now /\ scene' = scene /\ doc' = doc
          /\ OverStores(copy)' /\ OverStores(last)'
          /\ copy'[s] = [row |-> Stamped(s, row), log |-> copy[s].log \cup events]
          /\ last'[s] = [ev |-> Last(events), before |-> copy[s].row]
          /\ \A q \in Stores \ {s} : copy'[q] = copy[q] /\ last'[q] = last[q]
        BY <1>1, EditMoves
    <2> QED
        BY <2>1
<1>8. copy'[s].log = L \cup events
    BY <1>1, LogAfter
<1>9. /\ Known' \subseteq Known \cup events /\ Copies' \subseteq Copies \cup {copy'[s]}
    BY <1>1, EditKnown
<1>10. L \subseteq Known /\ copy'[s].log \subseteq Known' /\ L \subseteq Sound
    <2>1. copy[s] \in Copies
        BY DEF Copies, Rows
    <2> QED
        BY <1>5, <2>1, SoundKnown DEF Known
<1>11. N = events /\ \A e \in N : e \notin Known
    BY <1>4, <1>8, <1>10
<1>12. \A e \in N : /\ Entry(e)
                    /\ IsRefund(e) => /\ "adjust_tracked" \in scene.undone
                                      /\ IsAdjust(ev) /\ e.undone = ev.id
                                      /\ \A f \in N : IsRefund(f) => f = e
                    /\ IsReset(e) => SetsTotals(scene)
    BY <1>6 DEF Posted
<1>13. Honest(copy'[s]) /\ Backed(s)'
    BY <1>6 DEF Posted
\* Ids tell what is new from what was known.
<1>14. \A e \in N, f \in Known : e.id # f.id
    <2> SUFFICES ASSUME NEW e \in N, NEW f \in Known, e.id = f.id PROVE FALSE
        OBVIOUS
    <2>1. e \in Known'
        BY <1>10
    <2>2. EventOK(f) /\ Minted(f)
        BY <1>2, KnownOK DEF InTime
    <2>3. Minted(e)
        BY <1>3, <2>1 DEF InTime
    <2>4. EventOK(e)
        BY <1>1, <1>11 DEF Edited
    <2>5. e.at = f.at
        BY <2>2, <2>3, <2>4, IdTells
    <2> QED
        BY <1>4, <1>11, <2>5
<1>15. \A u \in Sound' : u \in Sound \/ u \in N
    <2>1. ASSUME NEW c \in Copies', Clean(c.log), NEW u \in c.log PROVE u \in Sound \/ u \in N
        BY <1>8, <1>9, <1>10, <1>11, <2>1, SoundKnown
    <2> QED
        BY <2>1 DEF Sound
<1>16. /\ Called /\ Once /\ Settled(Sound) /\ \A e \in Sound : Entry(e)
       /\ \A c \in Copies : Stamp(c) /\ (Clean(c.log) => Honest(c))
       /\ \A q \in Stores : Clean(copy[q].log) => Backed(q)
    BY DEF LedgerInv
<1>24. Stamp(copy'[s]) /\ Sound \subseteq Known /\ (IsAdjust(ev) => Adjusting(s))
    BY <1>1, <1>4, <1>5, EditStamps, SoundKnown DEF Adjusting
<1>25. \A q \in Stores \ {s} : Adjusting(q)' <=> Adjusting(q)
    BY <1>7 DEF Adjusting
<1> HIDE DEF N, L, ev
<1>17. Called'
    <2>1. \A e \in Sound' : IsRefund(e) => "adjust_tracked" \in scene.undone
        BY <1>12, <1>15, <1>16 DEF Called
    <2>2. \A e \in Sound' : IsReset(e) => SetsTotals(scene)
        BY <1>12, <1>15, <1>16 DEF Called
    <2> QED
        BY <1>7, <2>1, <2>2 DEF Called
<1>18. \A e \in Sound' : Entry(e)
    BY <1>12, <1>15, <1>16
<1>19. \A c \in Copies' : Stamp(c) /\ (Clean(c.log) => Honest(c))
    BY <1>9, <1>13, <1>16, <1>24
<1>20. \A q \in Stores : Clean(copy'[q].log) => Backed(q)'
    <2>1. ASSUME NEW q \in Stores, q # s, Clean(copy'[q].log) PROVE Backed(q)'
        <3>1. copy'[q] = copy[q] /\ last'[q] = last[q] /\ Backed(q)
            BY <1>7, <1>16, <2>1
        <3> QED
            BY <3>1 DEF Backed
    <2> QED
        BY <1>13, <2>1
<1>21. IsAdjust(ev) => ev \in Sound
    BY <1>24, LastSound DEF ev
<1>22. Settled(Sound')
    <2>1. ASSUME NEW u \in Sound', NEW v \in Sound', IsRefund(u), IsRefund(v), u.undone = v.undone
          PROVE  u = v
        <3>1. ASSUME NEW x \in Sound, IsRefund(x), NEW y \in N, IsRefund(y) PROVE x.undone # y.undone
            BY <1>12, <1>16, <1>24, <3>1 DEF Once, ev
        <3>2. CASE u \in Sound /\ v \in Sound
            BY <1>16, <2>1, <3>2 DEF Settled
        <3>3. CASE u \in N /\ v \in N
            BY <1>12, <2>1, <3>3
        <3> QED
            BY <1>15, <2>1, <3>1, <3>2, <3>3
    <2>2. ASSUME NEW u \in Sound', NEW e \in Sound', IsRefund(u), IsReset(e) PROVE FALSE
        <3>1. "adjust_tracked" \in scene'.undone /\ SetsTotals(scene')
            BY <1>17, <2>2 DEF Called
        <3>2. scene \in Scenes
            BY DEF StateOK
        <3>3. "adjust_tracked" \in scene.undone /\ SetsTotals(scene)
            BY <1>7, <3>1
        <3>4. scene.undone \cap {"modify", "adjust_tracked"} # {}
            BY <3>3
        <3> QED
            BY <3>2, <3>3, <3>4, Zenon DEF Repayable
    <2> QED
        BY <2>1, <2>2 DEF Settled
<1>23. Once'
    <2>1. Adjusting(s)' => last'[s].ev \in copy'[s].log /\ \A x \in L : x # last'[s].ev
        <3> SUFFICES ASSUME Adjusting(s)'
                     PROVE  last'[s].ev \in copy'[s].log /\ \A x \in L : x # last'[s].ev
            OBVIOUS
        <3>1. last'[s].ev = Last(events)
            <4>1. /\ copy'[s] = [row |-> Stamped(s, row), log |-> copy[s].log \cup events]
                  /\ last'[s] = [ev |-> Last(events), before |-> copy[s].row]
                BY <1>1, EditMoves
            <4> QED
                BY <4>1
        <3>2. last'[s].ev \in events
            BY <1>1, <3>1, LastOf DEF Edited
        <3> QED
            BY <1>8, <1>10, <1>11, <3>2
    <2>2. Adjusting(s)' => last'[s].ev \in N
        BY <2>1 DEF N
    <2>3. ASSUME Adjusting(s)', NEW u \in Sound', IsRefund(u) PROVE u.undone # last'[s].ev.id
        <3>1. CASE u \in Sound
            <4>1. PICK d \in Sound : d.id = u.undone
                BY <2>3, <3>1, RefundSound
            <4> QED
                BY <1>14, <1>24, <2>2, <2>3, <4>1
        <3>2. CASE u \in N
            <4>1. u.undone = ev.id /\ ev \in Sound
                BY <1>12, <1>21, <2>3, <3>2
            <4> QED
                BY <1>14, <1>24, <2>2, <2>3, <4>1
        <3> QED
            BY <1>15, <3>1, <3>2
    <2>4. ASSUME NEW q \in Stores, q # s, Adjusting(q), Adjusting(s)'
          PROVE  last[q].ev.id # last'[s].ev.id
        <3>1. last[q].ev \in Sound
            BY <2>4, LastSound
        <3> QED
            BY <1>14, <1>24, <2>2, <2>4, <3>1
    <2>5. ASSUME NEW q \in Stores, q # s, Adjusting(q), NEW u \in Sound', IsRefund(u)
          PROVE  u.undone # last[q].ev.id
        <3>1. CASE u \in Sound
            BY <1>16, <2>5, <3>1 DEF Once
        <3>2. CASE u \in N
            <4>1. IsAdjust(ev) /\ u.undone = ev.id
                BY <1>12, <2>5, <3>2
            <4>2. last[q].ev.id # ev.id
                BY <1>16, <1>24, <2>5, <4>1 DEF Once, ev
            <4> QED
                BY <4>1, <4>2
        <3> QED
            BY <1>15, <3>1, <3>2
    <2>6. ASSUME NEW q \in Stores, NEW r \in Stores \ {q}, Adjusting(q)', Adjusting(r)'
          PROVE  last'[r].ev.id # last'[q].ev.id
        <3>1. CASE q = s
            <4>1. r # s /\ last'[r] = last[r] /\ Adjusting(r)
                BY <1>7, <1>25, <2>6, <3>1
            <4> QED
                BY <2>4, <2>6, <3>1, <4>1
        <3>2. CASE r = s
            <4>1. q # s /\ last'[q] = last[q] /\ Adjusting(q)
                BY <1>7, <1>25, <2>6, <3>2
            <4> QED
                BY <2>4, <2>6, <3>2, <4>1
        <3>3. CASE q # s /\ r # s
            <4>1. last'[q] = last[q] /\ last'[r] = last[r] /\ Adjusting(q) /\ Adjusting(r)
                BY <1>7, <1>25, <2>6, <3>3
            <4> QED
                BY <1>16, <2>6, <4>1 DEF Once
        <3> QED
            BY <3>1, <3>2, <3>3
    <2>7. ASSUME NEW q \in Stores, Adjusting(q)', NEW u \in Sound', IsRefund(u)
          PROVE  u.undone # last'[q].ev.id
        <3>1. CASE q = s
            BY <2>3, <2>7, <3>1
        <3>2. CASE q # s
            <4>1. last'[q] = last[q] /\ Adjusting(q)
                BY <1>7, <1>25, <2>7, <3>2
            <4> QED
                BY <2>5, <2>7, <3>2, <4>1
        <3> QED
            BY <3>1, <3>2
    <2> QED
        BY <2>6, <2>7 DEF Once
<1> QED
    BY <1>17, <1>18, <1>19, <1>20, <1>22, <1>23 DEF LedgerInv

\* Every edit keeps the ledger: one that leaves a log that does not tell of every
\* close leaves the ledgers of the others as they were.
LEMMA LedgerEdit ==
    ASSUME StateOK, SumInv, Told, Agree, Repayable, LedgerInv, NEW s \in Stores, Has(s),
           UserEdit(s, copy[s].row) \/ Undo(s, copy[s].row)
    PROVE  LedgerInv'
<1>1. PICK row, events : Edit(s, row, events) /\ Edited(s, row, events) /\ Timely(s, row, events)
    BY EveryEdit
<1>2. CASE Clean(copy'[s].log)
    BY <1>1, <1>2, CleanEdit
<1>3. CASE ~Clean(copy'[s].log)
    <2>1. /\ scene' = scene
          /\ \A q \in Stores \ {s} : copy'[q] = copy[q] /\ last'[q] = last[q]
        <3>1. /\ now' \in Nat /\ now' >= now /\ scene' = scene /\ doc' = doc
              /\ OverStores(copy)' /\ OverStores(last)'
              /\ copy'[s] = [row |-> Stamped(s, row), log |-> copy[s].log \cup events]
              /\ last'[s] = [ev |-> Last(events), before |-> copy[s].row]
              /\ \A q \in Stores \ {s} : copy'[q] = copy[q] /\ last'[q] = last[q]
            BY <1>1, EditMoves
        <3> QED
            BY <3>1
    <2>2. \A x \in copy[s].log : x.at < Clock(s)
        BY <1>1, Fresh DEF Told
    <2>3. Stamp(copy'[s])
        BY <1>1, <2>2, EditStamps
    <2>4. Copies' \subseteq Copies \cup {copy'[s]}
        BY <1>1, EditKnown
    <2>5. \A c \in Copies' : Stamp(c) /\ (Clean(c.log) => c \in Copies /\ Honest(c))
        BY <1>3, <2>3, <2>4 DEF LedgerInv
    <2>6. Sound' \subseteq Sound
        BY <2>5 DEF Sound
    <2> QED
        BY <1>3, <2>1, <2>5, <2>6, SoundStays
<1> QED
    BY <1>2, <1>3

-----------------------------------------------------------------------------
(* The ledger, always *)

\* An export writes down a copy there was.
LEMMA LedgerExport ==
    ASSUME StateOK, LedgerInv, NEW s \in Stores, Export(s)
    PROVE  LedgerInv'
<1>1. /\ doc' = [doc EXCEPT ![s] = copy[s]] /\ copy[s].log # {}
      /\ now' = now /\ scene' = scene /\ copy' = copy /\ last' = last
    BY DEF Export, Has
<1>2. doc'[s] = copy[s] /\ \A r \in Stores \ {s} : doc'[r] = doc[r]
    BY <1>1 DEF StateOK, OverStores
<1>4. Copies' \subseteq Copies
    <2>1. Rows' = Rows
        BY <1>1 DEF Rows, Has
    <2>2. copy[s] \in Rows
        BY <1>1 DEF Rows, Has
    <2>3. Documents' \subseteq Documents \cup {copy[s]}
        BY <1>2 DEF Documents
    <2> QED
        BY <2>1, <2>2, <2>3 DEF Copies
<1>5. Sound' \subseteq Sound
    BY <1>4 DEF Sound
<1>6. \A c \in Copies' : Stamp(c) /\ (Clean(c.log) => Honest(c))
    BY <1>4 DEF LedgerInv
<1> QED
    BY <1>1, <1>5, <1>6, SoundStays

\* So does every merge, of whatever document.
LEMMA LedgerMerge ==
    ASSUME StateOK, SumInv, Told, LedgerInv, NEW r \in Stores, NEW s \in Stores, Merge(r, s)
    PROVE  LedgerInv'
<1> DEFINE a == copy[r]
           b == doc[s]
           m == Merged(a, b)
<1>1. /\ copy' = [copy EXCEPT ![r] = m] /\ last' = [last EXCEPT ![r] = Nothing] /\ b.log # {}
      /\ now' = now /\ scene' = scene /\ doc' = doc
    BY DEF Merge
<1>2. b \in Copies /\ (a.log # {} => a \in Copies)
    BY <1>1 DEF Copies, Rows, Documents, Has
<1>3. /\ Settled(Sound)
      /\ \A c \in Copies : Stamp(c) /\ (Clean(c.log) => Honest(c))
    BY DEF LedgerInv
<1>4. CopyOK(a) /\ CopyOK(b) /\ (a.log = {} => m = b) /\ (a.log # {} => m.log = a.log \cup b.log)
    <2>1. CopyOK(a) /\ CopyOK(b)
        BY DEF StateOK
    <2>2. a.log = {} => m = b
        BY DEF Merged
    <2>3. ASSUME a.log # {} PROVE m.log = a.log \cup b.log
        BY <2>3 DEF Merged, Rewritten
    <2> QED
        BY <2>1, <2>2, <2>3
<1>5. Stamp(m)
    BY <1>2, <1>3, <1>4, MergeStamp
<1>6. Clean(m.log) => Honest(m) /\ m.log \subseteq Sound
    <2> SUFFICES ASSUME Clean(m.log) PROVE Honest(m) /\ m.log \subseteq Sound
        OBVIOUS
    <2>1. CASE a.log = {}
        BY <1>2, <1>3, <1>4, <2>1, SoundKnown
    <2>2. CASE a.log # {}
        <3>1. Clean(a.log) /\ Clean(b.log)
            BY <1>4, <2>2, CleanPart
        <3>2. Ready
            BY LedgerReady
        <3>3. Honest(m)
            BY <1>2, <1>3, <2>2, <3>1, <3>2, MergeHonest
        <3> QED
            BY <1>2, <1>4, <2>2, <3>1, <3>3, SoundKnown
    <2> QED
        BY <2>1, <2>2
<1> HIDE DEF m
<1>7. /\ copy'[r] = m /\ last'[r] = Nothing
      /\ \A q \in Stores \ {r} : copy'[q] = copy[q] /\ last'[q] = last[q]
    BY <1>1 DEF StateOK, OverStores
<1>8. ASSUME NEW c \in Copies' PROVE c \in Copies \/ c = m
    <2>1. CASE c \in Rows'
        <3>1. PICK q \in Stores : copy'[q].log # {} /\ c = copy'[q]
            BY <2>1 DEF Rows, Has
        <3>2. q # r => c \in Rows
            BY <1>7, <3>1 DEF Rows, Has
        <3> QED
            BY <1>7, <3>1, <3>2 DEF Copies
    <2>2. CASE c \in Documents'
        BY <1>1, <2>2 DEF Documents, Copies
    <2> QED
        BY <1>8, <2>1, <2>2 DEF Copies
<1>9. \A c \in Copies' : Stamp(c) /\ (Clean(c.log) => Honest(c))
    BY <1>3, <1>5, <1>6, <1>8
<1>10. Sound' \subseteq Sound
    BY <1>6, <1>8, SoundKnown DEF Sound
<1> QED
    BY <1>1, <1>7, <1>9, <1>10, SoundStays

\* A log of the add alone explains the row it made.
LEMMA AddIsHonest ==
    ASSUME NEW L, NEW e, L = {e}, e = Event("add", 0, SECOND), Book(L),
           NEW c, c.row = NewRow, c.log = L
    PROVE  Honest(c) /\ Stamp(c)
<1>1. /\ e.op = "add" /\ e.at = SECOND /\ e.since = 0 /\ e.of = "none"
    BY DEF Event
<1>2. /\ ~IsReset(e) /\ ~IsClose(e) /\ ~IsReopen(e) /\ ~IsOpening(e) /\ ~IsAdjust(e) /\ ~IsRefund(e)
    BY <1>1 DEF IsReset, IsClose, IsReopen, IsOpening, IsAdjust, IsRefund, Closing
<1>3. Resets(L) = {} /\ Closes(L) = {} /\ Openings(L) = {}
    BY <1>2, PartsAre
<1>4. Rooted(L)
    BY <1>2 DEF Rooted
<1>5. Counts(L) = {} /\ Standing(L) = {}
    BY <1>3 DEF Counts, Standing
<1>6. Adjusted(L) = 0
    <2>1. Corrections(L) = {}
        BY <1>2, <1>3 DEF Corrections, Since
    <2>2. Adjusted(L) = SumFunction([x \in Corrections(L) |-> Amount(L, x)])
        BY <1>4, AdjustedIs
    <2>3. PICK f : f = [x \in Corrections(L) |-> Amount(L, x)]
        OBVIOUS
    <2>4. DOMAIN f = {}
        BY <2>1, <2>3
    <2> QED
        BY <2>2, <2>3, <2>4, SumOfNone
<1>7. Intervals(Counts(L)) = 0
    <2>1. Counts(L) \subseteq Closes(L) /\ Spans(Counts(L)) = {}
        BY <1>5 DEF Spans
    <2>2. Intervals(Counts(L)) = SumFunction([i \in Spans(Counts(L)) |-> Longest(Counts(L), i)])
        BY <2>1, IntervalsAre
    <2>3. PICK f : f = [i \in Spans(Counts(L)) |-> Longest(Counts(L), i)]
        OBVIOUS
    <2>4. DOMAIN f = {}
        BY <2>1, <2>3
    <2> QED
        BY <2>2, <2>3, <2>4, SumOfNone
<1>8. LeftSum(L, 0) = 0
    <2>1. LeftOpen(L, 0) = {}
        BY <1>3, LeftOpenIs DEF Spans
    <2>2. PICK f : f = [i \in LeftOpen(L, 0) |-> Banked(L, i)]
        OBVIOUS
    <2>3. DOMAIN f = {}
        BY <2>1, <2>2
    <2> QED
        BY <2>2, <2>3, SumOfNone DEF LeftSum
<1>9. Tracked(L, 0) = 0
    <2>1. PICK x, y, z : x = Base(L) /\ y = TakenBack(L) /\ z = Tracked(L, 0)
        OBVIOUS
    <2>2. x = 0 /\ y = 0
        BY <1>3, <1>4, <2>1, NothingTakenBack DEF Base
    <2>3. z = x + 0 + 0 - y + 0
        BY <1>6, <1>7, <1>8, <2>1, TrackedIs
    <2> QED
        BY <2>1, <2>2, <2>3
<1>10. /\ NewRow.status = "pending" /\ NewRow.since = 0 /\ NewRow.tracked = Earlier
       /\ NewRow.adj = 0 /\ NewRow.modified = SECOND
    BY DEF NewRow
<1>11. Running(c.row) = 0
    BY <1>10 DEF Running
<1>12. Explained(c)
    <2>1. PICK x, y : x = Tracked(L, 0) /\ y = Adjusted(L)
        OBVIOUS
    <2>2. x = 0 /\ y = 0
        BY <1>6, <1>9, <2>1
    <2>3. Earlier \in Nat
        BY StoresAssumption
    <2>4. Beyond(c) = [tracked |-> Earlier - x, adj |-> 0 - y]
        BY <1>10, <1>11, <2>1 DEF Beyond
    <2> QED
        BY <1>3, <2>2, <2>3, <2>4 DEF Explained
<1>13. Tells(c)
    <2>1. Edits(L, "status") = {e}
        BY <1>1 DEF Edits, Touches
    <2>2. Last(L) = e
        <3>1. e \in L /\ L # {}
            OBVIOUS
        <3>2. Last(L) \in L
            BY <3>1, BookEnds
        <3> QED
            BY <3>2
    <2>3. Runs(L) = 0
        <3>1. Runs(L) = Opened(e)
            BY <2>1, <2>2 DEF Runs
        <3> QED
            BY <1>1, <1>2, <3>1 DEF Opened
    <2> QED
        BY <1>10, <1>11, <2>3 DEF Tells
<1>14. Stamp(c)
    BY <1>1, <1>10, LogAssumption DEF Stamp
<1> QED
    BY <1>4, <1>12, <1>13, <1>14 DEF Honest

\* The first log holds the add alone.
LEMMA LedgerStart == Init => LedgerInv
<1> SUFFICES ASSUME Init PROVE LedgerInv
    OBVIOUS
<1>1. PICK e : e = Event("add", 0, SECOND)
    OBVIOUS
<1>2. PICK L : L = {e}
    OBVIOUS
<1>3. /\ e.op = "add" /\ e.at = SECOND /\ e.since = 0 /\ e.of = "none" /\ e.id = 0
    BY <1>1 DEF Event
<1>4. /\ ~IsReset(e) /\ ~IsReopen(e) /\ ~IsAdjust(e) /\ ~IsRefund(e) /\ Entry(e)
    BY <1>3 DEF IsReset, IsReopen, IsAdjust, IsRefund, Entry
<1>5. /\ \A s \in Stores : copy[s].log \in {{}, L} /\ copy[s].row = NewRow
      /\ \A s \in Stores : doc[s] = Absent /\ last[s] = Nothing
    BY <1>1, <1>2 DEF Init, Absent
<1>6. Sound \subseteq L
    BY <1>5 DEF Sound, Copies, Rows, Documents, Absent
<1>7. Book(L)
    <2>1. CountedEvent(e) /\ ~Slow(e) /\ Minted(e)
        BY <1>1, <1>3, LogAssumption DEF Event, CountedEvent, EventOK, Slow, Minted, Closing
    <2>2. IsFiniteSet(L)
        BY <1>2, FS_Singleton, Zenon
    <2> QED
        BY <1>2, <1>4, <2>1, <2>2 DEF Book, Logbook
<1>8. \A c \in Copies : Stamp(c) /\ Honest(c)
    <2> SUFFICES ASSUME NEW c \in Copies PROVE Stamp(c) /\ Honest(c)
        OBVIOUS
    <2>1. c.log = L /\ c.row = NewRow
        BY <1>5 DEF Copies, Rows, Documents, Has, Absent
    <2> QED
        BY <1>1, <1>2, <1>7, <2>1, AddIsHonest
<1>9. \A s \in Stores : Backed(s)
    BY <1>5, NothingBacked DEF Backed, Closing
<1>10. Called
    BY <1>2, <1>4, <1>6 DEF Called
<1>11. Once
    BY <1>5, NothingBacked DEF Once, Adjusting
<1>12. Settled(Sound)
    BY <1>2, <1>4, <1>6 DEF Settled
<1> QED
    BY <1>2, <1>4, <1>6, <1>8, <1>9, <1>10, <1>11, <1>12 DEF LedgerInv

\* What holds in every state when the clocks tell one time: the state is what it
\* is made to be, and the ledger of every copy adds up.
Ledgered == StateOK /\ SumInv /\ IInv /\ AgreedLedger

\* The ledger is inductive beside what IInv and SumInv say.
LEMMA LedgerStep ==
    ASSUME Repayable, Ledgered, [Next]_vars
    PROVE  Ledgered'
<1>1. StateOK /\ SumInv /\ IInv /\ (Agree => Told /\ LedgerInv)
    BY DEF Ledgered, IInv, AgreedLedger
<1>2. StateOK' /\ SumInv' /\ IInv'
    BY <1>1, StateStep, SumStep, IInvStep
<1>3. AgreedLedger'
    <2>1. CASE UNCHANGED vars
        <3>1. now' = now /\ scene' = scene /\ copy' = copy /\ doc' = doc /\ last' = last
            BY <2>1 DEF vars
        <3>2. Known' = Known /\ Copies' = Copies /\ (Agree' <=> Agree)
            BY <3>1 DEF Known, Copies, Rows, Documents, Has, Agree
        <3>3. LedgerInv => LedgerInv'
            <4>1. Sound' = Sound
                BY <3>2 DEF Sound
            <4> QED
                BY <3>1, <3>2, <4>1, SoundStays DEF LedgerInv
        <3> QED
            BY <1>1, <3>2, <3>3 DEF AgreedLedger
    <2>2. CASE Next
        <3> SUFFICES ASSUME Agree' PROVE LedgerInv'
            BY DEF AgreedLedger
        <3>1. Agree
            BY <1>1, <2>2, SceneStays DEF Agree
        <3>2. Told /\ LedgerInv
            BY <1>1, <3>1
        <3>3. Sync \/ \E s \in Stores : Has(s) /\ (UserEdit(s, copy[s].row) \/ Undo(s, copy[s].row))
            BY <2>2 DEF Next
        <3>4. Sync => LedgerInv'
            BY <1>1, <3>2, LedgerExport, LedgerMerge DEF Sync
        <3> QED
            BY <1>1, <3>1, <3>2, <3>3, <3>4, LedgerEdit
    <2> QED
        BY <2>1, <2>2
<1> QED
    BY <1>2, <1>3 DEF Ledgered

\* The ledger adds up in every state, when the clocks tell one time.
LEMMA LedgerAlways ==
    ASSUME Repayable
    PROVE  Spec => []Ledgered
<1>1. Init => Ledgered
    BY StateStart, SumStart, ToldStart, LedgerStart DEF Ledgered, IInv, AgreedLedger
<1>2. Ledgered /\ [Next]_vars => Ledgered'
    BY LedgerStep
<1> QED
    BY <1>1, <1>2, PTL DEF Spec

-----------------------------------------------------------------------------
(* What a total is worth *)

\* A total is what its log counts and what was there before the log began, on
\* every copy and document whose log tells of every close, by whatever merges it
\* came to be: no second is lost and none counted twice (merged_tracked).
THEOREM LogExplainsTotalCorrect ==
    ASSUME Repayable
    PROVE  Spec => []LogExplainsTotal
<1>1. Ledgered => LogExplainsTotal
    BY DEF Ledgered, AgreedLedger, LedgerInv, Clean, Honest, Explained, LogExplainsTotal
<1> QED
    BY <1>1, LedgerAlways, PTL

\* What a log says of the row it was written for.
LEMMA LogTellsRow ==
    ASSUME Ledgered, TagsFollowLog, Agree, NEW a \in Copies, NEW b \in Copies, a.log = b.log
    PROVE  /\ Shaped(a.row) /\ Shaped(b.row)
           /\ a.row.status = b.row.status /\ a.row.since = b.row.since /\ a.row.title = b.row.title
           /\ Clean(a.log) => a.row.tracked = b.row.tracked /\ a.row.adj = b.row.adj
           /\ a.row.modified = b.row.modified /\ a.row.tags = b.row.tags
<1> DEFINE L == a.log
<1>1. Told /\ LedgerInv /\ StateOK /\ SumInv
    BY DEF Ledgered, IInv, AgreedLedger
<1>2. /\ Counted(a) /\ CopyOK(a) /\ Counted(b) /\ CopyOK(b)
    BY <1>1, CopiesCounted
<1>3. Shaped(a.row) /\ Shaped(b.row) /\ a.row.modified \in Nat /\ b.row.modified \in Nat
    BY <1>2 DEF CopyOK, RowOK
<1>4. Stamp(a) /\ Stamp(b) /\ (Clean(L) => Honest(a) /\ Honest(b))
    BY <1>1 DEF LedgerInv
<1>5. Value(a.row, "status") = Value(b.row, "status") /\ Value(a.row, "title") = Value(b.row, "title")
    BY <1>1 DEF Told, Alike, Scalar
<1>6. a.row.status = b.row.status /\ a.row.since = b.row.since /\ a.row.title = b.row.title
    BY <1>5 DEF Value
<1>7. a.row.modified = b.row.modified
    <2>1. Stamp(a) /\ Stamp(b)
        BY <1>4
    <2>2. PICK x \in L : x.at = a.row.modified
        BY <2>1 DEF Stamp
    <2>3. PICK y \in L : y.at = b.row.modified
        BY <2>1 DEF Stamp
    <2>4. x.at <= b.row.modified /\ y.at <= a.row.modified
        BY <2>1, <2>2, <2>3 DEF Stamp
    <2> QED
        BY <1>3, <2>2, <2>3, <2>4
<1>8. a.row.tags = b.row.tags
    BY DEF TagsFollowLog
<1>9. ASSUME Clean(L) PROVE a.row.tracked = b.row.tracked /\ a.row.adj = b.row.adj
    <2>1. Beyond(a) = Beyond(b)
        BY <1>4, <1>9 DEF Honest, Explained
    <2>2. Running(a.row) = Running(b.row)
        BY <1>6 DEF Running
    <2>3. PICK x, y : x = Tracked(L, Running(a.row)) /\ y = Adjusted(L)
        OBVIOUS
    <2>4. /\ Beyond(a) = [tracked |-> a.row.tracked - x, adj |-> a.row.adj - y]
          /\ Beyond(b) = [tracked |-> b.row.tracked - x, adj |-> b.row.adj - y]
        BY <2>2, <2>3 DEF Beyond
    <2>5. a.row.tracked - x = b.row.tracked - x /\ a.row.adj - y = b.row.adj - y
        <3>1. /\ Beyond(a).tracked = a.row.tracked - x /\ Beyond(a).adj = a.row.adj - y
              /\ Beyond(b).tracked = b.row.tracked - x /\ Beyond(b).adj = b.row.adj - y
            <4>1. PICK p, q, u, v : /\ p = a.row.tracked - x /\ q = a.row.adj - y
                                    /\ u = b.row.tracked - x /\ v = b.row.adj - y
                OBVIOUS
            <4>2. Beyond(a) = [tracked |-> p, adj |-> q] /\ Beyond(b) = [tracked |-> u, adj |-> v]
                BY <2>4, <4>1, Zenon
            <4> QED
                BY <4>1, <4>2
        <3>2. Beyond(a).tracked = Beyond(b).tracked /\ Beyond(a).adj = Beyond(b).adj
            BY <2>1
        <3> QED
            BY <3>1, <3>2
    <2>6. x \in Int /\ y \in Int
        <3>1. Ready
            BY <1>1, LedgerReady
        <3>2. Book(L) /\ Rooted(L)
            BY <1>4, <1>9, <3>1, CopyBook DEF Honest
        <3> QED
            BY <2>3, <3>2, PartsNatural
    <2>7. /\ a.row.tracked \in Int /\ b.row.tracked \in Int /\ a.row.adj \in Int /\ b.row.adj \in Int
        BY <1>2 DEF Counted, CountedRow
    <2> QED
        BY <2>5, <2>6, <2>7
<1> QED
    BY <1>3, <1>6, <1>7, <1>8, <1>9

LEMMA ButTotalIs ==
    ASSUME NEW row, Shaped(row)
    PROVE  ButTotal(ButClaim(row)) =
                [status |-> row.status, since |-> row.since, title |-> row.title, claim |-> 0,
                 tracked |-> 0, adj |-> 0, modified |-> row.modified, tags |-> row.tags, rev |-> 0]
<1>1. PICK m : m = Visible(row)
    OBVIOUS
<1>2. m = [status |-> row.status, since |-> row.since, title |-> row.title, claim |-> row.claim,
           tracked |-> row.tracked, adj |-> row.adj, modified |-> row.modified, tags |-> row.tags,
           rev |-> 0]
    BY <1>1 DEF Shaped, Visible
<1>3. ButClaim(row) = [m EXCEPT !.claim = 0]
    BY <1>1 DEF ButClaim
<1>4. ButTotal(ButClaim(row)) = [[m EXCEPT !.claim = 0] EXCEPT !.tracked = 0, !.adj = 0]
    BY <1>3 DEF ButTotal
<1> QED
    BY <1>2, <1>4

\* The row follows from its log: two stores that know the same events hold the
\* same row but for the claim, in whatever order, and out of however old
\* documents, they have merged them; and the same total, when the log tells of
\* every close.
THEOREM SameHistorySameRowCorrect ==
    ASSUME Repayable
    PROVE  Spec => []SameHistorySameRow
<1>1. Ledgered /\ TagsFollowLog => SameHistorySameRow
    <2> SUFFICES ASSUME Ledgered, TagsFollowLog, Agree, NEW a \in Copies, NEW b \in Copies, a.log = b.log
                 PROVE  /\ ButTotal(ButClaim(a.row)) = ButTotal(ButClaim(b.row))
                        /\ Clean(a.log) => a.row.tracked = b.row.tracked /\ a.row.adj = b.row.adj
        BY DEF SameHistorySameRow, Clean
    <2>1. /\ Shaped(a.row) /\ Shaped(b.row)
          /\ a.row.status = b.row.status /\ a.row.since = b.row.since /\ a.row.title = b.row.title
          /\ Clean(a.log) => a.row.tracked = b.row.tracked /\ a.row.adj = b.row.adj
          /\ a.row.modified = b.row.modified /\ a.row.tags = b.row.tags
        BY LogTellsRow
    <2> QED
        BY <2>1, ButTotalIs
<1> QED
    BY <1>1, LedgerAlways, TagsFollowLogCorrect, PTL

\* A log without corrections counts no more than passed since each start.
Started(L) == {e \in L : e.op = "start"}
Passed(L, e) == Secs(e.at, Max({x.at : x \in L}))

\* The instant of a log's newest event.
LEMMA NewestInstant ==
    ASSUME NEW L, Book(L), L # {}
    PROVE  LET top == Max({x.at : x \in L})
           IN  top \in Nat /\ \A x \in L : x.at <= top
<1>1. IsFiniteSet(L) /\ \A e \in L : EventOK(e)
    BY DEF Book, Logbook, CountedEvent
<1>2. PICK S : S = {x.at : x \in L}
    OBVIOUS
<1>3. IsFiniteSet(S) /\ S # {} /\ S \subseteq Nat /\ S \subseteq Int
    <2>1. IsFiniteSet(S)
        <3> DEFINE f == [x \in L |-> x.at]
        <3>1. S = {f[x] : x \in DOMAIN f} /\ IsFiniteSet(DOMAIN f)
            BY <1>1, <1>2
        <3> HIDE DEF f
        <3> QED
            BY <3>1, ValuesFinite
    <2> QED
        BY <1>1, <1>2, <2>1 DEF EventOK
<1>4. PICK top : top = Max(S)
    OBVIOUS
<1>5. top \in S /\ \A x \in S : x <= top
    BY <1>3, <1>4, IntMax, Zenon
<1> QED
    BY <1>2, <1>3, <1>4, <1>5

\* Of a log without corrections: the closed intervals and those left open are each
\* told by the instant of a start, no two by the same.
LEMMA TimedTotal ==
    ASSUME NEW L, Book(L), Rooted(L), L # {}, {e \in L : e.op \in {"adjust_tracked", "modify"}} = {}, NEW r
    PROVE  /\ Resets(L) = {} /\ Tracked(L, r) \in Int
           /\ SumFunction([e \in Started(L) |-> Passed(L, e)]) \in Nat
           /\ Tracked(L, r) <= SumFunction([e \in Started(L) |-> Passed(L, e)])
<1> DEFINE top == Max({x.at : x \in L})
           S == Counts(L)
           f == [i \in Spans(S) |-> Longest(S, i)]
           k == [i \in LeftOpen(L, r) |-> Banked(L, i)]
           g == [e \in Started(L) |-> Passed(L, e)]
           h == [i \in Spans(S) \cup LeftOpen(L, r) |-> CHOOSE e \in Started(L) : e.at = i]
<1>1. top \in Nat /\ \A x \in L : x.at <= top
    BY NewestInstant
<1>2. Resets(L) = {}
    BY DEF Resets
<1>3. S \subseteq Closes(L) /\ Spans(S) \subseteq Spans(Standing(L))
    BY DEF Counts, Standing, Spans
<1>4. /\ Intervals(S) = SumFunction(f) /\ IsFiniteSet(Spans(S))
      /\ \A i \in Spans(S) : Longest(S, i) \in Nat
    BY <1>3, IntervalsAre
<1>5. /\ LeftOpen(L, r) \subseteq Spans(Openings(L)) /\ IsFiniteSet(LeftOpen(L, r))
      /\ LeftSum(L, r) = SumFunction(k)
    BY LeftIs DEF LeftSum
<1>6. Spans(S) \cap LeftOpen(L, r) = {}
    BY <1>3, LeftOpenIs
<1>7. IsFiniteSet(Started(L)) /\ \A e \in Started(L) : Passed(L, e) \in Nat
    <2>1. IsFiniteSet(Started(L))
        BY FS_Subset DEF Started, Book, Logbook
    <2>2. ASSUME NEW e \in Started(L) PROVE Passed(L, e) \in Nat
        <3>1. e \in L
            BY DEF Started
        <3>2. e.at \in Nat
            BY <3>1, BookNumbers
        <3> QED
            BY <1>1, <3>2, SecsOrder DEF Passed
    <2> QED
        BY <2>1, <2>2
<1>8. ASSUME NEW i \in Spans(S)
      PROVE  /\ i \in Nat /\ Longest(S, i) <= Secs(i, top)
             /\ \E o \in Started(L) : o.at = i
    <2>1. PICK c \in S : c.since = i /\ Longest(S, i) = Length(c)
        BY <1>3, LongestIs
    <2>2. c \in L /\ IsClose(c)
        BY <1>3, PartsAre
    <2>3. Length(c) = Secs(i, c.at) /\ c.at \in Nat /\ c.at <= top
        BY <1>1, <2>1, <2>2, LengthNatural, BookNumbers
    <2>4. i \in Nat /\ \E o \in L : o.op = "start" /\ o.at = i
        BY <2>1, <2>2, OpenedIs
    <2>5. Secs(i, c.at) <= Secs(i, top)
        BY <1>1, <2>3, <2>4, SecsOrder
    <2> QED
        BY <2>1, <2>3, <2>4, <2>5 DEF Started
<1>9. ASSUME NEW i \in LeftOpen(L, r)
      PROVE  /\ i \in Nat /\ Banked(L, i) \in Nat /\ Banked(L, i) <= Secs(i, top)
             /\ \E o \in Started(L) : o.at = i
    <2>1. i \in Spans(Openings(L))
        BY <1>5
    <2>2. /\ i \in Nat /\ Banked(L, i) \in Nat
          /\ \E o \in L : o.op = "start" /\ o.at = i
          /\ Banked(L, i) <= Secs(i, top)
        BY <1>1, <2>1, BankedIs
    <2> QED
        BY <2>2 DEF Started
<1>10. \A i \in Spans(S) \cup LeftOpen(L, r) : h[i] \in Started(L) /\ h[i].at = i /\ g[h[i]] = Secs(i, top)
    <2> SUFFICES ASSUME NEW i \in Spans(S) \cup LeftOpen(L, r)
                 PROVE  h[i] \in Started(L) /\ h[i].at = i /\ g[h[i]] = Secs(i, top)
        OBVIOUS
    <2>1. \E o \in Started(L) : o.at = i
        BY <1>8, <1>9
    <2>2. h[i] \in Started(L) /\ h[i].at = i
        BY <2>1
    <2> QED
        BY <2>2 DEF Passed
<1>11. Corrections(L) = {}
    <2>1. \A e \in L : ~IsAdjust(e)
        BY DEF IsAdjust
    <2>2. \A e \in L : ~IsRefund(e)
        BY <2>1 DEF Rooted
    <2> QED
        BY <1>2, <2>1, <2>2 DEF Corrections, Since
<1>12. Adjusted(L) = 0
    <2>1. Adjusted(L) = SumFunction([x \in Corrections(L) |-> Amount(L, x)])
        BY AdjustedIs
    <2>2. PICK p : p = [x \in Corrections(L) |-> Amount(L, x)]
        OBVIOUS
    <2>3. DOMAIN p = {}
        BY <1>11, <2>2
    <2> QED
        BY <2>1, <2>2, <2>3, SumOfNone
<1>13. PICK F, K, G, H : F = f /\ K = k /\ G = g /\ H = h
    OBVIOUS
<1>14. /\ DOMAIN F = Spans(S) /\ DOMAIN K = LeftOpen(L, r) /\ DOMAIN G = Started(L)
       /\ \A i \in DOMAIN F : F[i] \in Int /\ F[i] <= G[H[i]]
       /\ \A i \in DOMAIN K : K[i] \in Int /\ K[i] <= G[H[i]]
       /\ \A e \in DOMAIN G : G[e] \in Nat
       /\ \A i \in DOMAIN F \cup DOMAIN K : H[i] \in DOMAIN G /\ H[i].at = i
    <2>1. DOMAIN F = Spans(S) /\ DOMAIN K = LeftOpen(L, r) /\ DOMAIN G = Started(L)
        BY <1>13
    <2>2. \A i \in Spans(S) \cup LeftOpen(L, r) : H[i] \in Started(L) /\ H[i].at = i /\ G[H[i]] = Secs(i, top)
        BY <1>10, <1>13
    <2>3. \A i \in Spans(S) : F[i] = Longest(S, i)
        BY <1>13
    <2>4. \A i \in LeftOpen(L, r) : K[i] = Banked(L, i)
        BY <1>13
    <2>5. \A e \in Started(L) : G[e] \in Nat
        BY <1>7, <1>13
    <2> HIDE DEF S, top, f, k, g, h
    <2> QED
        BY <1>4, <1>8, <1>9, <2>1, <2>2, <2>3, <2>4, <2>5
<1> HIDE DEF f, k, g, h, S, top
<1>15. \A i, j \in DOMAIN F \cup DOMAIN K : H[i] = H[j] => i = j
    BY <1>14
<1>16. SumFunction(F) + SumFunction(K) <= SumFunction(G)
    BY <1>4, <1>5, <1>6, <1>7, <1>14, <1>15, SumsWithin
<1>17. SumFunction(G) \in Nat
    BY <1>7, <1>14, SumOfNaturals
<1>18. Tracked(L, r) = SumFunction(F) + SumFunction(K) /\ SumFunction(F) \in Nat /\ SumFunction(K) \in Nat
    <2>1. PICK x, y, z, t : x = Base(L) /\ y = Intervals(Counts(L)) /\ z = LeftSum(L, r) /\ t = Tracked(L, r)
        OBVIOUS
    <2>2. x = 0 /\ y \in Nat /\ z \in Nat /\ t = x + y + 0 + z
        BY <1>2, <1>12, <2>1, PartsNatural DEF Base
    <2>3. y = SumFunction(F) /\ z = SumFunction(K)
        BY <1>4, <1>5, <1>13, <2>1 DEF S
    <2> QED
        BY <2>1, <2>2, <2>3
<1> QED
    BY <1>2, <1>13, <1>16, <1>17, <1>18 DEF g

\* Where time comes from intervals alone, no copy holds more of it than passed
\* between each start and the newest event: an interval that several machines
\* closed, or reopened, or left open counts once.
THEOREM TimeIsLivedCorrect ==
    ASSUME Repayable
    PROVE  Spec => []TimeIsLived
<1>1. Ledgered => TimeIsLived
    <2> SUFFICES ASSUME Ledgered, Agree, NEW c \in Copies,
                        {e \in c.log : e.op \in {"adjust_tracked", "modify"}} = {}
                 PROVE  c.row.tracked <= Earlier + SumFunction([e \in Started(c.log) |-> Passed(c.log, e)])
        BY Zenon DEF TimeIsLived, Started, Passed
    <2>1. Told /\ LedgerInv /\ StateOK /\ SumInv
        BY DEF Ledgered, IInv, AgreedLedger
    <2>2. Ready
        BY <2>1, LedgerReady
    <2>3. Clean(c.log) /\ Honest(c)
        <3>1. Clean(c.log)
            BY DEF Clean, Blind
        <3> QED
            BY <2>1, <3>1 DEF LedgerInv
    <2>4. Book(c.log) /\ Rooted(c.log) /\ c.log # {} /\ Counted(c)
        BY <2>2, <2>3, CopyBook DEF Honest
    <2>5. PICK x, y : x = Tracked(c.log, Running(c.row)) /\ y = SumFunction([e \in Started(c.log) |-> Passed(c.log, e)])
        OBVIOUS
    <2>6. Resets(c.log) = {} /\ x \in Int /\ y \in Nat /\ x <= y
        BY <2>4, <2>5, TimedTotal
    <2>7. c.row.tracked - x = Earlier
        BY <2>3, <2>5, <2>6 DEF Honest, Explained, Beyond
    <2>8. c.row.tracked \in Int /\ Earlier \in Nat
        BY <2>4, StoresAssumption DEF Counted, CountedRow
    <2> QED
        BY <2>5, <2>6, <2>7, <2>8
<1> QED
    BY <1>1, LedgerAlways, PTL
=============================================================================
