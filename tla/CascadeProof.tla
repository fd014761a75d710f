----------------------------- MODULE CascadeProof -----------------------------
(***************************************************************************)
(* What holds of the cascade for any cases, and any contents of the tables   *)
(* that it goes by: what is set while row after row is changed in place.      *)
(***************************************************************************)
EXTENDS Cascade, EnrichProof, TLAPS

\* Which source is in hand.
InPlace ==
  /\ case \in Cases /\ at \in 1..(Len(case) + 1)
  /\ step \in {"fold", "enrich", "derive", "stix", "built"}
  /\ DOMAIN trees = DOMAIN case
  /\ \A s \in DOMAIN trees : trees[s] # NoTree => s <= at

\* Between two sources no rows are in hand.
Waiting == raw = <<>> /\ rows = <<>> /\ turn = 1

\* The rows of a source once they are folded.
Working ==
  /\ at \in DOMAIN case
  /\ raw = FoldEvents(Parsed(case[at]), "additive")
  /\ List(raw, Len(raw)) /\ Cascading(raw, rows, Len(raw), turn)
  /\ step # "enrich" => turn = Len(raw) + 1

IInv ==
  /\ InPlace
  /\ Built => step = "fold"
  /\ IF step = "fold" THEN Waiting ELSE Working

-----------------------------------------------------------------------------
(* The rows before the cascade *)

LEMMA IsListHas ==
  ASSUME NEW list, IsList(list)
  PROVE  Len(list) \in Nat /\ DOMAIN list = 1..Len(list) /\ List(list, Len(list))
<1> DEFINE S == {list[k] : k \in DOMAIN list}
<1>1. list \in Seq(S)
  BY DEF IsList
<1> HIDE DEF S
<1>2. Len(list) \in Nat /\ list \in [1..Len(list) -> S]
  BY <1>1
<1> QED
  BY <1>2 DEF List

LEMMA CaseHas ==
  ASSUME case \in Cases
  PROVE  /\ Len(case) \in Nat /\ DOMAIN case = 1..Len(case)
         /\ \A s \in DOMAIN case : /\ IsList(case[s].rows)
                                   /\ \A k \in DOMAIN case[s].rows : Complete(case[s].rows[k])
BY CasesAssumption, IsListHas DEF IsRow, Complete, TargetOfThread

LEMMA PassthroughIsComplete ==
  ASSUME NEW row, Complete(row)
  PROVE  Complete(Passthrough(row))
<1> DEFINE kept == {"car_object", "source_host", "timestamp", "native.target_process_guid"}
           named == IF Get(row, "user") \in DOMAIN UserCanon
                    THEN Put(row, "user", UserCanon[row["user"]]) ELSE row
           parent == IF Get(row, "link_confidence") = "definitive" /\ row["car_object"] = "process"
                     THEN Fill(named, "native.ParentProcessGuid", Get(row, "parent_guid")) ELSE named
           last == Passthrough(row)
<1>1. \A f \in kept : Same(row, named, f)
  <2>1. \A f \in kept : Same(row, row, f)
    BY DEF Same
  <2>2. \A f \in kept : Same(row, Put(row, "user", UserCanon[row["user"]]), f)
    BY PutIs
  <2> QED
    BY <2>1, <2>2
<1> HIDE DEF named
<1>2. \A f \in kept : Same(named, parent, f)
  <2>1. \A f \in kept : Same(named, named, f)
    BY DEF Same
  <2>2. PICK v : v = Get(row, "parent_guid")
    OBVIOUS
  <2>3. \A f \in kept : Same(named, Over(named, [g \in {"native.ParentProcessGuid"} |-> v]), f)
    BY DEF Over, Same
  <2>4. \A f \in kept : Same(named, Fill(named, "native.ParentProcessGuid", v), f)
    BY <2>1, <2>3 DEF Fill
  <2> QED
    BY <2>1, <2>2, <2>4
<1>3. \A f \in kept : Same(parent, last, f)
  <2>1. last \in {Put(parent, "owning_guid_native", Get(row, "owning_guid")),
                  Without(parent, {"owning_guid_native"})}
    BY DEF Passthrough, named
  <2> HIDE DEF parent, last
  <2>2. \A f \in kept : Same(parent, Put(parent, "owning_guid_native", Get(row, "owning_guid")), f)
    BY PutIs
  <2>3. \A f \in kept : Same(parent, Without(parent, {"owning_guid_native"}), f)
    BY WithoutIs
  <2> QED
    BY <2>1, <2>2, <2>3
<1> HIDE DEF parent, last
<1>4. \A f \in kept : Same(row, last, f)
  BY <1>1, <1>2, <1>3 DEF Same
<1> QED
  BY <1>4 DEF Complete, TargetOfThread, Same, Time, OrElse, Has, last

\* What the parser hands to the fold.
LEMMA ParsedIsComplete ==
  ASSUME case \in Cases, NEW s \in DOMAIN case
  PROVE  \E n : List(Parsed(case[s]), n) /\ \A k \in 1..n : Complete(Parsed(case[s])[k])
<1> DEFINE list == case[s].rows
           n == Len(list)
<1>1. IsList(list) /\ \A k \in DOMAIN list : Complete(list[k])
  BY CaseHas
<1> HIDE DEF list
<1>2. DOMAIN list = 1..n /\ List(list, n)
  BY <1>1, IsListHas
<1>3. CASE case[s].passthrough
  <2>1. Parsed(case[s]) = [k \in 1..n |-> Passthrough(list[k])]
    BY <1>2, <1>3 DEF Parsed, list
  <2>2. List(Parsed(case[s]), n)
    BY <1>2, <2>1 DEF List
  <2>3. \A k \in 1..n : Complete(Parsed(case[s])[k])
    BY <1>1, <1>2, <2>1, PassthroughIsComplete
  <2> QED
    BY <2>2, <2>3
<1>4. CASE ~case[s].passthrough
  <2>1. Parsed(case[s]) = list
    BY <1>4 DEF Parsed, list
  <2> QED
    BY <1>1, <1>2, <2>1
<1> QED
  BY <1>3, <1>4

\* What is in hand when a source is folded.
LEMMA FoldedRows ==
  ASSUME case \in Cases, NEW s \in DOMAIN case
  PROVE  LET folded == FoldEvents(Parsed(case[s]), "additive")
         IN  List(folded, Len(folded)) /\ Cascading(folded, folded, Len(folded), 1)
<1> DEFINE list == Parsed(case[s])
           folded == FoldEvents(list, "additive")
<1>1. PICK n : List(list, n) /\ \A k \in 1..n : Complete(list[k])
  BY ParsedIsComplete
<1> HIDE DEF list
<1>2. PICK m \in Nat : List(folded, m) /\ \A q \in 1..m : Complete(folded[q])
  BY <1>1, FoldIs
<1> HIDE DEF folded
<1>3. Len(folded) = m
  BY <1>2, LenIs
<1>4. Cascading(folded, folded, m, 1)
  BY <1>2, CascadeBegins
<1> QED
  BY <1>2, <1>3, <1>4 DEF folded, list

-----------------------------------------------------------------------------
(* The invariant *)

LEMMA InitEstablishes == Init => IInv
<1> SUFFICES ASSUME Init PROVE IInv
  OBVIOUS
<1>1. case \in Cases /\ at = 1 /\ step = "fold" /\ Waiting
  BY DEF Init, Waiting
<1>2. Len(case) \in Nat
  BY <1>1, CaseHas
<1>3. InPlace
  BY <1>1, <1>2 DEF Init, InPlace
<1> QED
  BY <1>1, <1>3 DEF IInv

\* The rows of the source in hand have as many places as when they were folded.
LEMMA WorkingHas ==
  ASSUME Working
  PROVE  /\ Len(raw) \in Nat /\ Len(rows) = Len(raw) /\ turn \in 1..(Len(raw) + 1)
         /\ DOMAIN raw = 1..Len(raw) /\ DOMAIN rows = 1..Len(raw)
<1>1. List(raw, Len(raw)) /\ List(rows, Len(raw)) /\ turn \in 1..(Len(raw) + 1)
  BY DEF Working, Cascading
<1>2. Len(rows) = Len(raw)
  BY <1>1, LenIs
<1> QED
  BY <1>1, <1>2 DEF List

\* Only rows in hand are changed, and as the cascade changes them.
LEMMA StepKeeps == IInv /\ [Next]_vars => IInv'
<1> SUFFICES ASSUME IInv, [Next]_vars PROVE IInv'
  OBVIOUS
<1>1. InPlace /\ Len(case) \in Nat /\ DOMAIN case = 1..Len(case)
  BY CaseHas DEF IInv, InPlace
<1>2. CASE Fold
  <2>1. /\ step = "fold" /\ at \in DOMAIN case
        /\ raw' = FoldEvents(Parsed(case[at]), "additive") /\ rows' = raw' /\ turn' = 1 /\ step' = "enrich"
        /\ case' = case /\ at' = at /\ trees' = trees
    BY <1>1, <1>2 DEF Fold, Built, InPlace
  <2>2. List(raw', Len(raw')) /\ Cascading(raw', rows', Len(raw'), turn')
    BY <1>1, <2>1, FoldedRows DEF InPlace
  <2>3. InPlace'
    BY <1>1, <2>1 DEF InPlace
  <2>4. Working'
    BY <2>1, <2>2 DEF Working
  <2>5. ~Built'
    BY <1>2, <2>1 DEF Fold, Built
  <2> QED
    BY <2>1, <2>3, <2>4, <2>5 DEF IInv
<1>3. CASE EnrichNext
  <2>1. /\ step = "enrich" /\ turn <= Len(rows) /\ rows' = EnrichRow(raw, rows, turn) /\ turn' = turn + 1
        /\ case' = case /\ at' = at /\ step' = step /\ raw' = raw /\ trees' = trees
    BY <1>3 DEF EnrichNext
  <2>2. Working
    BY <2>1 DEF IInv
  <2>3. turn \in 1..Len(raw) /\ Cascading(raw, rows, Len(raw), turn)
    BY <2>1, <2>2, WorkingHas DEF Working
  <2>4. Cascading(raw, EnrichRow(raw, rows, turn), Len(raw), turn + 1)
    BY <2>3, TurnKeeps
  <2>5. Working'
    BY <2>1, <2>2, <2>4 DEF Working
  <2>6. InPlace' /\ ~Built'
    BY <1>1, <2>1 DEF InPlace, IInv, Built
  <2> QED
    BY <2>1, <2>5, <2>6 DEF IInv
<1>4. CASE Export
  <2>1. /\ step = "enrich" /\ turn > Len(rows) /\ step' = "derive"
        /\ \E tree : trees' = [trees EXCEPT ![at] = tree]
        /\ case' = case /\ at' = at /\ raw' = raw /\ rows' = rows /\ turn' = turn
    BY <1>4 DEF Export
  <2>2. Working
    BY <2>1 DEF IInv
  <2>3. turn = Len(raw) + 1
    BY <2>1, <2>2, WorkingHas
  <2>4. Working'
    BY <2>1, <2>2, <2>3 DEF Working
  <2>5. InPlace'
    BY <1>1, <2>1 DEF InPlace
  <2>6. ~Built'
    BY <2>1 DEF IInv, Built
  <2> QED
    BY <2>1, <2>4, <2>5, <2>6 DEF IInv
<1>5. CASE DerivePass \/ NoDerivePass \/ StixPass
  <2>1. /\ step \in {"derive", "stix"} /\ step' \in {"stix", "built"}
        /\ trees' = trees \/ \E tree : trees' = [trees EXCEPT ![at] = tree]
        /\ case' = case /\ at' = at /\ raw' = raw /\ rows' = rows /\ turn' = turn
    <3>1. CASE DerivePass
      BY <3>1 DEF DerivePass
    <3>2. CASE NoDerivePass
      BY <3>2 DEF NoDerivePass
    <3>3. CASE StixPass
      BY <3>3 DEF StixPass
    <3> QED
      BY <1>5, <3>1, <3>2, <3>3
  <2>2. Working
    BY <2>1 DEF IInv
  <2>3. Working'
    BY <2>1, <2>2 DEF Working
  <2>4. InPlace'
    BY <1>1, <2>1 DEF InPlace
  <2>5. ~Built'
    BY <2>1 DEF IInv, Built
  <2> QED
    BY <2>1, <2>3, <2>4, <2>5 DEF IInv
<1>6. CASE NextSource
  <2>1. /\ step = "built" /\ at' = at + 1 /\ step' = "fold" /\ raw' = <<>> /\ rows' = <<>> /\ turn' = 1
        /\ case' = case /\ trees' = trees
    BY <1>6 DEF NextSource
  <2>2. Working
    BY <2>1 DEF IInv
  <2>3. at \in 1..Len(case)
    BY <1>1, <2>2 DEF Working
  <2>4. InPlace'
    <3>1. \A s \in DOMAIN trees : trees[s] # NoTree => s <= at + 1
      BY <1>1, <2>3 DEF InPlace
    <3>2. at + 1 \in 1..(Len(case) + 1)
      BY <1>1, <2>3
    <3> QED
      BY <1>1, <2>1, <3>1, <3>2 DEF InPlace
  <2>5. Waiting'
    BY <2>1 DEF Waiting
  <2> QED
    BY <2>1, <2>4, <2>5 DEF IInv
<1>7. CASE \E s \in DOMAIN case : Rederive(s)
  <2>1. PICK s \in DOMAIN case : Rederive(s)
    BY <1>7
  <2>2. /\ Built /\ \E tree : trees' = [trees EXCEPT ![s] = tree]
        /\ case' = case /\ at' = at /\ step' = step /\ raw' = raw /\ rows' = rows /\ turn' = turn
    BY <2>1 DEF Rederive
  <2>3. step = "fold" /\ Waiting
    BY <2>2 DEF IInv
  <2>4. s <= at
    BY <1>1, <2>2 DEF Built, InPlace
  <2>5. InPlace'
    BY <1>1, <2>2, <2>4 DEF InPlace
  <2>6. Waiting'
    BY <2>2, <2>3 DEF Waiting
  <2> QED
    BY <2>2, <2>3, <2>5, <2>6 DEF IInv
<1>8. CASE ConvergeCase \/ UNCHANGED vars
  <2>1. case' = case /\ at' = at /\ step' = step /\ raw' = raw /\ rows' = rows /\ turn' = turn /\ trees' = trees
    BY <1>8 DEF ConvergeCase, vars
  <2>2. InPlace' /\ (Built' <=> Built) /\ (Waiting' <=> Waiting) /\ (Working' <=> Working)
    BY <1>1, <2>1 DEF InPlace, Built, Waiting, Working
  <2> QED
    BY <2>1, <2>2 DEF IInv
<1> QED
  BY <1>2, <1>3, <1>4, <1>5, <1>6, <1>7, <1>8 DEF Next

LEMMA Invariant == Spec => []IInv
<1>1. Init => IInv
  BY InitEstablishes
<1>2. IInv /\ [Next]_vars => IInv'
  BY StepKeeps
<1> QED
  BY <1>1, <1>2, PTL DEF Spec

-----------------------------------------------------------------------------
(* The properties *)

LEMMA TypeHolds == IInv => TypeOK
<1> SUFFICES ASSUME IInv PROVE TypeOK
  OBVIOUS
<1>1. InPlace /\ Len(case) \in Nat
  BY CaseHas DEF IInv, InPlace
<1>2. CASE step = "fold"
  <2>1. rows = <<>> /\ raw = <<>> /\ turn = 1
    BY <1>2 DEF IInv, Waiting
  <2> QED
    BY <1>1, <2>1 DEF TypeOK, InPlace
<1>3. CASE step # "fold"
  <2>1. Working
    BY <1>3 DEF IInv
  <2>2. /\ Len(rows) = Len(raw) /\ turn \in 1..(Len(rows) + 1) /\ DOMAIN rows = 1..Len(raw)
    BY <2>1, WorkingHas
  <2>3. \A k \in 1..Len(raw) : Complete(raw[k]) /\ OnlySets(raw[k], rows[k], LinkColumns)
    BY <2>1 DEF Working, Cascading
  <2>4. \A k \in 1..Len(raw) : \A f \in JoinColumns : Same(raw[k], rows[k], f)
    BY <2>3, JoinsStay
  <2>5. \A k \in DOMAIN rows : \A f \in {"car_object", "source_host"} : rows[k][f] = raw[k][f]
    <3>1. {"car_object", "source_host"} \subseteq JoinColumns
      BY DEF JoinColumns, ReferenceColumns
    <3>2. \A k \in 1..Len(raw) : {"car_object", "source_host"} \subseteq DOMAIN raw[k]
      BY <2>3 DEF Complete
    <3> QED
      BY <2>2, <2>4, <3>1, <3>2 DEF Same
  <2> QED
    BY <1>1, <2>2, <2>5 DEF TypeOK, InPlace
<1> QED
  BY <1>2, <1>3

\* The places of the rows of a source, its list of fields and its tree stay together at
\* every step, whatever rows the parser hands over (pipeline.process_file: the loop goes
\* over the list that it changes).
THEOREM TypeCorrect == Spec => []TypeOK
BY Invariant, TypeHolds, PTL

LEMMA EvidenceHolds == IInv => EvidenceStays
<1> SUFFICES ASSUME IInv PROVE EvidenceStays
  OBVIOUS
<1> DEFINE list == Parsed(case[at])
           kept(q, r) ==
             /\ \A f \in Evidence(r) :
                  \/ Has(q, f) /\ q[f] = r[f]
                  \/ <<f, Get(r, "source_artefact"), r[f]>> \in OrElse(q, "native.coalesced_conflicts", {})
             /\ Get(r, "source_artefact") \in
                  {Get(q, "source_artefact")} \cup OrElse(q, "native.coalesced_sources", {})
           folds == \A k \in DOMAIN list : \E q \in DOMAIN raw :
                      IF Has(list[k], "guid") THEN SameEvent(raw[q], list[k]) /\ kept(raw[q], list[k])
                      ELSE raw[q] = list[k]
           once == \A p, q \in DOMAIN raw : SameEvent(raw[p], raw[q]) => p = q
           stays == \A k \in DOMAIN rows : \A f \in DOMAIN raw[k] \ LinkColumns :
                      /\ Has(rows[k], f)
                      /\ rows[k][f] = raw[k][f] \/ (f = "user" /\ raw[k][f] \in Aliases)
<1>1. CASE step = "fold"
  <2>1. DOMAIN raw = {} /\ DOMAIN rows = {}
    BY <1>1 DEF IInv, Waiting
  <2> QED
    BY <1>1, <2>1 DEF EvidenceStays
<1>2. CASE step # "fold"
  <2>1. Working /\ InPlace
    BY <1>2 DEF IInv
  <2>2. DOMAIN rows = DOMAIN raw /\ DOMAIN raw = 1..Len(raw)
    BY <2>1, WorkingHas
  <2>3. PICK n : List(list, n)
    BY <2>1, ParsedIsComplete DEF Working, InPlace
  <2>4. DOMAIN list = 1..n
    BY <2>3 DEF List
  <2> DEFINE folded == FoldEvents(list, "additive")
  <2>5. raw = folded
    BY <2>1 DEF Working
  <2> HIDE DEF list
  <2>6. PICK m \in Nat :
          /\ List(folded, m)
          /\ \A k \in 1..n : \E q \in 1..m :
               IF Has(list[k], "guid") THEN SameEvent(folded[q], list[k]) /\ KeptBy(folded[q], list[k])
               ELSE folded[q] = list[k]
          /\ \A p, q \in 1..m : SameEvent(folded[p], folded[q]) => p = q
    BY <2>3, FoldIs
  <2> HIDE DEF folded
  <2>7. DOMAIN raw = 1..m
    BY <2>5, <2>6 DEF List
  <2>8. folds
    BY <2>4, <2>5, <2>6, <2>7 DEF KeptBy
  <2>9. once
    BY <2>5, <2>6, <2>7
  <2>10. stays
    <3>1. \A k \in DOMAIN rows : Says(raw[k], rows[k])
      BY <2>1, <2>2 DEF Working, Cascading, OnlySets
    <3> QED
      BY <3>1 DEF Says, Has
  <2> HIDE DEF folds, once, stays
  <2> QED
    BY <2>8, <2>9, <2>10 DEF EvidenceStays, folds, once, stays, list
<1> QED
  BY <1>1, <1>2

\* No run of the cascade loses or changes what a record says: the fold keeps it, as a value
\* or as a conflict, every event has one row, and each turn of the loop sets links and
\* nothing else (enrich.py fold, _merge_into, enrich: inheritance fills only nulls).
THEOREM EvidenceAlwaysStays == Spec => []EvidenceStays
BY Invariant, EvidenceHolds, PTL

LEMMA SessionsHold == IInv => SessionsAgree
<1> SUFFICES ASSUME IInv,
                    NEW k \in DOMAIN rows,
                    Has(rows[k], "native.session_logout_guid"), ~Has(raw[k], "native.session_logout_guid")
             PROVE  \E j \in DOMAIN rows :
                      /\ SameHost(rows[j], rows[k])
                      /\ Get(rows[j], "guid") = rows[k]["native.session_logout_guid"]
                      /\ Get(rows[j], "native.session_login_guid") = Get(rows[k], "guid")
                      /\ OrElse(rows[k], "native.session_end", 0) = Time(rows[j])
  BY DEF SessionsAgree
<1>1. Working
  BY DEF IInv, Waiting
<1>2. DOMAIN rows = 1..Len(raw) /\ turn \in 1..(Len(raw) + 1) /\ Len(raw) \in Nat
  BY <1>1, WorkingHas
<1>3. Agreed(rows, k, turn)
  BY <1>1, <1>2 DEF Closed, Working, Cascading
<1>4. \A j \in 1..(turn - 1) : j \in DOMAIN rows
  BY <1>2
<1>5. Get(rows[k], "native.session_logout_guid") = rows[k]["native.session_logout_guid"]
  BY DEF Get, OrElse
<1> QED
  BY <1>3, <1>4, <1>5 DEF Agreed

\* A session whose end the cascade found names the logout that ended it last, and that logout
\* names the session, after every turn of the loop, however many logouts there are and in
\* whatever order they were recorded (enrich.py _pair_session_lifecycle).
THEOREM SessionsAlwaysAgree == Spec => []SessionsAgree
BY Invariant, SessionsHold, PTL

\* Once all rows had their turn, each that was given a process by its pid has a holder.
LEMMA GivenHasHolder ==
  ASSUME IInv, Enriched, NEW link \in LineageLinks, NEW k \in ByWindow(link[1], link[2])
  PROVE  /\ k \in 1..Len(raw) /\ Working
         /\ \E c \in 1..Len(raw) :
              /\ Get(raw[c], "guid") = rows[k][link[1]]
              /\ HeldBy(raw, c, Get(raw[k], "source_host"), PidOf[raw[k][link[2]]], Time(raw[k]))
<1>1. Working /\ step = "derive"
  BY DEF IInv, Enriched
<1>2. DOMAIN rows = 1..Len(raw) /\ Len(raw) \in Nat /\ turn = Len(raw) + 1
  BY <1>1, WorkingHas DEF Working
<1>3. k \in 1..Len(raw) /\ k < turn
  BY <1>2 DEF ByWindow
<1>4. Given(raw, rows, k, link)
  BY DEF ByWindow, Given
<1>5. HasHolder(raw, rows, Len(raw), k, link)
  BY <1>1, <1>3, <1>4 DEF Working, Cascading, LineageHolds
<1>6. Get(rows[k], link[1]) = rows[k][link[1]]
  BY <1>4 DEF Given, Get, OrElse
<1> QED
  BY <1>1, <1>3, <1>5, <1>6 DEF HasHolder

LEMMA HeldIs ==
  ASSUME Working, NEW c \in 1..Len(raw), NEW host, NEW pid, NEW now, HeldBy(raw, c, host, pid, now)
  PROVE  Opened(c) /\ Held(c, host, pid, now)
<1>1. \A d : Ends(d) = EndsOf(raw, raw[d])
  BY DEF Ends, EndsOf
<1>2. \A d : EndedBefore(d, now) <=> Ended(raw, d, now)
  BY <1>1 DEF EndedBefore, Ended
<1>3. \A d : Opens(raw, d, host, pid)
               <=> Opened(d) /\ Get(raw[d], "source_host") = host /\ PidOf[raw[d]["pid"]] = pid
  BY DEF Opens, Opened
<1> QED
  BY <1>1, <1>2, <1>3 DEF HeldBy, Held

LEMMA OwnerHolds == IInv => OwnerHeldThePid
<1> SUFFICES ASSUME IInv, Enriched, NEW link \in LineageLinks, NEW k \in ByWindow(link[1], link[2])
             PROVE  \E c \in DOMAIN raw :
                      /\ Opened(c) /\ Get(raw[c], "guid") = rows[k][link[1]]
                      /\ Held(c, Get(raw[k], "source_host"), PidOf[raw[k][link[2]]], Time(raw[k]))
  BY DEF OwnerHeldThePid, LineageLinks
<1>1. Working
  BY GivenHasHolder
<1>2. PICK c \in 1..Len(raw) :
        /\ Get(raw[c], "guid") = rows[k][link[1]]
        /\ HeldBy(raw, c, Get(raw[k], "source_host"), PidOf[raw[k][link[2]]], Time(raw[k]))
  BY GivenHasHolder
<1>3. DOMAIN raw = 1..Len(raw)
  BY <1>1, WorkingHas
<1> QED
  BY <1>1, <1>2, <1>3, HeldIs

\* A row that the cascade gives to a process by its pid, as to its owner or its parent, falls
\* in the lifetime of a process that had that pid, and no younger one had it then: for any
\* records, any reuse of pids and any order of the rows (enrich.py _by_pid, _match, _alive_at).
THEOREM OwnerAlwaysHeldThePid == Spec => []OwnerHeldThePid
BY Invariant, OwnerHolds, PTL

\* A parent that was found by its pid, and is the only row with its guid, is not younger.
LEMMA ParentIsOlder ==
  ASSUME IInv, Enriched, NEW k \in ByWindow("parent_guid", "parent_pid"),
         NEW p, {d \in DOMAIN rows : /\ IsCreate(rows[d])
                                     /\ Get(rows[d], "source_host") = Get(rows[k], "source_host")
                                     /\ Get(rows[d], "guid") = rows[k]["parent_guid"]} = {p}
  PROVE  p \in 1..Len(raw) /\ Time(rows[p]) <= Time(rows[k])
<1> DEFINE link == <<"parent_guid", "parent_pid">>
<1>1. link \in LineageLinks /\ link[1] = "parent_guid" /\ link[2] = "parent_pid"
  BY DEF LineageLinks
<1> HIDE DEF link
<1>2. k \in 1..Len(raw) /\ Working
  BY <1>1, GivenHasHolder
<1>3. PICK c \in 1..Len(raw) :
        /\ Get(raw[c], "guid") = rows[k]["parent_guid"]
        /\ HeldBy(raw, c, Get(raw[k], "source_host"), PidOf[raw[k]["parent_pid"]], Time(raw[k]))
  BY <1>1, GivenHasHolder
<1>4. \A j \in 1..Len(raw) : \A f \in JoinColumns : Same(raw[j], rows[j], f)
  <2>1. \A j \in 1..Len(raw) : OnlySets(raw[j], rows[j], LinkColumns)
    BY <1>2 DEF Working, Cascading
  <2> QED
    BY <2>1, JoinsStay
<1>5. \A j \in 1..Len(raw) : /\ Get(raw[j], "guid") = Get(rows[j], "guid") /\ Time(raw[j]) = Time(rows[j])
                             /\ Get(raw[j], "source_host") = Get(rows[j], "source_host")
                             /\ Get(raw[j], "car_action") = Get(rows[j], "car_action")
  BY <1>4, SameJoins
<1>6. IsCreate(raw[c]) /\ Get(raw[c], "source_host") = Get(raw[k], "source_host") /\ Time(raw[c]) <= Time(raw[k])
  BY <1>3 DEF HeldBy, Opens
<1>7. IsCreate(rows[c])
  <2>1. "car_object" \in DOMAIN raw[c]
    BY <1>2 DEF Working, Cascading, Complete
  <2>2. rows[c]["car_object"] = raw[c]["car_object"]
    BY <1>4, <2>1 DEF JoinColumns, ReferenceColumns, Same
  <2> QED
    BY <1>5, <1>6, <2>2 DEF IsCreate
<1>8. c = p
  <2>1. c \in DOMAIN rows
    BY <1>2, WorkingHas
  <2> QED
    BY <1>2, <1>3, <1>5, <1>6, <1>7, <2>1
<1> QED
  BY <1>2, <1>5, <1>6, <1>8

LEMMA AncestryHolds == IInv => AncestryHasNoCycle
<1> DEFINE linked == {k \in ByWindow("parent_guid", "parent_pid") : IsCreate(rows[k])}
           creates(g, host) == {d \in DOMAIN rows : IsCreate(rows[d]) /\ Get(rows[d], "source_host") = host
                                                    /\ Get(rows[d], "guid") = g}
           parents(k) == {c \in linked : creates(rows[k]["parent_guid"], Get(rows[k], "source_host")) = {c}}
           closed(set) == set # {} /\ \A k \in set : parents(k) \cap set # {}
<1> SUFFICES ASSUME IInv, Enriched, NEW way \in SUBSET linked, closed(way),
                    \A less \in SUBSET way : closed(less) => less = way
             PROVE  \A j, k \in way : Time(rows[j]) = Time(rows[k])
  BY DEF AncestryHasNoCycle
<1>1. Working
  BY DEF IInv, Enriched
<1>2. \A k \in linked : \A p \in parents(k) : Time(rows[p]) <= Time(rows[k])
  BY ParentIsOlder
<1>3. \A k \in linked : Time(rows[k]) \in Nat
  <2> TAKE k \in linked
  <2>1. k \in 1..Len(raw)
    BY <1>1, WorkingHas DEF ByWindow
  <2>2. Time(raw[k]) \in Nat /\ OnlySets(raw[k], rows[k], LinkColumns)
    BY <1>1, <2>1 DEF Working, Cascading, Complete
  <2>3. Time(raw[k]) = Time(rows[k])
    BY <2>2, JoinsStay, SameJoins
  <2> QED
    BY <2>2, <2>3
<1> DEFINE times == {Time(rows[k]) : k \in way}
<1>4. times \in SUBSET Nat /\ times # {}
  BY <1>3
<1> HIDE DEF times
<1>5. PICK first \in times : \A t \in times : first <= t
  BY <1>4, LeastIsThere
<1> DEFINE less == {k \in way : Time(rows[k]) = first}
<1>6. less # {}
  BY DEF times
<1> HIDE DEF parents, linked
<1>7. \A k \in less : parents(k) \cap less # {}
  <2> TAKE k \in less
  <2>1. PICK p \in way : p \in parents(k)
    OBVIOUS
  <2>2. Time(rows[p]) <= first
    BY <1>2, <2>1
  <2>3. Time(rows[p]) \in times
    BY DEF times
  <2>4. Time(rows[p]) = first
    BY <1>3, <1>4, <1>5, <2>2, <2>3
  <2> QED
    BY <2>1, <2>4
<1>8. less = way
  BY <1>6, <1>7
<1> QED
  BY <1>8

\* Following parents that were found by pid never leads round, unless all on the way were
\* created at one instant: a parent is not younger than its child, so that the eldest on a
\* way that leads round have parents among themselves (enrich.py enrich: parents by window).
THEOREM AncestryNeverCycles == Spec => []AncestryHasNoCycle
BY Invariant, AncestryHolds, PTL

-----------------------------------------------------------------------------
(* Convergence *)

LEMMA TwoOfThem ==
  ASSUME NEW S, IsFiniteSet(S), NEW x \in S, NEW y \in S, x # y
  PROVE  Cardinality(S) > 1
<1>1. Cardinality(S) \in Nat
  BY FS_CardinalityType
<1>2. Cardinality(S) # 0
  BY FS_EmptySet
<1>3. Cardinality(S) # 1
  BY FS_Singleton
<1> QED
  BY <1>1, <1>2, <1>3

LEMMA CaseRowsAre ==
  ASSUME NEW T
  PROVE  /\ \A s \in DOMAIN T : \A k \in DOMAIN T[s] :
              [source |-> s, index |-> k, row |-> T[s][k]] \in CaseRows(T)
         /\ \A r \in CaseRows(T) : \E s \in DOMAIN T : \E k \in DOMAIN T[s] :
              r = [source |-> s, index |-> k, row |-> T[s][k]]
<1> DEFINE of(s) == {[source |-> s, index |-> k, row |-> T[s][k]] : k \in DOMAIN T[s]}
<1>1. CaseRows(T) = UNION {of(s) : s \in DOMAIN T}
  BY DEF CaseRows
<1>2. \A s \in DOMAIN T : \A k \in DOMAIN T[s] : [source |-> s, index |-> k, row |-> T[s][k]] \in of(s)
  OBVIOUS
<1>3. \A s \in DOMAIN T : \A r \in of(s) : \E k \in DOMAIN T[s] :
        r = [source |-> s, index |-> k, row |-> T[s][k]]
  OBVIOUS
<1> HIDE DEF of
<1> QED
  BY <1>1, <1>2, <1>3

LEMMA SharedHas ==
  ASSUME NEW list, NEW tier, NEW b \in Shared(list, tier)
  PROVE  b.tier = tier /\ b.rows = {r \in list : b.key \in KeysOf(r.row, tier)}
<1> DEFINE bucket(key) == {r \in list : key \in KeysOf(r.row, tier)}
           keys == UNION {KeysOf(r.row, tier) : r \in list}
<1>1. PICK key \in keys : b = [tier |-> tier, key |-> key, rows |-> bucket(key)]
  BY DEF Shared
<1> QED
  BY <1>1

LEMMA SharedIs ==
  ASSUME NEW list, NEW tier, NEW key, NEW q \in list, NEW r \in list,
         key \in KeysOf(q.row, tier), key \in KeysOf(r.row, tier),
         q.source # r.source, IsFiniteSet({x.source : x \in list})
  PROVE  \E b \in Shared(list, tier) : q \in b.rows /\ r \in b.rows
<1> DEFINE bucket(k) == {x \in list : k \in KeysOf(x.row, tier)}
           keys == UNION {KeysOf(x.row, tier) : x \in list}
           b == [tier |-> tier, key |-> key, rows |-> bucket(key)]
           sources == {x.source : x \in bucket(key)}
<1>1. key \in keys
  OBVIOUS
<1>2. q \in bucket(key) /\ r \in bucket(key)
  OBVIOUS
<1>3. sources \in SUBSET {x.source : x \in list}
  OBVIOUS
<1>4. q.source \in sources /\ r.source \in sources
  BY <1>2
<1>5. Cardinality(sources) > 1
  <2> HIDE DEF sources
  <2> QED
    BY <1>3, <1>4, FS_Subset, TwoOfThem
<1>6. b \in Shared(list, tier)
  <2> HIDE DEF keys
  <2>1. b \in {[tier |-> tier, key |-> k, rows |-> bucket(k)] : k \in keys}
    BY <1>1
  <2>2. Cardinality({x.source : x \in b.rows}) > 1
    BY <1>5
  <2> QED
    BY <2>1, <2>2 DEF Shared, keys
<1> QED
  BY <1>2, <1>6

\* The groups are buckets, and each bucket's rows are a group.
LEMMA GroupsAre ==
  ASSUME NEW T
  PROVE  /\ \A g \in Groups(T) : \E k \in DOMAIN Tiers : \E b \in Shared(CaseRows(T), Tiers[k]) : g = Converged(b)
         /\ \A k \in DOMAIN Tiers : \A c \in Shared(CaseRows(T), Tiers[k]) :
              \E g \in Groups(T) : g.members = Members(c.rows)
<1> DEFINE list == CaseRows(T)
           shared == [k \in DOMAIN Tiers |-> Shared(list, Tiers[k])]
           joined == [k \in DOMAIN Tiers |-> {b.rows : b \in shared[k]}]
           sets == UNION {joined[k] : k \in DOMAIN Tiers}
           tiers(set) == {k \in DOMAIN Tiers : set \in joined[k]}
           strongest(set) == Min(tiers(set))
           chosen(set) == CHOOSE b \in shared[strongest(set)] : b.rows = set
<1>1. Groups(T) = {Converged(chosen(set)) : set \in sets}
  BY DEF Groups
<1>2. DOMAIN Tiers = 1..4
  BY DEF Tiers
<1>3. ASSUME NEW set \in sets
      PROVE  /\ strongest(set) \in DOMAIN Tiers /\ chosen(set) \in Shared(list, Tiers[strongest(set)])
             /\ chosen(set).rows = set
  <2>1. tiers(set) # {} /\ tiers(set) \in SUBSET Nat
    <3> HIDE DEF joined
    <3>1. PICK k \in DOMAIN Tiers : set \in joined[k]
      OBVIOUS
    <3>2. k \in tiers(set)
      BY <3>1
    <3>3. tiers(set) \in SUBSET DOMAIN Tiers
      OBVIOUS
    <3> QED
      BY <1>2, <3>2, <3>3
  <2>2. strongest(set) \in tiers(set)
    <3> HIDE DEF tiers
    <3> QED
      BY <2>1, LeastIsThere
  <2>3. strongest(set) \in DOMAIN Tiers /\ set \in joined[strongest(set)]
    BY <2>2
  <2> HIDE DEF strongest
  <2>4. PICK b \in shared[strongest(set)] : b.rows = set
    BY <2>3
  <2>5. chosen(set) \in shared[strongest(set)] /\ chosen(set).rows = set
    BY <2>4
  <2> HIDE DEF chosen
  <2> QED
    BY <2>3, <2>5
<1>4. \A k \in DOMAIN Tiers : \A c \in Shared(list, Tiers[k]) : c.rows \in sets
  OBVIOUS
<1> HIDE DEF sets, chosen, strongest
<1>5. \A g \in Groups(T) : \E k \in DOMAIN Tiers : \E b \in Shared(list, Tiers[k]) : g = Converged(b)
  BY <1>1, <1>3
<1>6. \A k \in DOMAIN Tiers : \A c \in Shared(list, Tiers[k]) : \E g \in Groups(T) : g.members = Members(c.rows)
  <2> TAKE k \in DOMAIN Tiers
  <2> TAKE c \in Shared(list, Tiers[k])
  <2>1. chosen(c.rows).rows = c.rows /\ Converged(chosen(c.rows)) \in Groups(T)
    BY <1>1, <1>3, <1>4
  <2>2. Converged(chosen(c.rows)).members = Members(chosen(c.rows).rows)
    BY DEF Converged
  <2> QED
    BY <2>1, <2>2
<1> QED
  BY <1>5, <1>6

\* Records that are the same are in a group together.
LEMMA SameRecordsMeet ==
  ASSUME NEW T, IsFiniteSet(DOMAIN T), NEW s \in DOMAIN T, NEW t \in DOMAIN T, s # t,
         NEW i \in DOMAIN T[s], NEW j \in DOMAIN T[t], RecordKey(T[s][i]) \cap RecordKey(T[t][j]) # {}
  PROVE  \E g \in Groups(T) : {<<s, i>>, <<t, j>>} \subseteq g.members
<1> DEFINE q == [source |-> s, index |-> i, row |-> T[s][i]]
           r == [source |-> t, index |-> j, row |-> T[t][j]]
           list == CaseRows(T)
<1>1. q \in list /\ r \in list
  BY CaseRowsAre
<1>2. IsFiniteSet({x.source : x \in list})
  <2>1. \A x \in list : x.source \in DOMAIN T
    BY CaseRowsAre
  <2>2. {x.source : x \in list} \in SUBSET DOMAIN T
    <3> HIDE DEF list
    <3> QED
      BY <2>1
  <2> QED
    BY <2>2, FS_Subset
<1>3. 1 \in DOMAIN Tiers /\ Tiers[1] = "definitive_record"
  BY DEF Tiers
<1>4. \A row : KeysOf(row, Tiers[1]) = RecordKey(row)
  BY <1>3 DEF KeysOf
<1>5. PICK key : key \in KeysOf(q.row, Tiers[1]) /\ key \in KeysOf(r.row, Tiers[1])
  BY <1>4
<1>6. q.source # r.source
  OBVIOUS
<1>7. <<s, i>> = <<q.source, q.index>> /\ <<t, j>> = <<r.source, r.index>>
  OBVIOUS
<1> HIDE DEF q, r, list
<1>8. PICK b \in Shared(list, Tiers[1]) : q \in b.rows /\ r \in b.rows
  BY <1>1, <1>2, <1>5, <1>6, SharedIs
<1>9. PICK g \in Groups(T) : g.members = Members(b.rows)
  BY <1>3, <1>8, GroupsAre DEF list
<1>10. <<q.source, q.index>> \in Members(b.rows) /\ <<r.source, r.index>> \in Members(b.rows)
  BY <1>8 DEF Members
<1> QED
  BY <1>7, <1>9, <1>10

\* Of a member of a group: it is no positional record, and the view has what it says.
LEMMA MembersAreSeen ==
  ASSUME NEW T, NEW g \in Groups(T), NEW m \in g.members
  PROVE  /\ m[1] \in DOMAIN T /\ m[2] \in DOMAIN T[m[1]]
         /\ g.tier = "definitive_record" => Get(T[m[1]][m[2]], "native.spindle_scope") # "positional"
         /\ \A p \in DOMAIN T[m[1]][m[2]] \ Meta :
              \E v \in g.view[p] : v[1] = T[m[1]][m[2]][p] /\ m[1] \in v[2]
<1>0. PICK k \in DOMAIN Tiers : \E b \in Shared(CaseRows(T), Tiers[k]) : g = Converged(b)
  BY GroupsAre
<1>1. PICK b \in Shared(CaseRows(T), Tiers[k]) : g = Converged(b)
  BY <1>0
<1>2. g.tier = b.tier /\ g.members = Members(b.rows) /\ g.view = MergedView(b.rows)
  BY <1>1 DEF Converged
<1>3. b.tier = Tiers[k] /\ b.rows = {r \in CaseRows(T) : b.key \in KeysOf(r.row, Tiers[k])}
  BY SharedHas
<1>4. PICK r \in b.rows : m = <<r.source, r.index>>
  BY <1>2 DEF Members
<1>5. r \in CaseRows(T) /\ b.key \in KeysOf(r.row, Tiers[k])
  BY <1>3
<1>6. \E s \in DOMAIN T : \E i \in DOMAIN T[s] : r = [source |-> s, index |-> i, row |-> T[s][i]]
  BY <1>5, CaseRowsAre
<1>7. m[1] \in DOMAIN T /\ m[2] \in DOMAIN T[m[1]] /\ r.row = T[m[1]][m[2]] /\ r.source = m[1]
  BY <1>4, <1>6
<1>8. g.tier = "definitive_record" => Get(r.row, "native.spindle_scope") # "positional"
  <2> HAVE g.tier = "definitive_record"
  <2>1. b.key \in RecordKey(r.row)
    BY <1>2, <1>3, <1>5 DEF KeysOf
  <2>2. Equatable(r.row)
    BY <2>1 DEF RecordKey
  <2> QED
    BY <2>2 DEF Equatable, Get, OrElse
<1>9. ASSUME NEW p \in DOMAIN r.row \ Meta
      PROVE  \E v \in g.view[p] : v[1] = r.row[p] /\ r.source \in v[2]
  <2> DEFINE says == {x \in b.rows : Has(x.row, p)}
             with(x) == {q.source : q \in {y \in says : y.row[p] = x.row[p]}}
             said == {<<x.row[p], with(x)>> : x \in says}
  <2>1. r \in says
    BY DEF Has
  <2>2. p \in (UNION {DOMAIN x.row : x \in b.rows}) \ Meta
    OBVIOUS
  <2>3. g.view[p] = said
    BY <1>2, <2>2 DEF MergedView
  <2>4. r.source \in with(r)
    BY <2>1
  <2>5. <<r.row[p], with(r)>> \in said
    BY <2>1
  <2> HIDE DEF said, with
  <2> QED
    BY <2>3, <2>4, <2>5
<1> QED
  BY <1>7, <1>8, <1>9

\* Convergence of the trees of a case, whatever they hold: rows of different sources with one
\* record identity meet in a group, no group of records holds a positional row, and the view
\* of a group has every property of every member beside its source (crosssource.py converge).
THEOREM ConvergenceIsComplete == Spec => ConvergeIsComplete
<1> DEFINE T == [s \in DOMAIN trees |-> trees[s].rows]
           Complete1 == \A m, n \in Everyone : SameRecord(m, n) => \E g \in groups' : {m, n} \subseteq g.members
           Seen1 == \A g \in groups' : \A m \in g.members :
                      /\ g.tier = "definitive_record" => Get(RowAt(m), "native.spindle_scope") # "positional"
                      /\ \A p \in DOMAIN RowAt(m) \ Meta :
                           \E v \in g.view[p] : v[1] = RowAt(m)[p] /\ m[1] \in v[2]
<1>1. ASSUME IInv, ConvergeCase
      PROVE  Complete1 /\ Seen1
  <2>1. groups' = Groups(T)
    BY <1>1 DEF ConvergeCase
  <2>2. DOMAIN T = DOMAIN trees /\ IsFiniteSet(DOMAIN T)
    <3>1. DOMAIN trees = 1..Len(case) /\ Len(case) \in Nat
      BY <1>1, CaseHas DEF IInv, InPlace
    <3> QED
      BY <3>1, FS_Interval
  <2>3. \A s \in DOMAIN trees : T[s] = trees[s].rows
    OBVIOUS
  <2> HIDE DEF T
  <2>4. Complete1
    <3> SUFFICES ASSUME NEW m \in Everyone, NEW n \in Everyone, SameRecord(m, n)
                 PROVE  \E g \in Groups(T) : {m, n} \subseteq g.members
      BY <2>1
    <3> DEFINE of(s) == {<<s, k>> : k \in DOMAIN trees[s].rows}
    <3>1. Everyone = UNION {of(s) : s \in DOMAIN trees}
      BY DEF Everyone
    <3>2. \A s \in DOMAIN trees : \A x \in of(s) : \E k \in DOMAIN trees[s].rows : x = <<s, k>>
      OBVIOUS
    <3> HIDE DEF of
    <3>3a. PICK s \in DOMAIN trees : \E i \in DOMAIN trees[s].rows : m = <<s, i>>
      BY <3>1, <3>2
    <3>3. PICK i \in DOMAIN trees[s].rows : m = <<s, i>>
      BY <3>3a
    <3>4a. PICK t \in DOMAIN trees : \E j \in DOMAIN trees[t].rows : n = <<t, j>>
      BY <3>1, <3>2
    <3>4. PICK j \in DOMAIN trees[t].rows : n = <<t, j>>
      BY <3>4a
    <3>5. s # t /\ RecordKey(trees[s].rows[i]) \cap RecordKey(trees[t].rows[j]) # {}
      BY <3>3, <3>4 DEF SameRecord, RowAt
    <3> QED
      BY <2>2, <2>3, <3>3, <3>4, <3>5, SameRecordsMeet
  <2>5. Seen1
    <3> SUFFICES ASSUME NEW g \in Groups(T), NEW m \in g.members
                 PROVE  /\ g.tier = "definitive_record" => Get(RowAt(m), "native.spindle_scope") # "positional"
                        /\ \A p \in DOMAIN RowAt(m) \ Meta :
                             \E v \in g.view[p] : v[1] = RowAt(m)[p] /\ m[1] \in v[2]
      BY <2>1
    <3>1. m[1] \in DOMAIN T
      BY MembersAreSeen
    <3>2. RowAt(m) = T[m[1]][m[2]]
      BY <2>2, <2>3, <3>1 DEF RowAt
    <3>3. g.tier = "definitive_record" => Get(T[m[1]][m[2]], "native.spindle_scope") # "positional"
      BY MembersAreSeen
    <3>4. \A p \in DOMAIN T[m[1]][m[2]] \ Meta : \E v \in g.view[p] : v[1] = T[m[1]][m[2]][p] /\ m[1] \in v[2]
      BY MembersAreSeen
    <3> QED
      BY <3>2, <3>3, <3>4
  <2> QED
    BY <2>4, <2>5
<1>2. IInv => [ConvergeCase => Complete1 /\ Seen1]_vars
  BY <1>1
<1> HIDE DEF Complete1, Seen1
<1>3. []IInv => [][ConvergeCase => Complete1 /\ Seen1]_vars
  BY <1>2, PTL
<1> USE DEF Complete1, Seen1
<1> QED
  BY <1>3, Invariant, PTL DEF ConvergeIsComplete

-----------------------------------------------------------------------------
(* The declared relationships of the rows on disk *)

LEMMA ExportedColumnsStay ==
  ASSUME NEW row, NEW f \in ColumnsOf(row["car_object"])
  PROVE  /\ Same(row, Exported(row), f) /\ Has(Exported(row), f) = Has(row, f)
         /\ Get(Exported(row), f) = Get(row, f)
BY DEF Exported, Same, Has, Get, OrElse

\* What the properties of a relationship may come from is stored.
LEMMA PropertiesStay ==
  ASSUME NEW row, NEW edge, EdgeObject(edge) = row["car_object"]
  PROVE  EdgeProperties(edge, Exported(row)) = EdgeProperties(edge, row)
<1> DEFINE x == Exported(row)
           spec == IF edge \in DOMAIN AssociationProps THEN AssociationProps[edge] ELSE <<>>
           there(r, name) == SelectInSeq(spec[name], LAMBDA f : Has(r, f))
           those(r, name) == {i \in 1..Len(spec[name]) : Has(r, spec[name][i])}
<1>1. \A r : EdgeProperties(edge, r)
               = [name \in {n \in DOMAIN spec : there(r, n) # 0} |-> r[spec[name][there(r, name)]]]
  BY DEF EdgeProperties
<1>2. \A r, name : there(r, name) = IF those(r, name) # {} THEN Min(those(r, name)) ELSE 0
  BY DEF SelectInSeq
<1>3. ASSUME NEW name \in DOMAIN spec
      PROVE  /\ those(x, name) = those(row, name) /\ those(row, name) \in SUBSET (Nat \ {0})
             /\ \A i \in those(row, name) : x[spec[name][i]] = row[spec[name][i]]
  <2>1. edge \in DOMAIN AssociationProps /\ spec = AssociationProps[edge]
    <3>1. CASE edge \notin DOMAIN AssociationProps
      BY <1>3, <3>1
    <3> QED
      BY <3>1
  <2>2. /\ IsList(spec[name])
        /\ \A k \in DOMAIN spec[name] : spec[name][k] \in ColumnsOf(row["car_object"])
    BY <1>3, <2>1, StoredAssumption
  <2> HIDE DEF spec
  <2>3. Len(spec[name]) \in Nat /\ DOMAIN spec[name] = 1..Len(spec[name])
    BY <2>2, IsListHas
  <2>4. \A k \in 1..Len(spec[name]) : /\ Has(x, spec[name][k]) = Has(row, spec[name][k])
                                     /\ Same(row, x, spec[name][k])
    BY <2>2, <2>3, ExportedColumnsStay
  <2> HIDE DEF x
  <2> QED
    BY <2>3, <2>4 DEF Same, Has
<1> HIDE DEF spec, x, there, those
<1>4. ASSUME NEW name \in DOMAIN spec
      PROVE  /\ there(x, name) = there(row, name)
             /\ there(row, name) # 0 => x[spec[name][there(row, name)]] = row[spec[name][there(row, name)]]
  <2>1. those(x, name) = those(row, name)
    BY <1>3
  <2>2. there(x, name) = there(row, name)
    BY <1>2, <2>1
  <2>3. ASSUME there(row, name) # 0
        PROVE  there(row, name) \in those(row, name)
    <3>1. those(row, name) # {} /\ there(row, name) = Min(those(row, name))
      BY <1>2, <2>3
    <3>2. those(row, name) \in SUBSET Nat
      BY <1>3
    <3> QED
      BY <3>1, <3>2, LeastIsThere
  <2> QED
    BY <1>3, <2>2, <2>3
<1>5. {n \in DOMAIN spec : there(x, n) # 0} = {n \in DOMAIN spec : there(row, n) # 0}
  BY <1>4
<1>6. [name \in {n \in DOMAIN spec : there(x, n) # 0} |-> x[spec[name][there(x, name)]]]
        = [name \in {n \in DOMAIN spec : there(row, n) # 0} |-> row[spec[name][there(row, name)]]]
  BY <1>4, <1>5
<1> QED
  BY <1>1, <1>6 DEF x

LEMMA ObjectsAreDistinct == \A o, p \in DOMAIN Objects : Objects[o] = Objects[p] => o = p
<1>1. DOMAIN Objects = 1..13
  BY DEF Objects
<1> QED
  BY <1>1, SMTT(60) DEF Objects

\* The files hold the rows, each as it is exported.
LEMMA FilesAre ==
  ASSUME NEW list, NEW n, List(list, n), \A j \in 1..n : \E o \in DOMAIN Objects : list[j]["car_object"] = Objects[o]
  PROVE  /\ DOMAIN Files(list) = 1..n
         /\ \A i \in 1..n : \E k \in 1..n : Files(list)[i] = Exported(list[k])
         /\ \A k \in 1..n : \E i \in 1..n : Files(list)[i] = Exported(list[k])
<1> DEFINE file == [j \in 1..n |-> CHOOSE o \in DOMAIN Objects : list[j]["car_object"] = Objects[o]]
           before(k) == {j \in 1..n : StoredBefore(list, j, k)}
           place(k) == Cardinality(before(k)) + 1
           below == [k \in 1..n |-> before(k)]
           here(i) == CHOOSE k \in 1..n : place(k) = i
<1>1. n \in Nat /\ DOMAIN list = 1..n
  BY DEF List
<1>2. \A j \in 1..n : file[j] \in 1..13 /\ \A o \in DOMAIN Objects : list[j]["car_object"] = Objects[o] => o = file[j]
  <2>1. DOMAIN Objects = 1..13
    BY DEF Objects
  <2>2. \A j \in 1..n : file[j] \in DOMAIN Objects /\ list[j]["car_object"] = Objects[file[j]]
    OBVIOUS
  <2> HIDE DEF file
  <2> QED
    BY <2>1, <2>2, ObjectsAreDistinct
<1>3. \A j, k \in 1..n : StoredBefore(list, j, k) <=> file[j] < file[k] \/ (file[j] = file[k] /\ j < k)
  <2>1. \A j \in 1..n : file[j] \in DOMAIN Objects /\ list[j]["car_object"] = Objects[file[j]]
    OBVIOUS
  <2> HIDE DEF file
  <2> QED
    BY <1>2, <2>1 DEF StoredBefore
<1> HIDE DEF file
<1>3a. \A j \in 1..n : j \in Nat /\ file[j] \in Nat
  <2>1. \A j \in 1..n : file[j] \in 1..13
    BY <1>2
  <2>2. \A j \in 1..n : j \in Nat
    BY <1>1
  <2>3. \A x \in 1..13 : x \in Nat
    OBVIOUS
  <2> QED
    BY <2>1, <2>2, <2>3
<1>4. Files(list) = [i \in 1..n |-> Exported(list[here(i)])]
  BY <1>1 DEF Files
<1>5. /\ \A k \in 1..n : before(k) \in SUBSET (1..n)
      /\ \A j, k \in 1..n : j \in before(k) <=> StoredBefore(list, j, k)
  OBVIOUS
<1>6. \A k \in 1..n : below[k] = before(k)
  OBVIOUS
<1> HIDE DEF before, below
<1>7. \A k \in 1..n : below[k] \in SUBSET (1..n) /\ k \notin below[k]
  <2> TAKE k \in 1..n
  <2>1. k \in Nat /\ file[k] \in Nat
    BY <1>3a
  <2>2. ~(file[k] < file[k]) /\ ~(k < k)
    BY <2>1
  <2> QED
    BY <1>3, <1>5, <1>6, <2>2
<1>8. \A j, k \in 1..n : j # k => j \in below[k] \/ k \in below[j]
  <2> TAKE j, k \in 1..n
  <2>1. j \in Nat /\ file[j] \in Nat /\ k \in Nat /\ file[k] \in Nat
    BY <1>3a
  <2>2. j # k => file[j] < file[k] \/ (file[j] = file[k] /\ j < k)
                 \/ file[k] < file[j] \/ (file[k] = file[j] /\ k < j)
    BY <2>1
  <2> QED
    BY <1>3, <1>5, <1>6, <2>2
<1>9. \A j, k \in 1..n : j \in below[k] => below[j] \subseteq below[k]
  <2> SUFFICES ASSUME NEW j \in 1..n, NEW k \in 1..n, j \in below[k], NEW i \in below[j]
               PROVE  i \in below[k]
    OBVIOUS
  <2>1. i \in 1..n
    BY <1>7
  <2>2. i \in Nat /\ file[i] \in Nat /\ j \in Nat /\ file[j] \in Nat /\ k \in Nat /\ file[k] \in Nat
    BY <1>3a, <2>1
  <2>3. file[j] < file[k] \/ (file[j] = file[k] /\ j < k)
    BY <1>3, <1>5, <1>6
  <2>4. file[i] < file[j] \/ (file[i] = file[j] /\ i < j)
    BY <1>3, <1>5, <1>6, <2>1
  <2>5. file[i] < file[k] \/ (file[i] = file[k] /\ i < k)
    BY <2>2, <2>3, <2>4
  <2> QED
    BY <1>3, <1>5, <1>6, <2>1, <2>5
<1>10. /\ \A k \in 1..n : place(k) \in 1..n
       /\ \A j, k \in 1..n : place(j) = place(k) => j = k
       /\ \A i \in 1..n : \E k \in 1..n : place(k) = i
  <2>1. /\ \A k \in 1..n : Cardinality(below[k]) + 1 \in 1..n
        /\ \A j, k \in 1..n : Cardinality(below[j]) = Cardinality(below[k]) => j = k
        /\ \A i \in 1..n : \E k \in 1..n : Cardinality(below[k]) + 1 = i
    BY <1>1, <1>7, <1>8, <1>9, PlaceIsBijective
  <2>2. \A k \in 1..n : Cardinality(before(k)) \in Nat
    <3> TAKE k \in 1..n
    <3>1. before(k) \in SUBSET (1..n) /\ IsFiniteSet(1..n)
      BY <1>1, <1>5, FS_Interval
    <3>2. IsFiniteSet(before(k))
      BY <3>1, FS_Subset
    <3> QED
      BY <3>2, FS_CardinalityType
  <2>3. \A j, k \in 1..n : place(j) = place(k) => Cardinality(below[j]) = Cardinality(below[k])
    BY <1>6, <2>2
  <2> QED
    BY <1>6, <2>1, <2>3
<1> HIDE DEF place
<1>11. \A i \in 1..n : here(i) \in 1..n /\ place(here(i)) = i
  BY <1>10
<1> HIDE DEF here
<1>12. \A k \in 1..n : here(place(k)) = k
  BY <1>10, <1>11
<1>13. \A i \in 1..n : Files(list)[i] = Exported(list[here(i)])
  BY <1>4
<1>14. DOMAIN Files(list) = 1..n
  BY <1>4
<1>15. \A k \in 1..n : Files(list)[place(k)] = Exported(list[k])
  BY <1>10, <1>12, <1>13
<1> QED
  BY <1>10, <1>11, <1>13, <1>14, <1>15

\* Of its row, an edge has the time and the host.
LEMMA DeclaredBy ==
  ASSUME NEW a, NEW b, Time(a) = Time(b), Get(a, "source_host") = Get(b, "source_host"),
         NEW verb, NEW source, NEW target, NEW confidence, NEW method, NEW properties
  PROVE  Declared(a, verb, source, target, confidence, method, properties)
           = Declared(b, verb, source, target, confidence, method, properties)
<1>1. PICK t, host : t = Time(a) /\ host = Get(a, "source_host")
  OBVIOUS
<1>2. t = Time(b) /\ host = Get(b, "source_host")
  BY <1>1
<1> QED
  BY <1>1, <1>2 DEF Declared

\* A stored row declares what the row declared.
LEMMA DeclaredStay ==
  ASSUME NEW row, "car_object" \in DOMAIN row, \E o \in DOMAIN Objects : row["car_object"] = Objects[o],
         TargetOfThread(row)
  PROVE  DeclaredEdges(Exported(row)) = DeclaredEdges(row)
<1> DEFINE x == Exported(row)
           obj == row["car_object"]
           is(o, a, r) == obj = o /\ Get(r, "car_action") = a
           process(field, r) == Process(Get(r, field))
           linked(r) == Get(r, "link_confidence")
           native(field, r) == Get(r, "native." \o field)
           session(field, link, r) ==
             Declared(r, EdgeVerb["auth_session"], End(r), <<"user_session", native(field, r)>>,
                      native(link, r), "luid", <<>>)
           spoke(r) == IF obj = "process" THEN {}
                       ELSE Declared(r, VerbOf(r), process("owning_guid", r), End(r), linked(r), LinkMethod(r),
                                     EdgeProperties(<<obj, Get(r, "car_action")>>, r))
           parent(r) == IF ~is("process", "create", r) THEN {}
                        ELSE Declared(r, EdgeVerb["parent_process"], process("parent_guid", r), End(r),
                                      linked(r), LinkMethod(r), <<>>)
           access(r) == IF ~is("process", "access", r) THEN {}
                        ELSE Declared(r, EdgeVerb["process_access"], process("owning_guid", r),
                                      process("target_guid", r), linked(r), LinkMethod(r),
                                      EdgeProperties(<<"edge", "process_access">>, r))
           modify(r) == IF ~is("process", "modify", r) THEN {}
                        ELSE Declared(r, EdgeVerb["process_modify"], process("native.modifier_process_guid", r),
                                      End(r), native("modifier_process_link", r), "native_guid", <<>>)
           flow(r) == IF obj = "flow" THEN {}
                      ELSE Declared(r, EdgeVerb["flow_contains"], <<"flow", native("flow_guid", r)>>,
                                    End(r), native("flow_link", r), "capture_uid", <<>>)
           executed(r) == Declared(r, EdgeVerb["file_executed"], process("native.executed_as_process_guid", r),
                                   <<"file", Guid(r)>>, native("executed_as_process_link", r), "image_path", <<>>)
           injects(r) == Declared(r, EdgeVerb["thread_injection"], process("owning_guid", r),
                                  process("native.target_process_guid", r), native("target_process_link", r),
                                  "native_guid", EdgeProperties(<<"edge", "thread_injection">>, r))
           opened == session("target_session_guid", "target_session_link", x)
           all(r) == spoke(r) \cup parent(r) \cup access(r) \cup modify(r) \cup flow(r) \cup executed(r)
                       \cup injects(r) \cup session("target_session_guid", "target_session_link", r)
                       \cup session("subject_session_guid", "subject_session_link", r)
<1>1. "car_object" \in ColumnsOf(obj) /\ x["car_object"] = obj
  BY DEF Exported, ColumnsOf
<1>2. \A f \in Header : Get(x, f) = Get(row, f)
  BY ExportedColumnsStay DEF ColumnsOf
<1>3. \A f \in Native : Get(x, f) = Get(row, f)
  BY ExportedColumnsStay DEF ColumnsOf
<1>4. obj = "process" => \A f \in ObjFields["process"] : Get(x, f) = Get(row, f)
  BY ExportedColumnsStay DEF ColumnsOf
<1>5. Time(x) = Time(row)
  <2>1. "timestamp" \in ColumnsOf(obj)
    BY StoredAssumption DEF ColumnsOf
  <2> QED
    BY <2>1, ExportedColumnsStay DEF Same, Time, OrElse, Has
<1>6. /\ Get(x, "source_host") = Get(row, "source_host") /\ Get(x, "guid") = Get(row, "guid")
      /\ Get(x, "car_action") = Get(row, "car_action") /\ Get(x, "owning_guid") = Get(row, "owning_guid")
      /\ linked(x) = linked(row)
  BY <1>2, StoredAssumption
<1>7. \A k \in {"modifier_process_link", "executed_as_process_link", "target_process_link",
                "flow_guid", "flow_link", "target_session_guid", "target_session_link",
                "subject_session_guid", "subject_session_link"} : native(k, x) = native(k, row)
  BY <1>3, StoredAssumption
<1>8. /\ Get(x, "native.modifier_process_guid") = Get(row, "native.modifier_process_guid")
      /\ Get(x, "native.executed_as_process_guid") = Get(row, "native.executed_as_process_guid")
      /\ Get(x, "native.target_process_guid") = Get(row, "native.target_process_guid")
  BY <1>3, StoredAssumption
<1>9. obj = "process" => /\ Get(x, "parent_guid") = Get(row, "parent_guid")
                         /\ Get(x, "target_guid") = Get(row, "target_guid")
  BY <1>4, StoredAssumption
<1>10. DeclaredEdges(row) = all(row)
  BY DEF DeclaredEdges
<1>11. DeclaredEdges(x) = all(x)
  BY <1>1 DEF DeclaredEdges
<1>12. obj # "edge"
  <2>1. \A o \in DOMAIN Objects : Objects[o] # "edge"
    BY DEF Objects
  <2> QED
    BY <2>1
<1> HIDE DEF x, obj
<1>13. /\ VerbOf(x) = VerbOf(row) /\ LinkMethod(x) = LinkMethod(row) /\ Guid(x) = Guid(row) /\ End(x) = End(row)
  BY <1>1, <1>6 DEF VerbOf, LinkMethod, Guid, End, obj
<1>14. \A verb, source, target, confidence, method, properties :
         Declared(x, verb, source, target, confidence, method, properties)
           = Declared(row, verb, source, target, confidence, method, properties)
  BY <1>5, <1>6, DeclaredBy
<1> HIDE DEF native
<1>15. EdgeProperties(<<obj, Get(row, "car_action")>>, x) = EdgeProperties(<<obj, Get(row, "car_action")>>, row)
  <2> DEFINE edge == <<obj, Get(row, "car_action")>>
  <2>1. EdgeObject(edge) = obj
    BY <1>12 DEF EdgeObject
  <2> HIDE DEF edge
  <2>2. EdgeProperties(edge, x) = EdgeProperties(edge, row)
    BY <2>1, PropertiesStay DEF x, obj
  <2> QED
    BY <2>2 DEF edge
<1>16. spoke(x) = spoke(row)
  BY <1>6, <1>13, <1>14, <1>15
<1>17. parent(x) = parent(row)
  BY <1>6, <1>9, <1>13, <1>14
<1>18. access(x) = access(row)
  <2>1. EdgeObject(<<"edge", "process_access">>) = "process"
    BY DEF EdgeObject
  <2>2. obj = "process" => EdgeProperties(<<"edge", "process_access">>, x) = EdgeProperties(<<"edge", "process_access">>, row)
    BY <2>1, PropertiesStay DEF x, obj
  <2> QED
    BY <1>6, <1>9, <1>13, <1>14, <2>2
<1>19. modify(x) = modify(row)
  BY <1>6, <1>7, <1>8, <1>13, <1>14
<1>20. flow(x) = flow(row)
  BY <1>7, <1>13, <1>14
<1>21. executed(x) = executed(row)
  BY <1>7, <1>8, <1>13, <1>14
<1>22. injects(x) = injects(row)
  <2>1. CASE obj = "thread"
    <3>1. EdgeObject(<<"edge", "thread_injection">>) = "thread"
      BY DEF EdgeObject
    <3>2. EdgeProperties(<<"edge", "thread_injection">>, x) = EdgeProperties(<<"edge", "thread_injection">>, row)
      BY <2>1, <3>1, PropertiesStay DEF x, obj
    <3> QED
      BY <1>6, <1>7, <1>8, <1>14, <3>2
  <2>2. CASE obj # "thread"
    <3>1. Get(row, "native.target_process_guid") = ""
      BY <2>2 DEF TargetOfThread, obj, Get, OrElse
    <3>2. process("native.target_process_guid", x)[2] = "" /\ process("native.target_process_guid", row)[2] = ""
      BY <1>8, <3>1 DEF Process
    <3>3. injects(x) = {} /\ injects(row) = {}
      BY <3>2 DEF Declared
    <3> QED
      BY <3>3
  <2> QED
    BY <2>1, <2>2
<1>23. \A f, l \in {"target_session_guid", "target_session_link", "subject_session_guid", "subject_session_link"} :
         session(f, l, x) = session(f, l, row)
  BY <1>7, <1>13, <1>14
<1> HIDE DEF spoke, parent, access, modify, flow, executed, injects, session
<1>24. all(x) = all(row)
  BY <1>16, <1>17, <1>18, <1>19, <1>20, <1>21, <1>22, <1>23
<1> HIDE DEF all
<1> QED
  BY <1>10, <1>11, <1>24 DEF x

\* What is declared by the rows on disk is what was declared by the rows in memory.
LEMMA StoredDeclare ==
  ASSUME NEW list, NEW n, List(list, n),
         \A j \in 1..n : /\ "car_object" \in DOMAIN list[j] /\ TargetOfThread(list[j])
                         /\ \E o \in DOMAIN Objects : list[j]["car_object"] = Objects[o]
  PROVE  EdgesFromEvents(Files(list)) = EdgesFromEvents(list)
<1> DEFINE of(k) == DeclaredEdges(list[k])
           stored(i) == DeclaredEdges(Files(list)[i])
<1>1. DOMAIN list = 1..n
  BY DEF List
<1>2. /\ DOMAIN Files(list) = 1..n
      /\ \A i \in 1..n : \E k \in 1..n : Files(list)[i] = Exported(list[k])
      /\ \A k \in 1..n : \E i \in 1..n : Files(list)[i] = Exported(list[k])
  BY FilesAre
<1>3. \A k \in 1..n : DeclaredEdges(Exported(list[k])) = of(k)
  BY DeclaredStay
<1>4. \A i \in 1..n : \E k \in 1..n : stored(i) = of(k)
  BY <1>2, <1>3
<1>5. \A k \in 1..n : \E i \in 1..n : stored(i) = of(k)
  BY <1>2, <1>3
<1>6. EdgesFromEvents(list) = UNION {of(k) : k \in 1..n} /\ EdgesFromEvents(Files(list)) = UNION {stored(i) : i \in 1..n}
  BY <1>1, <1>2 DEF EdgesFromEvents
<1> HIDE DEF of, stored
<1>7. {of(k) : k \in 1..n} = {stored(i) : i \in 1..n}
  BY <1>4, <1>5
<1> QED
  BY <1>6, <1>7

LEMMA AllDeclared ==
  ASSUME NEW list
  PROVE  \A e \in EdgesFromEvents(list) : e.class = "declared"
<1> DEFINE of(k) == DeclaredEdges(list[k])
<1>1. EdgesFromEvents(list) = UNION {of(k) : k \in DOMAIN list}
  BY DEF EdgesFromEvents
<1>2. ASSUME NEW row, NEW verb, NEW source, NEW target, NEW confidence, NEW method, NEW properties
      PROVE  \A e \in Declared(row, verb, source, target, confidence, method, properties) : e.class = "declared"
  <2> DEFINE r == [timestamp |-> Time(row), source_host |-> Get(row, "source_host"), relationship |-> verb,
                   source |-> source, target |-> target, confidence |-> confidence, method |-> method,
                   class |-> "declared", identity_key |-> "", inferred_end |-> "", properties |-> properties]
  <2>1. r.class = "declared"
    OBVIOUS
  <2>2. Declared(row, verb, source, target, confidence, method, properties) \in {{}, {r}}
    BY DEF Declared
  <2> HIDE DEF r
  <2> QED
    BY <2>1, <2>2
<1>3. \A k \in DOMAIN list : \A e \in of(k) : e.class = "declared"
  BY <1>2 DEF DeclaredEdges
<1> HIDE DEF of
<1> QED
  BY <1>1, <1>3

LEMMA LinksAreDerived ==
  ASSUME NEW list
  PROVE  \A e \in LinkEdges(list) : e.class = "derived"
<1>1. \A rule, row, source, target, key, end : DerivedEdge(rule, row, source, target, key, end).class = "derived"
  BY DEF DerivedEdge
<1>2. \A a : \A e \in LinksBy(list, a) : e.class = "derived"
  <2> TAKE a
  <2> DEFINE rule == Links[a[1]]
             pair == rule.pairs[a[2]]
             s == list[a[3]]
             v == Values(s, pair.source)[a[4]]
             ends == IF Accepts(rule.identity, v)
                     THEN Disambiguate(list, rule, s, Candidates(list, rule, pair, s, v)) ELSE {}
             row(t) == IF Has(s, "timestamp") \/ ~Has(list[t], "timestamp") THEN s
                       ELSE With(s, "timestamp", Time(list[t]))
             edge(t) == DerivedEdge(rule, row(t), End(s), End(list[t]), pair.source, "")
  <2>1. LinksBy(list, a) = {edge(t) : t \in ends}
    BY DEF LinksBy
  <2>2. \A t : edge(t).class = "derived"
    BY Zenon DEF DerivedEdge
  <2> HIDE DEF ends, edge
  <2> QED
    BY <2>1, <2>2
<1> DEFINE made == [a \in LinkAttempts(list) |-> LinksBy(list, a)]
           before(b, a) == /\ b[1] = a[1]
                           /\ \E n \in 2..4 : b[n] < a[n] /\ \A m \in 2..(n - 1) : b[m] = a[m]
           linked(a, e) == \E b \in DOMAIN made : /\ before(b, a)
                                                  /\ \E d \in made[b] : d.source = e.source /\ d.target = e.target
           first(a) == {e \in made[a] : ~linked(a, e)}
<1>3. LinkEdges(list) = UNION {first(a) : a \in DOMAIN made}
  BY DEF LinkEdges
<1>4. \A a \in DOMAIN made : \A e \in first(a) : e.class = "derived"
  BY <1>2
<1> HIDE DEF made, first
<1> QED
  BY <1>3, <1>4

LEMMA ActorsAreDerived ==
  ASSUME NEW list
  PROVE  \A e \in ActorEdges(list) : e.class = "derived"
<1>1. ASSUME NEW rule, NEW row
      PROVE  \A e \in ActedOn(rule, row) : e.class = "derived"
  <2> DEFINE source == Account(row, rule.fields)
             target == Account(row, rule.target_fields)
             edge(end) == DerivedEdge(rule, row, <<"user_account", source[2]>>, end, source[1], "")
  <2>1. ActedOn(rule, row) \in {{}, {edge(End(row))}, {edge(<<"user_account", target[2]>>)}}
    BY DEF ActedOn
  <2>2. \A end : edge(end).class = "derived"
    BY Zenon DEF DerivedEdge
  <2> HIDE DEF edge
  <2> QED
    BY <2>1, <2>2
<1> QED
  BY <1>1 DEF ActorEdges

LEMMA InferredAreDerived ==
  ASSUME NEW list
  PROVE  \A e \in Reconstruct(list).edges : e.class = "derived"
<1>1. \A t : InferredEdge(t).class = "derived"
  BY DEF InferredEdge, DerivedEdge
<1> QED
  BY <1>1 DEF Reconstruct

\* What the derived pass makes of a store.
LEMMA StoreIs ==
  ASSUME NEW edges, NEW list
  PROVE  LET store == DeriveInto(InsertEdges(EmptyStore, edges), list)
             nodes == Reconstruct(list).nodes
             last(id) == SelectLastInSeq(nodes, LAMBDA n : n.node_id = id)
         IN  /\ store.relationships = edges \cup LinkEdges(list) \cup ActorEdges(list) \cup Reconstruct(list).edges
             /\ store.inferred = Over([id \in {nodes[k].node_id : k \in DOMAIN nodes} |-> nodes[last(id)]], <<>>)
             /\ store.content = Over(ContentNodes(list), <<>>)
<1> DEFINE store == InsertEdges(EmptyStore, edges)
           more == LinkEdges(list) \cup ActorEdges(list) \cup Reconstruct(list).edges
           nodes == Reconstruct(list).nodes
           known == [id \in {nodes[k].node_id : k \in DOMAIN nodes} |->
                       nodes[SelectLastInSeq(nodes, LAMBDA n : n.node_id = id)]]
           joined == InsertEdges(store, more)
           kept == InsertInferred(joined, nodes)
           fields == {"relationships", "inferred", "content", "refs"}
<1>1. store.relationships = edges /\ store.inferred = <<>> /\ store.content = <<>> /\ DOMAIN store = fields
  BY DEF InsertEdges, EmptyStore
<1> HIDE DEF store
<1>2. /\ joined.relationships = edges \cup more /\ joined.inferred = <<>> /\ joined.content = <<>>
      /\ DOMAIN joined = fields
  BY <1>1 DEF InsertEdges
<1> HIDE DEF joined
<1>3. kept = [joined EXCEPT !.inferred = Over(known, @)]
  BY Zenon DEF InsertInferred
<1> HIDE DEF kept, known
<1>4. /\ kept.relationships = edges \cup more /\ kept.inferred = Over(known, <<>>) /\ kept.content = <<>>
      /\ DOMAIN kept = fields
  BY <1>2, <1>3
<1>5. PICK r : DeriveInto(store, list) = [kept EXCEPT !.content = Over(ContentNodes(list), @), !.refs = r]
  BY DEF DeriveInto, kept, joined
<1>6. /\ DeriveInto(store, list).relationships = edges \cup more
      /\ DeriveInto(store, list).inferred = Over(known, <<>>)
      /\ DeriveInto(store, list).content = Over(ContentNodes(list), <<>>)
  BY <1>4, <1>5
<1>7. edges \cup more = edges \cup LinkEdges(list) \cup ActorEdges(list) \cup Reconstruct(list).edges
  OBVIOUS
<1> QED
  BY <1>6, <1>7 DEF store, known

\* The derived pass leaves the declared relationships as they are.
LEMMA DerivingAdds ==
  ASSUME NEW edges, \A e \in edges : e.class = "declared", NEW list
  PROVE  {e \in DeriveInto(InsertEdges(EmptyStore, edges), list).relationships : e.class = "declared"} = edges
<1> DEFINE store == DeriveInto(InsertEdges(EmptyStore, edges), list)
           more == LinkEdges(list) \cup ActorEdges(list) \cup Reconstruct(list).edges
<1>1. store.relationships = edges \cup LinkEdges(list) \cup ActorEdges(list) \cup Reconstruct(list).edges
  BY StoreIs, Zenon
<1>2. \A e \in more : e.class = "derived"
  BY LinksAreDerived, ActorsAreDerived, InferredAreDerived
<1> HIDE DEF store
<1>3. store.relationships = edges \cup more
  BY <1>1
<1> HIDE DEF more
<1> QED
  BY <1>2, <1>3 DEF store

\* What is on disk of a source, and of the one in hand before anything is derived: the
\* declared relationships are those that the stored rows declare.
IsTree(tree) == DOMAIN tree = {"rows", "relationships", "inferred", "content", "bundle"}

Declaring ==
  /\ \A s \in DOMAIN trees : /\ IsTree(trees[s])
                             /\ OfClass(trees[s], "declared") = EdgesFromEvents(trees[s].rows)
  /\ step = "derive" => EdgesFromEvents(trees[at].rows) = EdgesFromEvents(rows)

\* A tree with the declared relationships of the rows it holds.
LEMMA TreeDeclares ==
  ASSUME NEW list, NEW store
  PROVE  /\ IsTree(Tree(list, store)) /\ Tree(list, store).rows = list
         /\ OfClass(Tree(list, store), "declared") = {e \in store.relationships : e.class = "declared"}
BY DEF Tree, IsTree, OfClass

LEMMA DeclaredAtFirst ==
  ASSUME NEW list
  PROVE  {e \in InsertEdges(EmptyStore, EdgesFromEvents(list)).relationships : e.class = "declared"}
           = EdgesFromEvents(list)
<1> DEFINE edges == EdgesFromEvents(list)
<1>1. \A e \in edges : e.class = "declared"
  BY AllDeclared
<1> HIDE DEF edges
<1>2. InsertEdges(EmptyStore, edges).relationships = edges
  BY DEF InsertEdges, EmptyStore
<1> QED
  BY <1>1, <1>2 DEF edges

LEMMA DeclaringBegins == Init => Declaring
<1> SUFFICES ASSUME Init PROVE Declaring
  OBVIOUS
<1>1. \A s \in DOMAIN trees : trees[s] = NoTree
  BY DEF Init
<1>2. /\ IsTree(NoTree) /\ NoTree.rows = <<>> /\ NoTree.relationships = {}
  BY DEF NoTree, Tree, IsTree, EmptyStore
<1>3. EdgesFromEvents(<<>>) = {} /\ OfClass(NoTree, "declared") = {}
  BY <1>2 DEF EdgesFromEvents, OfClass
<1>4. step # "derive"
  BY DEF Init
<1> QED
  BY <1>1, <1>2, <1>3, <1>4 DEF Declaring

\* The tree of one source is made anew with what its rows declare.
LEMMA TreeIsReplaced ==
  ASSUME Declaring, NEW s, NEW tree, IsTree(tree), OfClass(tree, "declared") = EdgesFromEvents(tree.rows),
         trees' = [trees EXCEPT ![s] = tree]
  PROVE  \A r \in DOMAIN trees' : /\ IsTree(trees'[r])
                                  /\ OfClass(trees'[r], "declared") = EdgesFromEvents(trees'[r].rows)
<1>1. \A r \in DOMAIN trees' : trees'[r] = tree \/ (r \in DOMAIN trees /\ trees'[r] = trees[r])
  OBVIOUS
<1> QED
  BY <1>1 DEF Declaring

LEMMA DeclaringStays == IInv /\ Declaring /\ [Next]_vars => Declaring'
<1> SUFFICES ASSUME IInv, Declaring, [Next]_vars PROVE Declaring'
  OBVIOUS
<1> DEFINE disk == \A s \in DOMAIN trees' : /\ IsTree(trees'[s])
                                            /\ OfClass(trees'[s], "declared") = EdgesFromEvents(trees'[s].rows)
           hand == EdgesFromEvents(trees'[at'].rows) = EdgesFromEvents(rows')
<1>1. disk /\ (step' = "derive" => hand) => Declaring'
  BY DEF Declaring, OfClass
<1>2. CASE Export
  <2> DEFINE tree == Tree(Files(rows), InsertEdges(EmptyStore, EdgesFromEvents(rows)))
  <2>1. step = "enrich" /\ trees' = [trees EXCEPT ![at] = tree] /\ rows' = rows /\ at' = at
    BY <1>2 DEF Export
  <2>2. Working /\ at \in DOMAIN trees
    BY <2>1 DEF IInv, InPlace, Working
  <2>3. EdgesFromEvents(Files(rows)) = EdgesFromEvents(rows)
    <3>1. List(rows, Len(raw)) /\ \A j \in 1..Len(raw) : TargetOfThread(rows[j])
      BY <2>2 DEF Working, Cascading
    <3>2. \A j \in 1..Len(raw) : Complete(raw[j]) /\ OnlySets(raw[j], rows[j], LinkColumns)
      BY <2>2 DEF Working, Cascading
    <3>3. \A j \in 1..Len(raw) : Same(raw[j], rows[j], "car_object")
      BY <3>2, ColumnsAreApart DEF OnlySets, JoinColumns, ReferenceColumns
    <3>4. \A j \in 1..Len(raw) : /\ "car_object" \in DOMAIN rows[j]
                                 /\ \E o \in DOMAIN Objects : rows[j]["car_object"] = Objects[o]
      BY <3>2, <3>3 DEF Complete, Same
    <3> QED
      BY <3>1, <3>4, StoredDeclare
  <2>4. IsTree(tree) /\ tree.rows = Files(rows) /\ OfClass(tree, "declared") = EdgesFromEvents(rows)
    BY TreeDeclares, DeclaredAtFirst
  <2> HIDE DEF tree
  <2>5. disk
    BY <2>1, <2>3, <2>4, TreeIsReplaced
  <2>6. trees'[at'] = tree
    BY <2>1, <2>2
  <2> QED
    BY <1>1, <2>1, <2>3, <2>4, <2>5, <2>6
<1>3. CASE DerivePass
  <2> DEFINE store == DeriveInto(InsertEdges(EmptyStore, EdgesFromEvents(rows)), rows)
             tree == Tree(trees[at].rows, store)
  <2>1. step = "derive" /\ step' = "stix" /\ trees' = [trees EXCEPT ![at] = tree]
    BY <1>3 DEF DerivePass
  <2>2. {e \in store.relationships : e.class = "declared"} = EdgesFromEvents(rows)
    BY AllDeclared, DerivingAdds
  <2> HIDE DEF store
  <2>3. IsTree(tree) /\ tree.rows = trees[at].rows /\ OfClass(tree, "declared") = EdgesFromEvents(rows)
    BY <2>2, TreeDeclares
  <2> HIDE DEF tree
  <2>4. disk
    BY <2>1, <2>3, TreeIsReplaced DEF Declaring
  <2> QED
    BY <1>1, <2>1, <2>4
<1>4. CASE StixPass
  <2>1. step = "stix" /\ step' = "built" /\ trees' = [trees EXCEPT ![at] = WithBundle(@)]
    BY <1>4 DEF StixPass
  <2>2. at \in DOMAIN trees
    BY <2>1 DEF IInv, InPlace, Working
  <2>3. PICK tree : tree = WithBundle(trees[at])
    OBVIOUS
  <2>4. trees' = [trees EXCEPT ![at] = tree]
    BY <2>1, <2>3
  <2>5. \E bundle : tree = [trees[at] EXCEPT !.bundle = bundle]
    BY <2>3 DEF WithBundle
  <2>6. IsTree(tree) /\ tree.rows = trees[at].rows /\ tree.relationships = trees[at].relationships
    BY <2>2, <2>5 DEF Declaring, IsTree
  <2>7. disk
    BY <2>2, <2>4, <2>6, TreeIsReplaced DEF Declaring, OfClass
  <2> QED
    BY <1>1, <2>1, <2>7
<1>5. CASE \E s \in DOMAIN case : Rederive(s)
  <2>1. PICK s \in DOMAIN case : Rederive(s)
    BY <1>5
  <2> DEFINE list == trees[s].rows
             store == DeriveInto(InsertEdges(EmptyStore, EdgesFromEvents(list)), list)
             made == Tree(list, store)
             tree == [made EXCEPT !.bundle = trees[s].bundle]
  <2>2. Built /\ trees' = [trees EXCEPT ![s] = tree] /\ step' = step
    BY <2>1 DEF Rederive
  <2>3. {e \in store.relationships : e.class = "declared"} = EdgesFromEvents(list)
    BY AllDeclared, DerivingAdds
  <2> HIDE DEF store
  <2>4. IsTree(made) /\ made.rows = list /\ OfClass(made, "declared") = EdgesFromEvents(list)
    BY <2>3, TreeDeclares
  <2> HIDE DEF made
  <2>5. IsTree(tree) /\ tree.rows = list /\ OfClass(tree, "declared") = EdgesFromEvents(list)
    BY <2>4 DEF IsTree, OfClass
  <2> HIDE DEF tree
  <2>6. disk
    BY <2>2, <2>5, TreeIsReplaced
  <2>7. step' # "derive"
    BY <2>2 DEF IInv
  <2> QED
    BY <1>1, <2>6, <2>7
<1>6. CASE Fold \/ EnrichNext \/ NoDerivePass \/ NextSource
  <2>1. trees' = trees /\ step' # "derive"
    BY <1>6 DEF Fold, EnrichNext, NoDerivePass, NextSource
  <2> QED
    BY <1>1, <2>1 DEF Declaring
<1>7. CASE ConvergeCase \/ UNCHANGED vars
  <2>1. trees' = trees /\ step' = step /\ at' = at /\ rows' = rows
    BY <1>7 DEF ConvergeCase, vars
  <2> QED
    BY <1>1, <2>1 DEF Declaring
<1> QED
  BY <1>2, <1>3, <1>4, <1>5, <1>6, <1>7 DEF Next

LEMMA TreesDeclare == Spec => []Declaring
<1>1. Init => Declaring
  BY DeclaringBegins
<1>2. IInv /\ Declaring /\ [Next]_vars => Declaring'
  BY DeclaringStays
<1> QED
  BY <1>1, <1>2, Invariant, PTL DEF Spec

\* Once the case is built, a step replaces the tree of a source by one of the same rows.
LEMMA RowsStay ==
  ASSUME IInv, Declaring, Built, [Next]_vars, NEW s \in DOMAIN trees
  PROVE  trees'[s].rows = trees[s].rows /\ s \in DOMAIN trees'
<1>1. step = "fold"
  BY DEF IInv
<1>2. CASE \E r \in DOMAIN case : Rederive(r)
  <2>1. PICK r \in DOMAIN case : Rederive(r)
    BY <1>2
  <2>2. PICK store : trees' = [trees EXCEPT ![r] = [Tree(trees[r].rows, store) EXCEPT !.bundle = trees[r].bundle]]
    BY <2>1 DEF Rederive
  <2>3. [Tree(trees[r].rows, store) EXCEPT !.bundle = trees[r].bundle].rows = trees[r].rows
    BY DEF Tree
  <2> QED
    BY <2>2, <2>3
<1>3. CASE ~(\E r \in DOMAIN case : Rederive(r))
  <2>1. trees' = trees
    BY <1>1, <1>3 DEF Next, Fold, EnrichNext, Export, DerivePass, NoDerivePass, StixPass, NextSource,
                      ConvergeCase, vars
  <2> QED
    BY <2>1
<1> QED
  BY <1>2, <1>3

\* Deriving again from disk makes the declared relationships that the build made from the rows
\* in memory, whatever the rows and the tables: all that they are read off is stored, each row
\* is in a file, and the derived pass adds none (derive.py run, store.py HEADER).
THEOREM DeclaredAlwaysSurvive == Spec => DeclaredSurviveRederive
<1> DEFINE survive == \A s \in DOMAIN trees : OfClass(trees'[s], "declared") = OfClass(trees[s], "declared")
<1>1. ASSUME IInv, Declaring, Declaring', [Next]_vars, Built
      PROVE  survive
  <2>1. \A s \in DOMAIN trees : trees'[s].rows = trees[s].rows /\ s \in DOMAIN trees'
    BY <1>1, RowsStay
  <2>2. \A s \in DOMAIN trees : OfClass(trees[s], "declared") = EdgesFromEvents(trees[s].rows)
    BY <1>1 DEF Declaring
  <2>3. \A s \in DOMAIN trees' : OfClass(trees'[s], "declared") = EdgesFromEvents(trees'[s].rows)
    BY <1>1 DEF Declaring
  <2> QED
    BY <2>1, <2>2, <2>3
<1>2. IInv /\ Declaring /\ Declaring' /\ [Next]_vars => [Built => survive]_vars
  BY <1>1
<1> HIDE DEF survive
<1>3. []IInv /\ []Declaring /\ [][Next]_vars => [][Built => survive]_vars
  BY <1>2, PTL
<1> USE DEF survive
<1> QED
  BY <1>3, Invariant, TreesDeclare, PTL DEF Spec, DeclaredSurviveRederive

-----------------------------------------------------------------------------
(* The ends of the derived relationships *)

\* Lists that are laid end to end have the elements of each.
Elements(list) == {list[i] : i \in 1..Len(list)}

FlattenStep(lists, x, y) == x \o y
FlattenSo(lists, k, x) == Elements(x) = UNION {Elements(lists[j]) : j \in 1..k}

Flattening == INSTANCE FoldProof WITH Op <- FlattenStep, Inv <- FlattenSo

LEMMA FlattenHas ==
  ASSUME NEW S, NEW n, NEW lists, List(lists, n), \A k \in 1..n : lists[k] \in Seq(S)
  PROVE  FlattenSeq(lists) \in Seq(S) /\ Elements(FlattenSeq(lists)) = UNION {Elements(lists[k]) : k \in 1..n}
<1>1. lists \in Seq(Seq(S)) /\ Len(lists) = n /\ n \in Nat
  <2>1. Len(lists) = n /\ n \in Nat
    BY LenIs DEF List
  <2>2. lists \in [1..n -> Seq(S)]
    BY DEF List
  <2> QED
    BY <2>1, <2>2
<1>2. FlattenSo(lists, 0, <<>>)
  BY DEF FlattenSo, Elements
<1>3. ASSUME NEW k \in 1..Len(lists), NEW x \in Seq(S), FlattenSo(lists, k - 1, x)
      PROVE  FlattenSo(lists, k, x \o lists[k])
  <2>1. 1..k = 1..(k - 1) \cup {k} /\ lists[k] \in Seq(S)
    BY <1>1
  <2> DEFINE z == x \o lists[k]
             m == Len(x)
             l == Len(lists[k])
  <2>2. /\ m \in Nat /\ l \in Nat /\ Len(z) = m + l
        /\ \A i \in 1..m : z[i] = x[i]
        /\ \A i \in 1..l : z[m + i] = lists[k][i]
    BY <2>1
  <2>3. \A i \in 1..(m + l) : i \in 1..m \/ (i - m \in 1..l /\ i = m + (i - m))
    BY <2>2
  <2>4. \A i \in 1..m : i \in 1..(m + l)
    BY <2>2
  <2>5. \A i \in 1..l : m + i \in 1..(m + l)
    BY <2>2
  <2> HIDE DEF z, m, l
  <2>6. Elements(z) \subseteq Elements(x) \cup Elements(lists[k])
    <3>1. \A i \in 1..m : z[i] \in Elements(x)
      BY <2>2 DEF Elements, m
    <3>2. \A i \in 1..(m + l) : i - m \in 1..l => z[i] \in Elements(lists[k])
      <4> TAKE i \in 1..(m + l)
      <4>1. i - m \in 1..l => z[m + (i - m)] = lists[k][i - m] /\ m + (i - m) = i
        BY <2>2
      <4> QED
        BY <4>1 DEF Elements, l
    <3> QED
      BY <2>2, <2>3, <3>1, <3>2 DEF Elements
  <2>7. Elements(x) \subseteq Elements(z) /\ Elements(lists[k]) \subseteq Elements(z)
    BY <2>2, <2>4, <2>5 DEF Elements, m, l
  <2>8. Elements(z) = Elements(x) \cup Elements(lists[k])
    BY <2>6, <2>7
  <2> QED
    BY <1>3, <2>1, <2>8 DEF FlattenSo, z
<1>4. /\ Flattening!FlattenSeq(lists) \in Seq(S)
      /\ FlattenSo(lists, Len(lists), Flattening!FlattenSeq(lists))
  BY <1>1, <1>2, <1>3, Flattening!FlattenKeeps
<1>5. Flattening!FlattenSeq(lists) = FlattenSeq(lists)
  BY Zenon DEF FlattenSeq, Flattening!FlattenSeq
<1> QED
  BY <1>1, <1>4, <1>5 DEF FlattenSo

\* Every inference is of a rule and a row.
Turns(list) ==
  {[rule |-> Reconstructs[p[1]], row |-> list[p[2]],
    node |-> Inference(list, Reconstructs[p[1]], list[p[2]])[1].node,
    observed |-> Inference(list, Reconstructs[p[1]], list[p[2]])[1].observed] :
     p \in {q \in (DOMAIN Reconstructs) \X (DOMAIN list) : Inference(list, Reconstructs[q[1]], list[q[2]]) # <<>>}}

LEMMA InferencesAre ==
  ASSUME NEW list, NEW n, List(list, n)
  PROVE  Inferences(list) \in Seq(Turns(list))
<1> DEFINE m == Len(Reconstructs)
           S == Turns(list)
           found(r, k) == Inference(list, Reconstructs[r], list[k])
           told(r, k) == [rule |-> Reconstructs[r], row |-> list[k],
                          node |-> found(r, k)[1].node, observed |-> found(r, k)[1].observed]
           of(r, k) == IF found(r, k) = <<>> THEN <<>> ELSE <<told(r, k)>>
           by(r) == [k \in 1..n |-> of(r, k)]
           all == [r \in 1..m |-> FlattenSeq(by(r))]
<1>1. n \in Nat /\ DOMAIN list = 1..n
  BY DEF List
<1>2. m \in Nat /\ DOMAIN Reconstructs = 1..m
  BY RulesAssumption, IsListHas
<1>3. Inferences(list) = FlattenSeq(all)
  BY <1>1, <1>2 DEF Inferences
<1>4. \A r \in 1..m, k \in 1..n : of(r, k) \in Seq(S)
  <2> TAKE r \in 1..m, k \in 1..n
  <2>1. CASE found(r, k) = <<>>
    BY <2>1
  <2>2. CASE found(r, k) # <<>>
    <3>1. told(r, k) \in S
      <4> DEFINE p == <<r, k>>
      <4>1. p \in {q \in (DOMAIN Reconstructs) \X (DOMAIN list) :
                     Inference(list, Reconstructs[q[1]], list[q[2]]) # <<>>}
        BY <1>1, <1>2, <2>2
      <4>2. p[1] = r /\ p[2] = k
        OBVIOUS
      <4> HIDE DEF p
      <4> QED
        BY <4>1, <4>2, Zenon DEF Turns
    <3> HIDE DEF told, S
    <3> QED
      BY <2>2, <3>1
  <2> QED
    BY <2>1, <2>2
<1> HIDE DEF of, S, found, told
<1>5. \A r \in 1..m : FlattenSeq(by(r)) \in Seq(S)
  <2> TAKE r \in 1..m
  <2>1. List(by(r), n) /\ \A k \in 1..n : by(r)[k] \in Seq(S)
    BY <1>1, <1>4 DEF List
  <2> HIDE DEF by
  <2> QED
    BY <2>1, FlattenHas
<1> HIDE DEF by
<1>6. List(all, m) /\ \A r \in 1..m : all[r] \in Seq(S)
  BY <1>2, <1>5 DEF List
<1> HIDE DEF all
<1> QED
  BY <1>3, <1>6, FlattenHas DEF S

\* What a row says of a content identity is a content node.
LEMMA MentionIsContent ==
  ASSUME NEW list, NEW n, List(list, n), NEW i \in DOMAIN Content, NEW k \in 1..n,
         NEW j \in DOMAIN Content[i].fields, Has(list[k], Content[i].fields[j]),
         Accepts(Content[i].name, list[k][Content[i].fields[j]])
  PROVE  Prefix[Content[i].fields[j]] \o Normalize(Content[i].name, list[k][Content[i].fields[j]])
           \in DOMAIN ContentNodes(list)
<1> DEFINE m == Len(Content)
           fields(c) == Len(Content[c].fields)
           of(c, r, f) == Mention(Content[c], list[r], f)
           S == UNION {UNION {{of(c, r, f)[1] : f \in 1..fields(c)} : r \in 1..n} : c \in 1..m}
           row(c, r) == [f \in 1..fields(c) |-> of(c, r, f)]
           identity(c) == [r \in 1..n |-> FlattenSeq(row(c, r))]
           all == [c \in 1..m |-> FlattenSeq(identity(c))]
           it == of(i, k, j)[1]
           mentions == Mentions(list)
<1>1. n \in Nat /\ DOMAIN list = 1..n
  BY DEF List
<1>2. /\ m \in Nat /\ DOMAIN Content = 1..m
      /\ \A c \in 1..m : fields(c) \in Nat /\ DOMAIN Content[c].fields = 1..fields(c)
  BY RulesAssumption, IsListHas
<1>3. mentions = FlattenSeq(all)
  BY <1>1, <1>2 DEF Mentions
<1>4. of(i, k, j) = <<it>> /\ it.node = Prefix[Content[i].fields[j]] \o
        Normalize(Content[i].name, list[k][Content[i].fields[j]])
  BY DEF Mention
<1>5. \A c \in 1..m, r \in 1..n : \A f \in 1..fields(c) : of(c, r, f) \in Seq(S)
  <2> TAKE c \in 1..m, r \in 1..n
  <2> TAKE f \in 1..fields(c)
  <2>1. of(c, r, f)[1] \in S
    OBVIOUS
  <2>2. of(c, r, f) = <<>> \/ of(c, r, f) = <<of(c, r, f)[1]>>
    BY DEF Mention
  <2>3. PICK x : x = of(c, r, f)[1]
    OBVIOUS
  <2> HIDE DEF of, S
  <2>4. x \in S /\ of(c, r, f) \in {<<>>, <<x>>}
    BY <2>1, <2>2, <2>3
  <2>5. <<>> \in Seq(S) /\ <<x>> \in Seq(S)
    BY <2>4
  <2> QED
    BY <2>4, <2>5
<1> HIDE DEF of, S, it, fields, mentions
<1>6. ASSUME NEW c \in 1..m, NEW r \in 1..n
      PROVE  /\ FlattenSeq(row(c, r)) \in Seq(S)
             /\ Elements(FlattenSeq(row(c, r))) = UNION {Elements(of(c, r, f)) : f \in 1..fields(c)}
  <2>1. List(row(c, r), fields(c)) /\ \A f \in 1..fields(c) : row(c, r)[f] = of(c, r, f)
    BY <1>2 DEF List
  <2>2. \A f \in 1..fields(c) : row(c, r)[f] \in Seq(S)
    BY <1>5, <2>1
  <2> HIDE DEF row
  <2>3. /\ FlattenSeq(row(c, r)) \in Seq(S)
        /\ Elements(FlattenSeq(row(c, r))) = UNION {Elements(row(c, r)[f]) : f \in 1..fields(c)}
    BY <2>1, <2>2, FlattenHas
  <2> QED
    BY <2>1, <2>3
<1> HIDE DEF row
<1>7. ASSUME NEW c \in 1..m
      PROVE  /\ FlattenSeq(identity(c)) \in Seq(S)
             /\ Elements(FlattenSeq(identity(c))) = UNION {Elements(FlattenSeq(row(c, r))) : r \in 1..n}
  <2>1. List(identity(c), n) /\ \A r \in 1..n : identity(c)[r] = FlattenSeq(row(c, r))
    BY <1>1 DEF List
  <2>2. \A r \in 1..n : identity(c)[r] \in Seq(S)
    BY <1>6, <2>1
  <2>3. PICK parts : parts = identity(c)
    OBVIOUS
  <2> HIDE DEF identity
  <2>4. \A r \in 1..n : parts[r] = FlattenSeq(row(c, r))
    BY <2>1, <2>3
  <2>5. List(parts, n) /\ \A r \in 1..n : parts[r] \in Seq(S)
    BY <2>1, <2>2, <2>3
  <2>6. FlattenSeq(parts) \in Seq(S) /\ Elements(FlattenSeq(parts)) = UNION {Elements(parts[r]) : r \in 1..n}
    BY <2>5, FlattenHas
  <2>7. UNION {Elements(parts[r]) : r \in 1..n} = UNION {Elements(FlattenSeq(row(c, r))) : r \in 1..n}
    BY <2>4
  <2> QED
    BY <2>3, <2>6, <2>7
<1> HIDE DEF identity
<1>8. mentions \in Seq(S) /\ Elements(mentions) = UNION {Elements(FlattenSeq(identity(c))) : c \in 1..m}
  <2>1. List(all, m) /\ \A c \in 1..m : all[c] = FlattenSeq(identity(c))
    BY <1>2 DEF List
  <2>2. \A c \in 1..m : all[c] \in Seq(S)
    BY <1>7, <2>1
  <2> HIDE DEF all
  <2>3. FlattenSeq(all) \in Seq(S) /\ Elements(FlattenSeq(all)) = UNION {Elements(all[c]) : c \in 1..m}
    BY <2>1, <2>2, FlattenHas
  <2> QED
    BY <1>3, <2>1, <2>3
<1> HIDE DEF all
<1>9. it \in Elements(mentions)
  <2>1. it \in Elements(of(i, k, j))
    BY <1>4 DEF Elements
  <2>2. it \in Elements(FlattenSeq(row(i, k)))
    BY <1>2, <1>6, <2>1
  <2>3. it \in Elements(FlattenSeq(identity(i)))
    BY <1>2, <1>7, <2>2
  <2> QED
    BY <1>2, <1>8, <2>3
<1>10. DOMAIN mentions = 1..Len(mentions)
  BY <1>8
<1>11. DOMAIN ContentNodes(list) = {mentions[x].node : x \in DOMAIN mentions}
  BY Zenon DEF ContentNodes, mentions
<1> QED
  BY <1>4, <1>9, <1>10, <1>11 DEF Elements

\* An account that acts is a content node.
LEMMA AccountIsContent ==
  ASSUME NEW list, NEW n, List(list, n), NEW k \in 1..n, NEW rule \in ToSet(Actors),
         NEW fields \in {rule.fields, rule.target_fields}, Account(list[k], fields) # <<>>
  PROVE  Account(list[k], fields)[2] \in DOMAIN ContentNodes(list)
<1> DEFINE row == list[k]
           known == {j \in 1..Len(fields) : Has(row, fields[j]) /\ Accepts("sid", row[fields[j]])}
           at1 == SelectInSeq(fields, LAMBDA f : Has(row, f) /\ Accepts("sid", row[f]))
<1>1. /\ IsList(fields)
      /\ \E i \in DOMAIN Content : Content[i].name = "sid" /\ ToSet(fields) \subseteq ToSet(Content[i].fields)
  BY RulesAssumption
<1>2. Len(fields) \in Nat /\ DOMAIN fields = 1..Len(fields)
  BY <1>1, IsListHas
<1>3. at1 = IF known # {} THEN Min(known) ELSE 0
  BY DEF SelectInSeq
<1>4. at1 # 0 /\ Account(row, fields)[2] = Prefix[fields[at1]] \o Normalize("sid", row[fields[at1]])
  BY DEF Account
<1> HIDE DEF at1
<1>5. known \in SUBSET Nat
  BY <1>2
<1>6. at1 \in known
  <2> HIDE DEF known
  <2> QED
    BY <1>3, <1>4, <1>5, LeastIsThere
<1>7. PICK i \in DOMAIN Content : Content[i].name = "sid" /\ ToSet(fields) \subseteq ToSet(Content[i].fields)
  BY <1>1
<1>8. PICK j \in DOMAIN Content[i].fields : Content[i].fields[j] = fields[at1]
  <2>1. fields[at1] \in ToSet(fields)
    BY <1>2, <1>6 DEF ToSet
  <2> QED
    BY <1>7, <2>1 DEF ToSet
<1>9. Has(row, fields[at1]) /\ Accepts("sid", row[fields[at1]])
  BY <1>6
<1> HIDE DEF known
<1> QED
  BY <1>4, <1>7, <1>8, <1>9, MentionIsContent

\* The inferred nodes after some of the inferences: each is of one of them, each of them is of one.
NodeFields == {"node_id", "source_host", "object", "identity_key", "method", "reason", "corroborated_by",
               "properties", "conflicts", "first_seen", "last_seen"}

About(node, t) ==
  /\ node.node_id = t.node[2] /\ node.source_host = Get(t.row, "source_host") /\ node.object = t.rule.node

NodesSo(turns, k, nodes) ==
  /\ List(nodes, Len(nodes))
  /\ \A p \in 1..Len(nodes) : DOMAIN nodes[p] = NodeFields /\ \E i \in 1..k : About(nodes[p], turns[i])
  /\ \A i \in 1..k : \E p \in 1..Len(nodes) : nodes[p].node_id = turns[i].node[2]

NodeStep(turns, nodes, t) == Referred(nodes, t)

Reconstructing == INSTANCE FoldProof WITH Op <- NodeStep, Inv <- NodesSo

LEMMA CorroborateIs ==
  ASSUME NEW node, DOMAIN node = NodeFields, NEW rule, NEW row, NEW by
  PROVE  LET after == Corroborate(node, rule, row, by)
         IN  /\ DOMAIN after = NodeFields /\ after.node_id = node.node_id
             /\ after.source_host = node.source_host /\ after.object = node.object
<1>1. ASSUME NEW x, NEW ts, DOMAIN x = NodeFields
      PROVE  /\ DOMAIN Seen(x, ts) = NodeFields /\ Seen(x, ts).node_id = x.node_id
             /\ Seen(x, ts).source_host = x.source_host /\ Seen(x, ts).object = x.object
  <2>1. PICK a, b : Seen(x, ts) \in {x, [x EXCEPT !.first_seen = a, !.last_seen = b]}
    BY DEF Seen
  <2> QED
    BY <1>1, <2>1 DEF NodeFields
<1>2. PICK a, b, c, d : Corroborate(node, rule, row, by)
        = Seen([node EXCEPT !.reason = a, !.corroborated_by = b, !.properties = c, !.conflicts = d], Time(row))
  BY DEF Corroborate
<1> DEFINE x == [node EXCEPT !.reason = a, !.corroborated_by = b, !.properties = c, !.conflicts = d]
           after == Corroborate(node, rule, row, by)
<1>3. after = Seen(x, Time(row))
  BY <1>2
<1>4. /\ DOMAIN x = NodeFields /\ x.node_id = node.node_id
      /\ x.source_host = node.source_host /\ x.object = node.object
  BY DEF NodeFields
<1> HIDE DEF x, after
<1>5. /\ DOMAIN after = NodeFields /\ after.node_id = node.node_id
      /\ after.source_host = node.source_host /\ after.object = node.object
  BY <1>1, <1>3, <1>4
<1> QED
  BY <1>5 DEF after

LEMMA NodeAtIs ==
  ASSUME NEW nodes, List(nodes, Len(nodes)), NEW t
  PROVE  LET p == NodeAt(nodes, t)
         IN  \/ p = 0 /\ \A q \in 1..Len(nodes) : ~(nodes[q].node_id = t.node[2]
                                                      /\ nodes[q].source_host = Get(t.row, "source_host"))
             \/ p \in 1..Len(nodes) /\ nodes[p].node_id = t.node[2] /\ nodes[p].source_host = Get(t.row, "source_host")
<1> DEFINE known == {p \in 1..Len(nodes) : nodes[p].node_id = t.node[2]
                                          /\ nodes[p].source_host = Get(t.row, "source_host")}
<1>1. NodeAt(nodes, t) = IF known # {} THEN Min(known) ELSE 0
  BY DEF NodeAt, SelectInSeq
<1>2. known \in SUBSET Nat
  BY DEF List
<1>3. known # {} => Min(known) \in known
  <2> HIDE DEF known
  <2> QED
    BY <1>2, LeastIsThere
<1> QED
  BY <1>1, <1>3

\* An inference finds its node, or makes it.
LEMMA KnownIs ==
  ASSUME NEW turns, NEW k \in Nat, k # 0, NEW nodes, NodesSo(turns, k - 1, nodes)
  PROVE  LET known == KnownNodes(nodes, turns[k])
             at1 == NodeAt(known, turns[k])
         IN  /\ List(known, Len(known))
             /\ \A p \in 1..Len(known) : DOMAIN known[p] = NodeFields /\ \E i \in 1..k : About(known[p], turns[i])
             /\ \A i \in 1..(k - 1) : \E p \in 1..Len(known) : known[p].node_id = turns[i].node[2]
             /\ at1 \in 1..Len(known) /\ known[at1].node_id = turns[k].node[2]
<1> DEFINE t == turns[k]
           n == Len(nodes)
           known == KnownNodes(nodes, t)
<1>1. /\ List(nodes, n) /\ n \in Nat /\ nodes \in Seq({nodes[p] : p \in DOMAIN nodes}) /\ DOMAIN nodes = 1..n
      /\ \A p \in 1..n : DOMAIN nodes[p] = NodeFields /\ \E i \in 1..(k - 1) : About(nodes[p], turns[i])
      /\ \A i \in 1..(k - 1) : \E p \in 1..n : nodes[p].node_id = turns[i].node[2]
  BY LenIs DEF NodesSo, List
<1>2. \A i \in 1..(k - 1) : i \in 1..k
  OBVIOUS
<1>3. CASE NodeAt(nodes, t) # 0
  <2>1. known = nodes
    BY <1>3 DEF KnownNodes
  <2>2. NodeAt(nodes, t) \in 1..n /\ nodes[NodeAt(nodes, t)].node_id = t.node[2]
    BY <1>1, <1>3, NodeAtIs
  <2> HIDE DEF known
  <2> QED
    BY <1>1, <1>2, <2>1, <2>2 DEF known
<1>4. CASE NodeAt(nodes, t) = 0
  <2> DEFINE new == NewNode(t.rule, t.row, t.node[2])
             S == {nodes[p] : p \in DOMAIN nodes} \cup {new}
  <2>1. DOMAIN new = NodeFields /\ About(new, t)
    BY DEF NewNode, NodeFields, About
  <2>2. known = Append(nodes, new)
    BY <1>4 DEF KnownNodes
  <2>3. nodes \in Seq(S) /\ new \in S
    <3>1. {nodes[p] : p \in DOMAIN nodes} \subseteq S
      OBVIOUS
    <3> QED
      BY <1>1, <3>1
  <2> HIDE DEF new, S, known
  <2>4. /\ known \in Seq(S) /\ Len(known) = n + 1 /\ known[n + 1] = new
        /\ \A p \in 1..n : known[p] = nodes[p]
    BY <1>1, <2>2, <2>3
  <2>5. List(known, Len(known))
    BY <1>1, <2>4 DEF List
  <2>6. \A p \in 1..(n + 1) : p \in 1..n \/ p = n + 1
    BY <1>1
  <2>7. \A p \in 1..n : p \in 1..(n + 1)
    BY <1>1
  <2>8. n + 1 \in 1..(n + 1) /\ k \in 1..k
    BY <1>1
  <2>9. \A p \in 1..(n + 1) : DOMAIN known[p] = NodeFields /\ \E i \in 1..k : About(known[p], turns[i])
    BY <1>1, <1>2, <2>1, <2>4, <2>6, <2>8
  <2>10. \A i \in 1..(k - 1) : \E p \in 1..(n + 1) : known[p].node_id = turns[i].node[2]
    BY <1>1, <2>4, <2>7
  <2>11. NodeAt(known, t) \in 1..Len(known) /\ known[NodeAt(known, t)].node_id = t.node[2]
    <3>1. known[n + 1].node_id = t.node[2] /\ known[n + 1].source_host = Get(t.row, "source_host")
      BY <2>1, <2>4 DEF About
    <3>2. n + 1 \in 1..Len(known)
      BY <2>4, <2>8
    <3>3. PICK p : p = NodeAt(known, t)
      OBVIOUS
    <3>4. \/ p = 0 /\ \A r \in 1..Len(known) : ~(known[r].node_id = t.node[2]
                                              /\ known[r].source_host = Get(t.row, "source_host"))
          \/ p \in 1..Len(known) /\ known[p].node_id = t.node[2]
      BY <2>5, <3>3, NodeAtIs
    <3> QED
      BY <3>1, <3>2, <3>3, <3>4
  <2> QED
    BY <2>4, <2>5, <2>9, <2>10, <2>11 DEF known
<1> QED
  BY <1>3, <1>4

LEMMA ReferredKeeps ==
  ASSUME NEW turns, NEW k \in Nat, k # 0, NEW nodes, NodesSo(turns, k - 1, nodes)
  PROVE  NodesSo(turns, k, Referred(nodes, turns[k]))
<1> DEFINE t == turns[k]
           known == KnownNodes(nodes, t)
           q == NodeAt(known, t)
           node == Corroborate(known[q], t.rule, t.row, t.observed[2])
           after == [known EXCEPT ![q] = node]
<1>1. /\ List(known, Len(known))
      /\ \A p \in 1..Len(known) : DOMAIN known[p] = NodeFields /\ \E i \in 1..k : About(known[p], turns[i])
      /\ \A i \in 1..(k - 1) : \E p \in 1..Len(known) : known[p].node_id = turns[i].node[2]
      /\ q \in 1..Len(known) /\ known[q].node_id = turns[k].node[2]
  BY KnownIs
<1>2. Referred(nodes, t) = after
  BY DEF Referred
<1> HIDE DEF q, known
<1>3. /\ DOMAIN node = NodeFields /\ node.node_id = known[q].node_id
      /\ node.source_host = known[q].source_host /\ node.object = known[q].object
  BY <1>1, CorroborateIs
<1> HIDE DEF node, t
<1>4. after[q] = node /\ List(after, Len(known)) /\ \A p \in (1..Len(known)) \ {q} : after[p] = known[p]
  <2>1. DOMAIN known = 1..Len(known) /\ Len(known) \in Nat
    BY <1>1 DEF List
  <2>2. /\ DOMAIN after = 1..Len(known) /\ after = [p \in 1..Len(known) |-> after[p]]
        /\ after[q] = node /\ \A p \in (1..Len(known)) \ {q} : after[p] = known[p]
    BY <1>1, <2>1
  <2> HIDE DEF after
  <2> QED
    BY <2>1, <2>2 DEF List
<1> HIDE DEF after
<1>5. Len(after) = Len(known)
  BY <1>4, LenIs
<1>6. \A p \in 1..Len(known) :
        /\ DOMAIN after[p] = NodeFields /\ after[p].node_id = known[p].node_id
        /\ after[p].source_host = known[p].source_host /\ after[p].object = known[p].object
  BY <1>1, <1>3, <1>4
<1>7. \A p \in 1..Len(known) : \E i \in 1..k : About(after[p], turns[i])
  BY <1>1, <1>6 DEF About
<1>8. \A i \in 1..k : i \in 1..(k - 1) \/ i = k
  OBVIOUS
<1>9. \A i \in 1..k : \E p \in 1..Len(known) : after[p].node_id = turns[i].node[2]
  BY <1>1, <1>6, <1>8
<1> QED
  BY <1>2, <1>4, <1>5, <1>6, <1>7, <1>9 DEF NodesSo, t

\* The nodes of a list of inferences.
LEMMA NodesAre ==
  ASSUME NEW turns, List(turns, Len(turns))
  PROVE  NodesSo(turns, Len(turns), FoldLeft(Referred, <<>>, turns))
<1>1. Len(turns) \in Nat /\ DOMAIN turns = 1..Len(turns)
  BY DEF List
<1>2. NodesSo(turns, 0, <<>>)
  <2>1. List(<<>>, 0) /\ Len(<<>>) = 0
    BY DEF List
  <2> QED
    BY <2>1 DEF NodesSo
<1>3. \A k \in 1..Len(turns) : \A x : NodesSo(turns, k - 1, x) => NodesSo(turns, k, NodeStep(turns, x, turns[k]))
  BY <1>1, ReferredKeeps DEF NodeStep
<1>4. NodesSo(turns, Len(turns), Reconstructing!Folded(turns, <<>>, turns))
  BY <1>1, <1>2, <1>3, Reconstructing!FoldKeeps
<1>5. Reconstructing!Folded(turns, <<>>, turns) = FoldLeft(Referred, <<>>, turns)
  BY Zenon DEF NodeStep, FoldLeft, MapThenFoldSet, Max, Reconstructing!Folded,
               Reconstructing!FoldLeft, Reconstructing!MapThenFoldSet, Reconstructing!Max
<1> QED
  BY <1>4, <1>5

\* What an inference is of: a reference of a row to what no row of its host is about.
LEMMA InferenceIs ==
  ASSUME NEW list, NEW t \in Turns(list)
  PROVE  \E k \in DOMAIN list : \E rule \in ToSet(Reconstructs) :
           /\ t.rule = rule /\ t.row = list[k] /\ t.node = <<rule.node, NamedBy(rule, list[k])>>
           /\ Has(list[k], rule.reference) /\ NamedBy(rule, list[k]) # ""
           /\ <<Get(list[k], "source_host"), rule.node, NamedBy(rule, list[k])>> \notin Observed(list)
           /\ t.observed = IF rule.observed = <<>> THEN End(list[k])
                           ELSE <<rule.observed.object, Get(list[k], rule.observed.field)>>
           /\ t.observed[2] # ""
<1>1. PICK r \in DOMAIN Reconstructs, k \in DOMAIN list :
        /\ Inference(list, Reconstructs[r], list[k]) # <<>>
        /\ t = [rule |-> Reconstructs[r], row |-> list[k],
                node |-> Inference(list, Reconstructs[r], list[k])[1].node,
                observed |-> Inference(list, Reconstructs[r], list[k])[1].observed]
  BY DEF Turns
<1> DEFINE rule == Reconstructs[r]
           row == list[k]
           end == IF rule.observed = <<>> THEN End(row)
                  ELSE <<rule.observed.object, Get(row, rule.observed.field)>>
           found == [node |-> <<rule.node, NamedBy(rule, row)>>, observed |-> end]
<1>2. /\ Inference(list, rule, row) = <<found>>
      /\ Has(row, rule.reference) /\ NamedBy(rule, row) # "" /\ end[2] # ""
      /\ <<Get(row, "source_host"), rule.node, NamedBy(rule, row)>> \notin Observed(list)
  BY <1>1 DEF Inference, NamedBy
<1>3. rule \in ToSet(Reconstructs)
  BY DEF ToSet
<1> HIDE DEF end, rule
<1>4. found.node = <<rule.node, NamedBy(rule, row)>> /\ found.observed = end
  OBVIOUS
<1> HIDE DEF found
<1>5. /\ t.rule = rule /\ t.row = row /\ t.node = <<rule.node, NamedBy(rule, row)>> /\ t.observed = end
  <2>1. PICK inferences : inferences = Inference(list, Reconstructs[r], row)
    OBVIOUS
  <2>2. PICK inference : inference = inferences[1]
    OBVIOUS
  <2>3. PICK f : f = found
    OBVIOUS
  <2>4. inferences = <<f>>
    BY <1>2, <2>1, <2>3, Zenon DEF rule
  <2>5. inference = found
    BY <2>2, <2>3, <2>4
  <2>6. t = [rule |-> rule, row |-> row, node |-> inference.node, observed |-> inference.observed]
    BY <1>1, <2>1, <2>2 DEF rule
  <2>7. t.rule = rule /\ t.row = row /\ t.node = inference.node /\ t.observed = inference.observed
    BY <2>6
  <2> QED
    BY <1>4, <2>5, <2>7
<1> QED
  BY <1>2, <1>3, <1>5 DEF end

\* The inferred nodes of a source are of its inferences.
LEMMA InferredAre ==
  ASSUME NEW edges, NEW list, NEW n, List(list, n)
  PROVE  LET turns == Inferences(list)
             inferred == DeriveInto(InsertEdges(EmptyStore, edges), list).inferred
         IN  /\ \A i \in DOMAIN turns : turns[i] \in Turns(list) /\ turns[i].node[2] \in DOMAIN inferred
             /\ \A id \in DOMAIN inferred : \E i \in DOMAIN turns :
                  /\ turns[i].node[2] = id /\ inferred[id].source_host = Get(turns[i].row, "source_host")
                  /\ inferred[id].object = turns[i].rule.node
<1> DEFINE turns == Inferences(list)
           nodes == Reconstruct(list).nodes
           ids == {nodes[k].node_id : k \in DOMAIN nodes}
           those(id) == {p \in 1..Len(nodes) : nodes[p].node_id = id}
           last(id) == SelectLastInSeq(nodes, LAMBDA x : x.node_id = id)
           inferred == DeriveInto(InsertEdges(EmptyStore, edges), list).inferred
<1>1. turns \in Seq(Turns(list))
  BY InferencesAre
<1>2. List(turns, Len(turns)) /\ DOMAIN turns = 1..Len(turns) /\ \A i \in DOMAIN turns : turns[i] \in Turns(list)
  <2> HIDE DEF turns
  <2> QED
    BY <1>1 DEF List
<1>3. NodesSo(turns, Len(turns), nodes)
  <2>1. nodes = FoldLeft(Referred, <<>>, turns)
    BY Zenon DEF Reconstruct
  <2> HIDE DEF turns, nodes
  <2> QED
    BY <1>2, <2>1, NodesAre
<1>4. inferred = Over([id \in ids |-> nodes[last(id)]], <<>>)
  BY StoreIs, Zenon
<1>5. \A id : last(id) = IF those(id) # {} THEN Max(those(id)) ELSE 0
  BY DEF SelectLastInSeq
<1> HIDE DEF turns, nodes, inferred, last
<1>6. Len(nodes) \in Nat /\ DOMAIN nodes = 1..Len(nodes)
  BY <1>3 DEF NodesSo, List
<1>7. \A id \in ids : last(id) \in 1..Len(nodes) /\ nodes[last(id)].node_id = id
  <2> TAKE id \in ids
  <2>1. those(id) # {} /\ those(id) \in SUBSET (0..Len(nodes))
    BY <1>6
  <2>2. Max(those(id)) \in those(id)
    <3> HIDE DEF those
    <3> QED
      BY <1>6, <2>1, GreatestIsThere
  <2> QED
    BY <1>5, <2>1, <2>2
<1>8. DOMAIN inferred = ids /\ \A id \in ids : inferred[id] = nodes[last(id)]
  <2>1. DOMAIN <<>> = {}
    OBVIOUS
  <2> QED
    BY <1>4, <2>1 DEF Over
<1>9. \A i \in DOMAIN turns : turns[i].node[2] \in ids
  BY <1>2, <1>3, <1>6 DEF NodesSo
<1>10. \A id \in ids : \E i \in 1..Len(turns) : About(inferred[id], turns[i]) /\ inferred[id].node_id = id
  BY <1>3, <1>7, <1>8 DEF NodesSo
<1> QED
  BY <1>2, <1>8, <1>9, <1>10 DEF About, turns, inferred

\* Where an edge may end: at a row of its host, an account, or an inferred node.
EndIsThere(tree, host, end) ==
  \/ <<host, end>> \in RowEnds(tree)
  \/ end[1] = "user_account" /\ end[2] \in DOMAIN tree.content
  \/ end[2] \in DOMAIN tree.inferred /\ tree.inferred[end[2]].object = end[1]

EndsExist(tree) ==
  /\ \A e \in OfClass(tree, "derived") : \A end \in {e.source, e.target} : EndIsThere(tree, e.source_host, end)
  /\ \A id \in DOMAIN tree.inferred :
       <<tree.inferred[id].source_host, <<tree.inferred[id].object, id>>>> \notin RowEnds(tree)

\* Both ends of a link are rows of one host.
LEMMA LinkEnds ==
  ASSUME NEW list, NEW e \in LinkEdges(list)
  PROVE  \E j, k \in DOMAIN list : /\ e.source = End(list[j]) /\ e.target = End(list[k])
                                   /\ e.source_host = Get(list[j], "source_host") /\ SameHost(list[k], list[j])
<1>1. PICK a \in LinkAttempts(list) : e \in LinksBy(list, a)
  BY DEF LinkEdges
<1> DEFINE rule == Links[a[1]]
           pair == rule.pairs[a[2]]
           s == list[a[3]]
           v == Values(s, pair.source)[a[4]]
           candidates == Candidates(list, rule, pair, s, v)
           ends == IF Accepts(rule.identity, v) THEN Disambiguate(list, rule, s, candidates) ELSE {}
           at1(t) == IF Has(s, "timestamp") \/ ~Has(list[t], "timestamp") THEN s
                     ELSE With(s, "timestamp", Time(list[t]))
           edge(t) == DerivedEdge(rule, at1(t), End(s), End(list[t]), pair.source, "")
<1>2. a[3] \in DOMAIN list
  BY DEF LinkAttempts
<1>3. LinksBy(list, a) = {edge(t) : t \in ends}
  BY DEF LinksBy
<1>4. ends \subseteq candidates
  BY DEF Disambiguate
<1>5. \A t \in candidates : t \in DOMAIN list /\ SameHost(list[t], s)
  BY DEF Candidates
<1>6. \A t : Get(at1(t), "source_host") = Get(s, "source_host")
  <2> TAKE t
  <2>1. Same(s, s, "source_host")
    BY DEF Same
  <2>2. Same(s, With(s, "timestamp", Time(list[t])), "source_host")
    BY WithIs
  <2> QED
    BY <2>1, <2>2 DEF Same, Get, OrElse, Has
<1> HIDE DEF ends, candidates, at1
<1>7. PICK t \in ends : e = edge(t)
  BY <1>1, <1>3
<1>8. e.source = End(s) /\ e.target = End(list[t]) /\ e.source_host = Get(at1(t), "source_host")
  BY <1>7 DEF DerivedEdge
<1> QED
  BY <1>2, <1>4, <1>5, <1>6, <1>8

\* An actor is an account, and acts on a row or on another account.
LEMMA ActorEnds ==
  ASSUME NEW list, NEW n, List(list, n), NEW e \in ActorEdges(list)
  PROVE  \E k \in DOMAIN list :
           /\ e.source_host = Get(list[k], "source_host")
           /\ e.source[1] = "user_account" /\ e.source[2] \in DOMAIN ContentNodes(list)
           /\ \/ e.target = End(list[k])
              \/ e.target[1] = "user_account" /\ e.target[2] \in DOMAIN ContentNodes(list)
<1>1. PICK r \in DOMAIN Actors, k \in DOMAIN list : e \in ActedOn(Actors[r], list[k])
  BY DEF ActorEdges
<1> DEFINE rule == Actors[r]
           row == list[k]
           source == Account(row, rule.fields)
           target == Account(row, rule.target_fields)
           edge(end) == DerivedEdge(rule, row, <<"user_account", source[2]>>, end, source[1], "")
<1>2. /\ source # <<>>
      /\ \/ e = edge(End(row))
         \/ target # <<>> /\ e = edge(<<"user_account", target[2]>>)
  BY <1>1 DEF ActedOn
<1>3. \A end : /\ edge(end).source = <<"user_account", source[2]>> /\ edge(end).target = end
               /\ edge(end).source_host = Get(row, "source_host")
  BY DEF DerivedEdge
<1>4. k \in 1..n /\ rule \in ToSet(Actors)
  BY DEF ToSet, List
<1>5. source[2] \in DOMAIN ContentNodes(list)
  BY <1>2, <1>4, AccountIsContent
<1>6. target # <<>> => target[2] \in DOMAIN ContentNodes(list)
  BY <1>4, AccountIsContent
<1> HIDE DEF edge, source, target
<1>7. e.source = <<"user_account", source[2]>> /\ e.source_host = Get(row, "source_host")
  BY <1>2, <1>3
<1>8. e.target = End(row) \/ (target # <<>> /\ e.target = <<"user_account", target[2]>>)
  BY <1>2, <1>3
<1> QED
  BY <1>5, <1>6, <1>7, <1>8

\* One end of an inferred edge is the missing node, the other what it was observed by.
LEMMA InferredEnds ==
  ASSUME NEW t
  PROVE  /\ InferredEdge(t).source_host = Get(t.row, "source_host")
         /\ {InferredEdge(t).source, InferredEdge(t).target} = {t.node, t.observed}
BY DEF InferredEdge, DerivedEdge

\* The ends that rows are, in memory and on disk.
LEMMA RowEndsAre ==
  ASSUME NEW list, NEW n, List(list, n), NEW tree, tree.rows = Files(list),
         \A j \in 1..n : /\ "car_object" \in DOMAIN list[j]
                         /\ \E o \in DOMAIN Objects : list[j]["car_object"] = Objects[o]
  PROVE  /\ \A k \in 1..n : <<Get(list[k], "source_host"), End(list[k])>> \in RowEnds(tree)
         /\ \A x \in RowEnds(tree) : \E k \in 1..n : x = <<Get(list[k], "source_host"), End(list[k])>>
<1>1. /\ DOMAIN Files(list) = 1..n
      /\ \A i \in 1..n : \E k \in 1..n : Files(list)[i] = Exported(list[k])
      /\ \A k \in 1..n : \E i \in 1..n : Files(list)[i] = Exported(list[k])
  BY FilesAre
<1>2. \A k \in 1..n : /\ Get(Exported(list[k]), "source_host") = Get(list[k], "source_host")
                      /\ End(Exported(list[k])) = End(list[k])
  <2> TAKE k \in 1..n
  <2>1. {"source_host", "guid", "car_object"} \subseteq ColumnsOf(list[k]["car_object"])
    BY StoredAssumption DEF ColumnsOf
  <2>2. /\ Get(Exported(list[k]), "source_host") = Get(list[k], "source_host")
        /\ Get(Exported(list[k]), "guid") = Get(list[k], "guid")
        /\ Same(list[k], Exported(list[k]), "car_object")
    BY <2>1, ExportedColumnsStay
  <2> QED
    BY <2>2 DEF End, Guid, Same
<1>3. \A k \in 1..n : <<Get(list[k], "source_host"), End(list[k])>> \in RowEnds(tree)
  <2> TAKE k \in 1..n
  <2>1. PICK i \in DOMAIN tree.rows : tree.rows[i] = Exported(list[k])
    BY <1>1
  <2>2. <<Get(tree.rows[i], "source_host"), End(tree.rows[i])>> \in RowEnds(tree)
    BY DEF RowEnds
  <2> QED
    BY <1>2, <2>1, <2>2
<1>4. \A x \in RowEnds(tree) : \E k \in 1..n : x = <<Get(list[k], "source_host"), End(list[k])>>
  BY <1>1, <1>2 DEF RowEnds
<1> QED
  BY <1>3, <1>4

\* Who was seen to refer is there.
OwnersAreThere(list) ==
  \A k \in DOMAIN list : \A rule \in ToSet(Reconstructs) :
    rule.observed # <<>> /\ Has(list[k], rule.reference) /\ Get(list[k], "owning_guid") # "" =>
      \E c \in DOMAIN list : /\ list[c]["car_object"] = "process" /\ SameHost(list[c], list[k])
                             /\ Guid(list[c]) = Get(list[k], "owning_guid")

LEMMA EndsOfList ==
  ASSUME NEW list, NEW n, List(list, n), OneKind(list), OwnersAreThere(list),
         \A j \in 1..n : /\ "car_object" \in DOMAIN list[j]
                         /\ \E o \in DOMAIN Objects : list[j]["car_object"] = Objects[o]
  PROVE  EndsExist(Tree(Files(list), DeriveInto(InsertEdges(EmptyStore, EdgesFromEvents(list)), list)))
<1> DEFINE edges == EdgesFromEvents(list)
           store == DeriveInto(InsertEdges(EmptyStore, edges), list)
           tree == Tree(Files(list), store)
           turns == Inferences(list)
<1>0. \A x, a, b : x = <<a, b>> => x[1] = a /\ x[2] = b
  OBVIOUS
<1>1. /\ tree.rows = Files(list) /\ tree.relationships = store.relationships
      /\ tree.inferred = store.inferred /\ tree.content = store.content
  BY DEF Tree
<1>2. DOMAIN list = 1..n
  BY DEF List
<1>3. store.relationships = edges \cup LinkEdges(list) \cup ActorEdges(list) \cup {InferredEdge(turns[i]) : i \in DOMAIN turns}
  <2>1. Reconstruct(list).edges = {InferredEdge(turns[i]) : i \in DOMAIN turns}
    BY Zenon DEF Reconstruct
  <2>2. store.relationships = edges \cup LinkEdges(list) \cup ActorEdges(list) \cup Reconstruct(list).edges
    BY StoreIs, Zenon
  <2> HIDE DEF store, turns
  <2> QED
    BY <2>1, <2>2
<1>4. DOMAIN store.content = DOMAIN ContentNodes(list)
  <2>1. store.content = Over(ContentNodes(list), <<>>)
    BY StoreIs, Zenon
  <2>2. DOMAIN <<>> = {}
    OBVIOUS
  <2> HIDE DEF store
  <2> QED
    BY <2>1, <2>2 DEF Over
<1>5. /\ \A i \in DOMAIN turns : turns[i] \in Turns(list) /\ turns[i].node[2] \in DOMAIN store.inferred
      /\ \A id \in DOMAIN store.inferred : \E i \in DOMAIN turns :
           /\ turns[i].node[2] = id /\ store.inferred[id].source_host = Get(turns[i].row, "source_host")
           /\ store.inferred[id].object = turns[i].rule.node
  BY InferredAre
<1>6. \A e \in edges : e.class = "declared"
  BY AllDeclared
<1> HIDE DEF edges, store, turns, tree
<1>7. /\ \A k \in 1..n : <<Get(list[k], "source_host"), End(list[k])>> \in RowEnds(tree)
      /\ \A x \in RowEnds(tree) : \E k \in 1..n : x = <<Get(list[k], "source_host"), End(list[k])>>
  BY <1>1, RowEndsAre
<1>8. ASSUME NEW e \in LinkEdges(list), NEW end \in {e.source, e.target}
      PROVE  EndIsThere(tree, e.source_host, end)
  <2>1. PICK j, k \in DOMAIN list :
          /\ e.source = End(list[j]) /\ e.target = End(list[k])
          /\ e.source_host = Get(list[j], "source_host") /\ SameHost(list[k], list[j])
    BY LinkEnds
  <2> QED
    BY <1>2, <1>7, <2>1 DEF EndIsThere, SameHost
<1>9. ASSUME NEW e \in ActorEdges(list), NEW end \in {e.source, e.target}
      PROVE  EndIsThere(tree, e.source_host, end)
  <2>1. PICK k \in DOMAIN list :
          /\ e.source_host = Get(list[k], "source_host")
          /\ e.source[1] = "user_account" /\ e.source[2] \in DOMAIN ContentNodes(list)
          /\ \/ e.target = End(list[k])
             \/ e.target[1] = "user_account" /\ e.target[2] \in DOMAIN ContentNodes(list)
    BY ActorEnds
  <2> QED
    BY <1>1, <1>2, <1>4, <1>7, <2>1 DEF EndIsThere
<1>10. ASSUME NEW i \in DOMAIN turns, NEW end \in {InferredEdge(turns[i]).source, InferredEdge(turns[i]).target}
       PROVE  EndIsThere(tree, InferredEdge(turns[i]).source_host, end)
  <2> DEFINE t == turns[i]
  <2>1. t \in Turns(list) /\ t.node[2] \in DOMAIN store.inferred
    BY <1>5
  <2>2. PICK k \in DOMAIN list, rule \in ToSet(Reconstructs) :
           /\ t.rule = rule /\ t.row = list[k] /\ t.node = <<rule.node, NamedBy(rule, list[k])>>
           /\ Has(list[k], rule.reference) /\ NamedBy(rule, list[k]) # ""
           /\ t.observed = IF rule.observed = <<>> THEN End(list[k])
                           ELSE <<rule.observed.object, Get(list[k], rule.observed.field)>>
           /\ t.observed[2] # ""
    BY <2>1, InferenceIs
  <2>3. InferredEdge(t).source_host = Get(t.row, "source_host") /\ end \in {t.node, t.observed}
    BY InferredEnds
  <2>4. CASE end = t.node
    <3> DEFINE id == t.node[2]
    <3>1. PICK h \in DOMAIN turns : turns[h].node[2] = id /\ store.inferred[id].object = turns[h].rule.node
      BY <1>5, <2>1
    <3>2. PICK j \in DOMAIN list, other \in ToSet(Reconstructs) :
             /\ turns[h].rule = other /\ turns[h].node = <<other.node, NamedBy(other, list[j])>>
             /\ Has(list[j], other.reference)
      <4>1. PICK u \in Turns(list) : u = turns[h]
        BY <1>5
      <4>2. \E j \in DOMAIN list : \E other \in ToSet(Reconstructs) :
              /\ u.rule = other /\ u.node = <<other.node, NamedBy(other, list[j])>> /\ Has(list[j], other.reference)
        BY InferenceIs
      <4> QED
        BY <4>1, <4>2
    <3>3. turns[h].node[2] = NamedBy(other, list[j]) /\ t.node[2] = NamedBy(rule, list[k]) /\ t.node[1] = rule.node
      <4>1. turns[h].node = <<other.node, NamedBy(other, list[j])>>
        BY <3>2
      <4>2. t.node = <<rule.node, NamedBy(rule, list[k])>>
        BY <2>2
      <4> HIDE DEF t, id
      <4>3. turns[h].node[2] = NamedBy(other, list[j])
        BY ONLY <1>0, <4>1, Zenon
      <4>4. t.node[2] = NamedBy(rule, list[k])
        BY ONLY <1>0, <4>2, Zenon
      <4>5. t.node[1] = rule.node
        BY ONLY <1>0, <4>2, Zenon
      <4> QED
        BY <4>3, <4>4, <4>5
    <3>4. other.node = rule.node
      <4>1. NamedBy(other, list[j]) = NamedBy(rule, list[k]) /\ NamedBy(other, list[j]) # ""
        BY <2>2, <3>1, <3>3
      <4> QED
        BY <2>2, <3>2, <4>1, Zenon DEF OneKind
    <3> QED
      BY <1>1, <2>1, <2>4, <3>1, <3>2, <3>3, <3>4 DEF EndIsThere
  <2>5. CASE end = t.observed /\ t.rule.observed = <<>>
    BY <1>2, <1>7, <2>2, <2>3, <2>5 DEF EndIsThere
  <2>6. CASE end = t.observed /\ t.rule.observed # <<>>
    <3>1. rule.observed = [field |-> "owning_guid", object |-> "process"] /\ rule.observed # <<>>
      BY <2>2, <2>6, RulesAssumption
    <3>2. t.observed = <<"process", Get(list[k], "owning_guid")>> /\ Get(list[k], "owning_guid") # ""
      <4>1. rule.observed.object = "process" /\ rule.observed.field = "owning_guid"
        BY <3>1
      <4>2. t.observed = <<"process", Get(list[k], "owning_guid")>>
        BY <2>2, <3>1, <4>1, Zenon
      <4>3. t.observed[2] = Get(list[k], "owning_guid")
        BY <4>2
      <4> QED
        BY <2>2, <4>2, <4>3
    <3>3. PICK c \in DOMAIN list : /\ list[c]["car_object"] = "process" /\ SameHost(list[c], list[k])
                                   /\ Guid(list[c]) = Get(list[k], "owning_guid")
      BY <2>2, <3>1, <3>2 DEF OwnersAreThere
    <3>4. <<Get(list[k], "source_host"), end>> = <<Get(list[c], "source_host"), End(list[c])>>
      BY <2>6, <3>2, <3>3 DEF End, SameHost
    <3> QED
      BY <1>2, <1>7, <2>2, <2>3, <3>4 DEF EndIsThere
  <2> QED
    BY <2>3, <2>4, <2>5, <2>6
<1>11. ASSUME NEW e \in OfClass(tree, "derived"), NEW end \in {e.source, e.target}
       PROVE  EndIsThere(tree, e.source_host, end)
  <2>1. e \in store.relationships /\ e.class = "derived"
    BY <1>1 DEF OfClass
  <2>2. e \in LinkEdges(list) \/ e \in ActorEdges(list) \/ \E i \in DOMAIN turns : e = InferredEdge(turns[i])
    BY <1>3, <1>6, <2>1
  <2> QED
    BY <1>8, <1>9, <1>10, <2>2
<1>12. ASSUME NEW id \in DOMAIN tree.inferred
       PROVE  <<tree.inferred[id].source_host, <<tree.inferred[id].object, id>>>> \notin RowEnds(tree)
  <2>1. PICK i \in DOMAIN turns :
           /\ turns[i].node[2] = id /\ tree.inferred[id].source_host = Get(turns[i].row, "source_host")
           /\ tree.inferred[id].object = turns[i].rule.node
    BY <1>1, <1>5
  <2>2. PICK k \in DOMAIN list, rule \in ToSet(Reconstructs) :
           /\ turns[i].rule = rule /\ turns[i].row = list[k] /\ turns[i].node = <<rule.node, NamedBy(rule, list[k])>>
           /\ NamedBy(rule, list[k]) # ""
           /\ <<Get(list[k], "source_host"), rule.node, NamedBy(rule, list[k])>> \notin Observed(list)
    BY <1>5, InferenceIs
  <2>2a. turns[i].node[2] = NamedBy(rule, list[k])
    <3>1. turns[i].node = <<rule.node, NamedBy(rule, list[k])>>
      BY <2>2
    <3> QED
      BY ONLY <1>0, <3>1, Zenon
  <2>3. id # "" /\ <<tree.inferred[id].source_host, tree.inferred[id].object, id>> \notin Observed(list)
    BY <2>1, <2>2, <2>2a
  <2>4. ASSUME NEW j \in 1..n,
               <<tree.inferred[id].source_host, <<tree.inferred[id].object, id>>>>
                 = <<Get(list[j], "source_host"), End(list[j])>>
        PROVE  FALSE
    <3>1. /\ tree.inferred[id].source_host = Get(list[j], "source_host")
          /\ tree.inferred[id].object = list[j]["car_object"] /\ id = Guid(list[j])
      BY <2>4 DEF End
    <3>2. Has(list[j], "guid")
      BY <2>3, <3>1 DEF Guid, Get, OrElse
    <3> QED
      BY <1>2, <2>3, <3>1, <3>2 DEF Observed
  <2> QED
    BY <1>7, <2>4
<1> QED
  BY <1>11, <1>12 DEF EndsExist, tree, store, edges

\* Each row in hand is of an object.
LEMMA RowsAreOfObjects ==
  ASSUME Working, NEW j \in 1..Len(raw)
  PROVE  /\ "car_object" \in DOMAIN rows[j]
         /\ \E o \in DOMAIN Objects : rows[j]["car_object"] = Objects[o]
<1>1. Complete(raw[j]) /\ OnlySets(raw[j], rows[j], LinkColumns)
  BY DEF Working, Cascading
<1>2. Same(raw[j], rows[j], "car_object")
  BY <1>1, ColumnsAreApart DEF OnlySets, JoinColumns, ReferenceColumns
<1> QED
  BY <1>1, <1>2 DEF Complete, Same

\* What a row in hand refers to, a record refers to.
LEMMA ReferencesStay ==
  ASSUME Working, InPlace, NEW k \in DOMAIN rows, NEW f \in ReferenceColumns, Has(rows[k], f)
  PROVE  \E j \in DOMAIN Parsed(case[at]) : Has(Parsed(case[at])[j], f) /\ Parsed(case[at])[j][f] = rows[k][f]
<1> DEFINE list == Parsed(case[at])
<1>1. PICK n : List(list, n)
  BY ParsedIsComplete DEF Working, InPlace
<1>2. raw = FoldEvents(list, "additive")
  BY DEF Working
<1> HIDE DEF list
<1>3. DOMAIN list = 1..n /\ k \in 1..Len(raw) /\ DOMAIN raw = 1..Len(raw)
  BY <1>1, WorkingHas DEF List
<1>4. OnlySets(raw[k], rows[k], LinkColumns)
  BY <1>3 DEF Working, Cascading
<1>5. f \in JoinColumns /\ f \notin FoldNative
  BY DEF JoinColumns, ReferenceColumns, FoldNative
<1>6. Same(raw[k], rows[k], f)
  BY <1>4, <1>5, JoinsStay
<1>7. Has(raw[k], f) /\ raw[k][f] = rows[k][f]
  BY <1>6 DEF Same, Has
<1>8. \E j \in 1..n : Has(list[j], f) /\ list[j][f] = raw[k][f]
  <2>1. k \in DOMAIN FoldEvents(list, "additive") /\ Has(FoldEvents(list, "additive")[k], f)
    BY <1>2, <1>3, <1>7
  <2>2. \E j \in 1..n : Has(list[j], f) /\ list[j][f] = FoldEvents(list, "additive")[k][f]
    BY <1>1, <1>5, <2>1, FoldedFrom
  <2> QED
    BY <1>2, <2>2
<1> QED
  BY <1>3, <1>7, <1>8 DEF list

LEMMA RowsReferSo ==
  ASSUME Working, InPlace
  PROVE  OneKind(rows) /\ OwnersAreThere(rows)
<1> DEFINE list == Parsed(case[at])
<1>1. case \in Cases /\ at \in DOMAIN case
  BY DEF Working, InPlace
<1>2. OneKind(list) /\ TargetsOrOwners(list)
  BY <1>1, ReferencesAssumption
<1>3. \A k \in DOMAIN rows : \A rule \in ToSet(Reconstructs) : Has(rows[k], rule.reference) =>
        \E j \in DOMAIN list : Has(list[j], rule.reference) /\ NamedBy(rule, list[j]) = NamedBy(rule, rows[k])
  <2> SUFFICES ASSUME NEW k \in DOMAIN rows, NEW rule \in ToSet(Reconstructs), Has(rows[k], rule.reference)
               PROVE  \E j \in DOMAIN list : Has(list[j], rule.reference) /\ NamedBy(rule, list[j]) = NamedBy(rule, rows[k])
    OBVIOUS
  <2>1. rule.reference \in ReferenceColumns
    BY RulesAssumption
  <2>2. PICK j \in DOMAIN list : Has(list[j], rule.reference) /\ list[j][rule.reference] = rows[k][rule.reference]
    BY <2>1, ReferencesStay
  <2>3. NamedBy(rule, list[j]) = NamedBy(rule, rows[k])
    BY <2>2 DEF NamedBy
  <2> QED
    BY <2>2, <2>3
<1> HIDE DEF list
<1>4. OneKind(rows)
  <2> USE DEF OneKind
  <2> TAKE j, k \in DOMAIN rows
  <2> TAKE a, b \in ToSet(Reconstructs)
  <2> HAVE /\ Has(rows[j], a.reference) /\ Has(rows[k], b.reference)
           /\ NamedBy(a, rows[j]) = NamedBy(b, rows[k]) /\ NamedBy(a, rows[j]) # ""
  <2>1. PICK x \in DOMAIN list : Has(list[x], a.reference) /\ NamedBy(a, list[x]) = NamedBy(a, rows[j])
    BY <1>3
  <2>2. PICK y \in DOMAIN list : Has(list[y], b.reference) /\ NamedBy(b, list[y]) = NamedBy(b, rows[k])
    BY <1>3
  <2>3. NamedBy(a, list[x]) = NamedBy(b, list[y]) /\ NamedBy(a, list[x]) # ""
    BY <2>1, <2>2
  <2> QED
    <3>1. OneKind(list) /\ Has(list[x], a.reference) /\ Has(list[y], b.reference)
      BY <1>2, <2>1, <2>2
    <3>2. \A p, q \in ToSet(Reconstructs) :
            /\ Has(list[x], p.reference) /\ Has(list[y], q.reference)
            /\ NamedBy(p, list[x]) = NamedBy(q, list[y]) /\ NamedBy(p, list[x]) # ""
            => p.node = q.node
      BY <3>1 DEF OneKind
    <3> QED
      BY <2>3, <3>1, <3>2
<1>5. OwnersAreThere(rows)
  <2> SUFFICES ASSUME NEW k \in DOMAIN rows, NEW rule \in ToSet(Reconstructs),
                      rule.observed # <<>>, Has(rows[k], rule.reference), Get(rows[k], "owning_guid") # ""
               PROVE  \E c \in DOMAIN rows : /\ rows[c]["car_object"] = "process" /\ SameHost(rows[c], rows[k])
                                             /\ Guid(rows[c]) = Get(rows[k], "owning_guid")
    BY DEF OwnersAreThere
  <2>1. PICK x \in DOMAIN list : Has(list[x], rule.reference)
    BY <1>3
  <2>2. \A y \in DOMAIN list : ~Has(list[y], "owning_guid")
    BY <1>2, <2>1 DEF TargetsOrOwners
  <2>3. /\ Has(rows[k], "owning_guid") /\ rows[k]["owning_guid"] = Get(rows[k], "owning_guid")
        /\ DOMAIN rows = 1..Len(raw) /\ DOMAIN raw = 1..Len(raw)
    BY WorkingHas DEF Get, OrElse
  <2>4. OwnerIsThere(raw, rows[k], k)
    BY <2>3 DEF Working, Cascading
  <2>5. ~Same(raw[k], rows[k], "owning_guid")
    <3>1. PICK n : List(list, n)
      BY ParsedIsComplete DEF Working, InPlace, list
    <3>2. raw = FoldEvents(list, "additive") /\ DOMAIN list = 1..n
      BY <3>1 DEF Working, list, List
    <3>3. "owning_guid" \notin FoldNative
      BY DEF FoldNative
    <3>4. ~Has(raw[k], "owning_guid")
      BY <2>2, <2>3, <3>1, <3>2, <3>3, FoldedFrom
    <3> QED
      BY <2>3, <3>4 DEF Same, Has
  <2>6. PICK c \in DOMAIN raw : /\ IsCreate(raw[c]) /\ SameHost(raw[c], raw[k])
                                /\ Get(raw[c], "guid") = rows[k]["owning_guid"]
    BY <2>3, <2>4, <2>5 DEF OwnerIsThere
  <2>7. \A d \in 1..Len(raw) : /\ OnlySets(raw[d], rows[d], LinkColumns) /\ "car_object" \in DOMAIN raw[d]
    BY DEF Working, Cascading, Complete
  <2>8. \A d \in 1..Len(raw) : \A f \in JoinColumns : Same(raw[d], rows[d], f)
    BY <2>7, JoinsStay
  <2>9. /\ Get(raw[c], "guid") = Get(rows[c], "guid")
        /\ Get(raw[c], "source_host") = Get(rows[c], "source_host")
        /\ Get(raw[k], "source_host") = Get(rows[k], "source_host")
    BY <2>3, <2>8, SameJoins
  <2>10. rows[c]["car_object"] = raw[c]["car_object"]
    <3>1. "car_object" \in JoinColumns
      BY DEF JoinColumns
    <3> QED
      BY <2>3, <2>7, <2>8, <3>1 DEF Same
  <2> QED
    BY <2>3, <2>6, <2>9, <2>10 DEF IsCreate, SameHost, Guid
<1> QED
  BY <1>4, <1>5

\* Before anything is derived, nothing is.
LEMMA EndsBefore ==
  ASSUME NEW list
  PROVE  EndsExist(Tree(Files(list), InsertEdges(EmptyStore, EdgesFromEvents(list))))
<1> DEFINE edges == EdgesFromEvents(list)
           tree == Tree(Files(list), InsertEdges(EmptyStore, edges))
<1>1. \A e \in edges : e.class = "declared"
  BY AllDeclared
<1>2. tree.relationships = edges /\ tree.inferred = <<>>
  <2> HIDE DEF edges
  <2> QED
    BY DEF InsertEdges, EmptyStore, Tree
<1> HIDE DEF edges, tree
<1>3. OfClass(tree, "derived") = {} /\ DOMAIN tree.inferred = {}
  BY <1>1, <1>2 DEF OfClass
<1> QED
  BY <1>3 DEF EndsExist, edges, tree

\* Of the source in hand there is what was exported, and then the derived pass over the same rows.
Deriving ==
  /\ step = "derive" => trees[at] = Tree(Files(rows), InsertEdges(EmptyStore, EdgesFromEvents(rows)))
  /\ step = "stix" => EndsExist(trees[at])

LEMMA DerivingStays == IInv /\ Deriving /\ [Next]_vars => Deriving'
<1> SUFFICES ASSUME IInv, Deriving, [Next]_vars PROVE Deriving'
  OBVIOUS
<1> DEFINE exported == Tree(Files(rows), InsertEdges(EmptyStore, EdgesFromEvents(rows)))
<1>1. CASE Export
  <2>1. /\ step = "enrich" /\ step' = "derive" /\ trees' = [trees EXCEPT ![at] = exported]
        /\ rows' = rows /\ at' = at
    BY <1>1 DEF Export
  <2>2. at \in DOMAIN trees
    BY <2>1 DEF IInv, InPlace, Working
  <2>3. trees'[at'] = exported
    BY <2>1, <2>2
  <2> QED
    BY <2>1, <2>3 DEF Deriving
<1>2. CASE DerivePass
  <2> DEFINE store == DeriveInto(InsertEdges(EmptyStore, EdgesFromEvents(rows)), rows)
  <2>1. /\ step = "derive" /\ step' = "stix" /\ at' = at
        /\ trees' = [trees EXCEPT ![at] = Tree(trees[at].rows, store)]
    BY <1>2 DEF DerivePass
  <2>2. Working /\ InPlace /\ at \in DOMAIN trees
    BY <2>1 DEF IInv, InPlace, Working
  <2>3. trees[at].rows = Files(rows)
    <3>1. trees[at] = exported
      BY <2>1 DEF Deriving
    <3> QED
      BY <3>1, TreeDeclares
  <2>4. trees'[at'] = Tree(Files(rows), store)
    BY <2>1, <2>2, <2>3
  <2>5. \A j \in 1..Len(raw) : /\ "car_object" \in DOMAIN rows[j]
                               /\ \E o \in DOMAIN Objects : rows[j]["car_object"] = Objects[o]
    BY <2>2, RowsAreOfObjects
  <2>6. List(rows, Len(raw)) /\ OneKind(rows) /\ OwnersAreThere(rows)
    BY <2>2, RowsReferSo DEF Working, Cascading
  <2>7. EndsExist(Tree(Files(rows), store))
    BY <2>5, <2>6, EndsOfList
  <2> HIDE DEF store
  <2> QED
    BY <2>1, <2>4, <2>7 DEF Deriving
<1>3. CASE NoDerivePass
  <2>1. step = "derive" /\ step' = "stix" /\ at' = at /\ trees' = trees
    BY <1>3 DEF NoDerivePass
  <2>2. trees[at] = exported
    BY <2>1 DEF Deriving
  <2>3. EndsExist(exported)
    BY EndsBefore
  <2> HIDE DEF exported
  <2>4. EndsExist(trees'[at'])
    BY <2>1, <2>2, <2>3
  <2> QED
    BY <2>1, <2>4 DEF Deriving
<1>4. CASE Fold \/ EnrichNext \/ StixPass \/ NextSource \/ \E s \in DOMAIN case : Rederive(s)
  <2>1. step' \notin {"derive", "stix"}
    <3>1. CASE \E s \in DOMAIN case : Rederive(s)
      BY <3>1 DEF Rederive, IInv
    <3> QED
      BY <1>4, <3>1 DEF Fold, EnrichNext, StixPass, NextSource
  <2> QED
    BY <2>1 DEF Deriving
<1>5. CASE ConvergeCase \/ UNCHANGED vars
  <2>1. trees' = trees /\ step' = step /\ at' = at /\ rows' = rows
    BY <1>5 DEF ConvergeCase, vars
  <2> QED
    BY <2>1 DEF Deriving, EndsExist, EndIsThere, OfClass, RowEnds
<1> QED
  BY <1>1, <1>2, <1>3, <1>4, <1>5 DEF Next

LEMMA EndsHold == Deriving => DerivedEndsExist
<1> SUFFICES ASSUME Deriving, step = "stix"
             PROVE  LET tree == trees[at] IN
                      /\ \A e \in OfClass(tree, "derived") : \A end \in {e.source, e.target} :
                           \/ <<e.source_host, end>> \in RowEnds(tree)
                           \/ end[1] = "user_account" /\ end[2] \in DOMAIN tree.content
                           \/ end[2] \in DOMAIN tree.inferred /\ tree.inferred[end[2]].object = end[1]
                      /\ \A id \in DOMAIN tree.inferred :
                           LET n == tree.inferred[id]
                           IN  <<n.source_host, <<n.object, id>>>> \notin RowEnds(tree)
  BY DEF DerivedEndsExist
<1>1. EndsExist(trees[at])
  BY DEF Deriving
<1> QED
  BY <1>1 DEF EndsExist, EndIsThere

\* Both ends of every derived relationship are there once the pass is over, whatever rows the
\* cascade left and whatever the rules of the three families are: an end that is no row is
\* an account in the content nodes or a node that was inferred for it, and none is inferred
\* that a row of its host is about (derive.py link, actor_edges, reconstruct; superset.py
\* insert_inferred_nodes: the last node with an id stands for all).
THEOREM DerivedEndsAlwaysExist == Spec => []DerivedEndsExist
<1>1. Init => Deriving
  BY DEF Init, Deriving
<1>2. IInv /\ Deriving /\ [Next]_vars => Deriving'
  BY DerivingStays
<1>3. Deriving => DerivedEndsExist
  BY EndsHold
<1> QED
  BY <1>1, <1>2, <1>3, Invariant, PTL DEF Spec

=============================================================================
