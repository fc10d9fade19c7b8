-------------------------- MODULE VocabularyProofs --------------------------
(***************************************************************************)
(* Proofs about Vocabulary: the document stays valid, nothing on record is *)
(* lost, decisions stand, active associations are supported, and an update *)
(* replaces exactly the document it was prepared from.  Every operation on *)
(* the document is shown to keep it good and to only add to it (Grows); a  *)
(* run's proposal therefore grows out of the document it loaded, which is  *)
(* the one it replaces.                                                    *)
(***************************************************************************)
EXTENDS Vocabulary, TLAPS

Dates == 0 .. LastDay

(* What the operations keep of one source and of the whole document.       *)
GoodSource(s) == s \in Source /\ ValidSource(s)

SupportedDoc(d) ==
  \A t \in Terms, u \in Urls :
    d.assoc[t][u] = "active" =>
      LET s == d.src[u] IN
      /\ s.status = "active" /\ s.successful # Never
      /\ t \in s.seen /\ s.decided[t] = "accepted"

Good(d) == d \in Document /\ ValidDocument(d) /\ SupportedDoc(d)

(* s2 and e keep all that s and d have on record.                          *)
GrowsSource(s, s2) ==
  /\ s.status # "unknown" => s2.status # "unknown"
  /\ \A t \in Terms : s.decided[t] # "none" => s2.decided[t] = s.decided[t]

Grows(d, e) ==
  /\ \A u \in Urls : GrowsSource(d.src[u], e.src[u])
  /\ \A t \in Terms :
       /\ d.contexts[t] \subseteq e.contexts[t]
       /\ \A u \in Urls : d.assoc[t][u] # "none" => e.assoc[t][u] # "none"

(* The dates a run can have, and those it can plan a refresh for.          *)
LEMMA Bounds ==
  /\ RefreshDays \in Nat \ {0} /\ RetryDays \in Nat \ {0} /\ LastDay \in Nat
  /\ Never = 0 - 1
  /\ Dates \subseteq Days
  /\ \A d \in Dates : d + RefreshDays \in Days /\ d + RetryDays \in Days
  /\ Urls \subseteq Nat /\ Contexts \subseteq Nat
  <1>1. /\ RefreshDays \in Nat \ {0} /\ RetryDays \in Nat \ {0}
        /\ LastDay \in Nat /\ Urls \subseteq Nat /\ Contexts \subseteq Nat
    BY VocabularyAssumption
  <1> QED
    BY <1>1 DEF Never, Dates, Days

(* A failed crawl keeps a source good.                                     *)
LEMMA FailedIsGood ==
  ASSUME NEW s, GoodSource(s), NEW day \in Dates,
         s.status = "active", s.attempted <= day
  PROVE  /\ GoodSource(Failed(s, day)) /\ GrowsSource(s, Failed(s, day))
         /\ Failed(s, day).status = "active"
         /\ Failed(s, day).attempted = day
         /\ Failed(s, day).seen = s.seen
         /\ Failed(s, day).decided = s.decided
         /\ Failed(s, day).successful = s.successful
  <1> DEFINE g == [kind |-> "access", attempted |-> day,
                   retry |-> day + RetryDays]
             f == Failed(s, day)
  <1>1. s \in Source /\ ValidSource(s)
    BY DEF GoodSource
  <1>2. day \in Days /\ day + RetryDays \in Days /\ day \in Int
        /\ day <= day + RetryDays
    BY Bounds DEF Days, Dates
  <1>3. g \in Gap
    BY <1>2 DEF Gap
  <1> HIDE DEF g
  <1>4. /\ f.status = s.status /\ f.attempted = day
        /\ f.successful = s.successful /\ f.refresh = day + RetryDays
        /\ f.gap = g /\ f.decided = s.decided /\ f.seen = s.seen
    BY <1>1 DEF Failed, Source, g
  <1>5. f \in Source
    BY <1>1, <1>2, <1>3 DEF Failed, Source, g
  <1> HIDE DEF f
  <1>6. g.attempted = day
    BY DEF g
  <1>7. s.successful <= day
    <2>1. s.successful \in Int /\ s.attempted \in Int
      BY <1>1, Bounds DEF Source, Days
    <2> QED
      BY <1>1, <1>2, <2>1 DEF ValidSource
  <1>8. ValidSource(f)
    BY <1>1, <1>2, <1>4, <1>6, <1>7 DEF ValidSource
  <1>9. GrowsSource(s, f)
    BY <1>4 DEF GrowsSource
  <1>10. /\ f.status = "active" /\ f.attempted = day /\ f.seen = s.seen
         /\ f.decided = s.decided /\ f.successful = s.successful
    BY <1>4
  <1>11. GoodSource(f)
    BY <1>5, <1>8 DEF GoodSource
  <1> QED
    BY <1>9, <1>10, <1>11 DEF f

(* So does a refresh.                                                      *)
LEMMA RefreshedIsGood ==
  ASSUME NEW s, GoodSource(s), NEW day \in Dates, NEW page \in Pages,
         s.status = "active"
  PROVE  /\ GoodSource(Refreshed(s, page, day))
         /\ GrowsSource(s, Refreshed(s, page, day))
         /\ Refreshed(s, page, day).status = "active"
         /\ Refreshed(s, page, day).attempted = day
         /\ Refreshed(s, page, day).successful = day
         /\ Refreshed(s, page, day).seen = s.seen
         /\ Refreshed(s, page, day).decided = s.decided
  <1> DEFINE f == Refreshed(s, page, day)
  <1>1. s \in Source /\ ValidSource(s)
    BY DEF GoodSource
  <1>2. day \in Days /\ day + RefreshDays \in Days /\ day \in Int
        /\ day <= day + RefreshDays
    BY Bounds DEF Days, Dates
  <1>3. NoGap \in Gap
    BY DEF Gap, NoGap
  <1>4. /\ f.status = s.status /\ f.attempted = day /\ f.successful = day
        /\ f.refresh = day + RefreshDays /\ f.gap = NoGap
        /\ f.decided = s.decided /\ f.seen = s.seen
    BY <1>1 DEF Refreshed, Source
  <1>5. f \in Source
    BY <1>1, <1>2, <1>3 DEF Refreshed, Source
  <1> HIDE DEF f
  <1>6. ValidSource(f)
    BY <1>1, <1>2, <1>4 DEF ValidSource
  <1>7. GrowsSource(s, f)
    BY <1>4 DEF GrowsSource
  <1>8. /\ f.status = "active" /\ f.attempted = day /\ f.seen = s.seen
        /\ f.decided = s.decided /\ f.successful = day
    BY <1>4
  <1>9. GoodSource(f)
    BY <1>5, <1>6 DEF GoodSource
  <1> QED
    BY <1>7, <1>8, <1>9 DEF f

(* And the reconciliation of a changed page: prior decisions stand, and    *)
(* exactly the decided candidates of the page are active.                  *)
LEMMA ReclassifiedIsGood ==
  ASSUME NEW s, GoodSource(s), NEW day \in Dates, NEW page \in Pages,
         NEW ctxs \in SUBSET Contexts, NEW r \in Rulings(s, page, ctxs),
         s.status = "active"
  PROVE  LET f == Reclassified(s, page, ctxs, r, day) IN
         /\ GoodSource(f) /\ GrowsSource(s, f)
         /\ f.status = "active" /\ f.attempted = day /\ f.successful = day
         /\ f.decided = DecisionsAfter(s, r)
         /\ f.seen = {t \in Found(page, ctxs) :
                        DecisionsAfter(s, r)[t] # "none"}
  <1> DEFINE base == Refreshed(s, page, day)
             after == DecisionsAfter(s, r)
             seen == {t \in Found(page, ctxs) : after[t] # "none"}
             g == IF LeftUndecided(s, page, ctxs, r)
                  THEN [kind |-> "classifier", attempted |-> day,
                        retry |-> Never]
                  ELSE NoGap
             f == Reclassified(s, page, ctxs, r, day)
             new == {t \in Found(page, ctxs) : s.decided[t] = "none"}
  <1>1. /\ GoodSource(base) /\ base.status = "active"
        /\ base.attempted = day /\ base.successful = day
        /\ base.decided = s.decided
    BY RefreshedIsGood
  <1>2. base \in Source /\ ValidSource(base) /\ s \in Source
    BY <1>1 DEF GoodSource
  <1>3. /\ r \in [new -> {Undecided} \cup
                          [at : ctxs, says : {"accepted", "rejected"}]]
        /\ DOMAIN r = new
    BY DEF Rulings
  <1>4. \A t \in DOMAIN r : r[t].says \in {"none", "accepted", "rejected"}
    BY <1>3 DEF Undecided
  <1>5. after \in [Terms -> {"none", "accepted", "rejected"}]
    BY <1>2, <1>4 DEF DecisionsAfter, Source
  <1>6. seen \subseteq Terms /\ \A t \in seen : after[t] # "none"
    <2>1. page \in [Contexts -> SUBSET Terms]
      BY VocabularyAssumption
    <2> QED
      BY <2>1 DEF Found
  <1>7. g \in Gap /\ (g # NoGap => g.attempted = day)
    <2>1. day \in Days
      BY Bounds
    <2> QED
      BY <2>1 DEF Gap, NoGap
  <1>15. f = [base EXCEPT !.decided = after, !.seen = seen, !.gap = g]
    BY DEF Reclassified
  <1> HIDE DEF f, g, seen, after, base
  <1>8. /\ f.status = base.status /\ f.attempted = base.attempted
        /\ f.successful = base.successful /\ f.refresh = base.refresh
        /\ f.gap = g /\ f.decided = after /\ f.seen = seen
    BY <1>2, <1>15 DEF Source
  <1>9. f \in Source
    BY <1>2, <1>5, <1>6, <1>7, <1>15 DEF Source
  <1>10. ValidSource(f)
    BY <1>1, <1>2, <1>6, <1>7, <1>8 DEF ValidSource
  <1>11. \A t \in Terms : s.decided[t] # "none" => after[t] = s.decided[t]
    BY <1>2 DEF after, DecisionsAfter
  <1>12. GrowsSource(s, f)
    BY <1>1, <1>8, <1>11 DEF GrowsSource
  <1>13. /\ f.status = "active" /\ f.attempted = day /\ f.successful = day
         /\ f.decided = after /\ f.seen = seen
    BY <1>1, <1>8
  <1>14. GoodSource(f)
    BY <1>9, <1>10 DEF GoodSource
  <1> QED
    BY <1>12, <1>13, <1>14 DEF f, after, seen

-----------------------------------------------------------------------------
(* Growing is a preorder on documents.                                     *)
LEMMA GrowsIsTransitive ==
  ASSUME NEW d, NEW e, NEW f, Grows(d, e), Grows(e, f)
  PROVE  Grows(d, f)
  <1>1. ASSUME NEW u \in Urls PROVE GrowsSource(d.src[u], f.src[u])
    BY DEF Grows, GrowsSource
  <1>2. ASSUME NEW t \in Terms
        PROVE  /\ d.contexts[t] \subseteq f.contexts[t]
               /\ \A u \in Urls : d.assoc[t][u] # "none" =>
                                  f.assoc[t][u] # "none"
    BY DEF Grows
  <1> QED
    BY <1>1, <1>2 DEF Grows

(* An operation that gives one source a good state, leaves the others      *)
(* alone and supports what it makes active keeps the document good.        *)
OneSourceChanged(d, u, s, day, e) ==
  /\ GoodSource(s) /\ GrowsSource(d.src[u], s)
  /\ s.status = "active" /\ s.attempted = day
  /\ e \in Document /\ e.updated = day
  /\ e.src = [d.src EXCEPT ![u] = s]
  /\ \A t \in Terms :
       /\ d.contexts[t] \subseteq e.contexts[t]
       /\ \A v \in Urls \ {u} : e.assoc[t][v] = d.assoc[t][v]
       /\ d.assoc[t][u] # "none" => e.assoc[t][u] # "none"
       /\ e.assoc[t][u] # "none" => e.contexts[t] # {}
       /\ e.assoc[t][u] = "active" =>
            s.successful # Never /\ t \in s.seen /\ s.decided[t] = "accepted"

LEMMA OneSource ==
  ASSUME NEW d, Good(d), NEW u \in Urls, NEW day \in Dates,
         d.updated <= day,
         NEW s, NEW e, OneSourceChanged(d, u, s, day, e)
  PROVE  Good(e) /\ Grows(d, e)
  <1> USE DEF OneSourceChanged
  <1>1. /\ d \in Document /\ ValidDocument(d) /\ SupportedDoc(d)
        /\ d.src \in [Urls -> Source]
    BY DEF Good, Document
  <1>2. /\ e.src[u] = s
        /\ \A v \in Urls \ {u} : e.src[v] = d.src[v]
    BY <1>1
  <1>3. ASSUME NEW v \in Urls
        PROVE  ValidSource(e.src[v]) /\ e.src[v].attempted <= e.updated
    <2>1. CASE v = u
      BY <1>2, <2>1, Bounds DEF GoodSource, Dates
    <2>2. CASE v # u
      <3>1. ValidSource(d.src[v]) /\ d.src[v].attempted <= d.updated
        BY <1>1 DEF ValidDocument
      <3>2. /\ d.src[v].attempted \in Int /\ d.updated \in Int
            /\ day \in Int
        BY <1>1, Bounds DEF Document, Source, Days, Dates
      <3> QED
        BY <1>2, <2>2, <3>1, <3>2
    <2> QED
      BY <2>1, <2>2
  <1>4. ASSUME NEW t \in Terms, NEW v \in Urls
        PROVE  /\ e.assoc[t][v] # "none" => /\ e.src[v].status # "unknown"
                                           /\ e.contexts[t] # {}
               /\ e.assoc[t][v] = "active" => e.src[v].status = "active"
    <2>1. CASE v = u
      BY <1>2, <2>1
    <2>2. CASE v # u
      BY <1>1, <1>2, <2>2 DEF ValidDocument
    <2> QED
      BY <2>1, <2>2
  <1>5. ValidDocument(e)
    BY <1>3, <1>4 DEF ValidDocument
  <1>6. SupportedDoc(e)
    <2> SUFFICES ASSUME NEW t \in Terms, NEW v \in Urls,
                        e.assoc[t][v] = "active"
                 PROVE  /\ e.src[v].status = "active"
                        /\ e.src[v].successful # Never
                        /\ t \in e.src[v].seen
                        /\ e.src[v].decided[t] = "accepted"
      BY DEF SupportedDoc
    <2>1. CASE v = u
      BY <1>2, <2>1
    <2>2. CASE v # u
      BY <1>1, <1>2, <2>2 DEF SupportedDoc
    <2> QED
      BY <2>1, <2>2
  <1>7. Grows(d, e)
    <2>1. ASSUME NEW v \in Urls PROVE GrowsSource(d.src[v], e.src[v])
      <3>1. CASE v = u
        BY <1>2, <3>1
      <3>2. CASE v # u
        BY <1>2, <3>2 DEF GrowsSource
      <3> QED
        BY <3>1, <3>2
    <2>2. ASSUME NEW t \in Terms, NEW v \in Urls, d.assoc[t][v] # "none"
          PROVE  e.assoc[t][v] # "none"
      BY <2>2
    <2> QED
      BY <2>1, <2>2 DEF Grows
  <1> QED
    BY <1>5, <1>6, <1>7 DEF Good

(* The fields of a document with another state of one source.              *)
LEMMA WithSourceFields ==
  ASSUME NEW d \in Document, NEW u \in Urls, NEW s \in Source,
         NEW day \in Dates, d.updated <= day
  PROVE  LET e == WithSource(d, u, s, day) IN
         /\ e \in Document
         /\ e.revision = d.revision /\ e.updated = day
         /\ e.src = [d.src EXCEPT ![u] = s]
         /\ e.assoc = d.assoc /\ e.contexts = d.contexts
  <1> DEFINE src == [d.src EXCEPT ![u] = s]
             e == WithSource(d, u, s, day)
  <1>1. src \in [Urls -> Source]
    BY DEF Document
  <1>2. d.updated \in Int /\ day \in Int /\ day \in Days
    BY Bounds DEF Document, Days, Dates
  <1>3. MaxDay(d.updated, day) = day
    BY <1>2 DEF MaxDay
  <1>4. e = [d EXCEPT !.updated = day, !.src = src]
    BY <1>3 DEF WithSource, Document
  <1> HIDE DEF src, e
  <1>5. /\ e.revision = d.revision /\ e.updated = day /\ e.src = src
        /\ e.assoc = d.assoc /\ e.contexts = d.contexts
    BY <1>4 DEF Document
  <1>6. e \in Document
    BY <1>1, <1>2, <1>4 DEF Document
  <1> QED
    BY <1>5, <1>6 DEF e, src

-----------------------------------------------------------------------------
(* mark_source_access_gap and _update_source_success.                      *)
LEMMA MarkAccessGapIsGood ==
  ASSUME NEW d, Good(d), NEW u \in Urls, NEW day \in Dates,
         d.updated <= day, d.src[u].status = "active"
  PROVE  LET e == MarkAccessGap(d, u, day) IN
         /\ Good(e) /\ Grows(d, e)
         /\ e.revision = d.revision /\ e.updated = day
         /\ \A v \in Urls : d.src[v].status = "active" =>
                            e.src[v].status = "active"
  <1> DEFINE s == Failed(d.src[u], day)
             e == MarkAccessGap(d, u, day)
  <1>1. d \in Document /\ ValidDocument(d) /\ SupportedDoc(d)
        /\ GoodSource(d.src[u])
    BY DEF Good, Document, ValidDocument, GoodSource
  <1>2. d.src[u].attempted <= day
    <2>1. d.src[u].attempted \in Int /\ d.updated \in Int /\ day \in Int
      BY <1>1, Bounds DEF Document, Source, Days, Dates
    <2> QED
      BY <1>1, <2>1 DEF ValidDocument
  <1>3. /\ GoodSource(s) /\ GrowsSource(d.src[u], s)
        /\ s.status = "active" /\ s.attempted = day
        /\ s.seen = d.src[u].seen /\ s.decided = d.src[u].decided
        /\ s.successful = d.src[u].successful
    BY <1>1, <1>2, FailedIsGood
  <1>4. s \in Source
    BY <1>3 DEF GoodSource
  <1>5. /\ e \in Document /\ e.revision = d.revision /\ e.updated = day
        /\ e.src = [d.src EXCEPT ![u] = s]
        /\ e.assoc = d.assoc /\ e.contexts = d.contexts
    BY <1>1, <1>4, WithSourceFields DEF MarkAccessGap
  <1> HIDE DEF s, e
  <1>6. \A t \in Terms : d.assoc[t][u] # "none" => d.contexts[t] # {}
    BY <1>1 DEF ValidDocument
  <1>7. \A t \in Terms : d.assoc[t][u] = "active" =>
          s.successful # Never /\ t \in s.seen /\ s.decided[t] = "accepted"
    BY <1>1, <1>3 DEF SupportedDoc
  <1>8. OneSourceChanged(d, u, s, day, e)
    BY <1>3, <1>5, <1>6, <1>7 DEF OneSourceChanged
  <1>11. Good(e) /\ Grows(d, e)
    BY <1>8, OneSource
  <1>9. \A v \in Urls : d.src[v].status = "active" =>
                        e.src[v].status = "active"
    BY <1>1, <1>3, <1>5 DEF Document
  <1>10. e.revision = d.revision /\ e.updated = day
    BY <1>5
  <1> QED
    BY <1>9, <1>10, <1>11 DEF e

(* _update_source_success.                                                 *)
LEMMA UpdateSourceSuccessIsGood ==
  ASSUME NEW d, Good(d), NEW u \in Urls, NEW day \in Dates,
         NEW page \in Pages,
         d.updated <= day, d.src[u].status = "active"
  PROVE  LET e == UpdateSourceSuccess(d, u, page, day) IN
         /\ Good(e) /\ Grows(d, e)
         /\ e.revision = d.revision /\ e.updated = day
         /\ \A v \in Urls : d.src[v].status = "active" =>
                            e.src[v].status = "active"
  <1> DEFINE s == Refreshed(d.src[u], page, day)
             e == UpdateSourceSuccess(d, u, page, day)
  <1>1. d \in Document /\ ValidDocument(d) /\ SupportedDoc(d)
        /\ GoodSource(d.src[u])
    BY DEF Good, Document, ValidDocument, GoodSource
  <1>2. /\ GoodSource(s) /\ GrowsSource(d.src[u], s)
        /\ s.status = "active" /\ s.attempted = day
        /\ s.seen = d.src[u].seen /\ s.decided = d.src[u].decided
        /\ s.successful = day
    BY <1>1, RefreshedIsGood
  <1>3. s \in Source
    BY <1>2 DEF GoodSource
  <1>4. /\ e \in Document /\ e.revision = d.revision /\ e.updated = day
        /\ e.src = [d.src EXCEPT ![u] = s]
        /\ e.assoc = d.assoc /\ e.contexts = d.contexts
    BY <1>1, <1>3, WithSourceFields DEF UpdateSourceSuccess
  <1> HIDE DEF s, e
  <1>5. \A t \in Terms : d.assoc[t][u] # "none" => d.contexts[t] # {}
    BY <1>1 DEF ValidDocument
  <1>6. s.successful # Never
    BY <1>2, Bounds DEF Dates
  <1>7. \A t \in Terms : d.assoc[t][u] = "active" =>
          s.successful # Never /\ t \in s.seen /\ s.decided[t] = "accepted"
    BY <1>1, <1>2, <1>6 DEF SupportedDoc
  <1>8. OneSourceChanged(d, u, s, day, e)
    BY <1>2, <1>4, <1>5, <1>7 DEF OneSourceChanged
  <1>11. Good(e) /\ Grows(d, e)
    BY <1>8, OneSource
  <1>9. \A v \in Urls : d.src[v].status = "active" =>
                        e.src[v].status = "active"
    BY <1>1, <1>2, <1>4 DEF Document
  <1>10. e.revision = d.revision /\ e.updated = day
    BY <1>4
  <1> QED
    BY <1>9, <1>10, <1>11 DEF e

(* What the merge of one term with one source yields.                      *)
MergedWell(s, page, ctxs, r, prior, ofTerm, t) ==
  LET a == MergedAssoc(s, page, ctxs, r, prior, ofTerm, t)
      k == MergedContexts(s, page, ctxs, r, prior, ofTerm, t)
  IN /\ a \in {"none", "active", "inactive"}
     /\ prior # "none" => a # "none"
     /\ ofTerm \subseteq k /\ k \subseteq Contexts
     /\ a # "none" => k # {}
     /\ a = "active" => \E c \in ctxs : Supported(s, page, r, t, c)

LEMMA MergedTerm ==
  ASSUME NEW s, NEW page, NEW ctxs \in SUBSET Contexts, NEW r,
         NEW prior \in {"none", "active", "inactive"},
         NEW ofTerm \in SUBSET Contexts, NEW t,
         prior # "none" => ofTerm # {}
  PROVE  MergedWell(s, page, ctxs, r, prior, ofTerm, t)
  <1> DEFINE at(k) == InContext(s, page, r, prior, ofTerm, t, k)
             a == MergedAssoc(s, page, ctxs, r, prior, ofTerm, t)
             kk == MergedContexts(s, page, ctxs, r, prior, ofTerm, t)
  <1>1. ASSUME NEW k PROVE at(k) = "active" => Supported(s, page, r, t, k)
    BY DEF InContext
  <1>2. /\ a \in {"none", "active", "inactive"}
        /\ prior # "none" => a # "none"
        /\ a = "active" => \E k \in ctxs : at(k) = "active"
        /\ a = "inactive" => prior # "none"
    BY DEF MergedAssoc
  <1>3. kk = ofTerm \cup {k \in ctxs : at(k) # "none"}
    BY DEF MergedContexts
  <1> HIDE DEF at, a, kk
  <1>4. a # "none" => kk # {}
    BY <1>2, <1>3
  <1> QED
    BY <1>1, <1>2, <1>3, <1>4 DEF MergedWell, a, kk

(* A candidate that a context supports ends up with an accepted decision   *)
(* that is active.                                                         *)
LEMMA SupportedIsAccepted ==
  ASSUME NEW s \in Source, NEW page \in Pages, NEW ctxs \in SUBSET Contexts,
         NEW r \in Rulings(s, page, ctxs), NEW t \in Terms, NEW k \in ctxs,
         Supported(s, page, r, t, k)
  PROVE  /\ DecisionsAfter(s, r)[t] = "accepted"
         /\ t \in Found(page, ctxs)
  <1> DEFINE new == {x \in Found(page, ctxs) : s.decided[x] = "none"}
  <1>1. DOMAIN r = new
    BY DEF Rulings
  <1>2. t \in page[k] /\ DecidedAt(s, r, t, k) = "accepted"
    BY DEF Supported
  <1>3. t \in Found(page, ctxs)
    BY <1>2 DEF Found
  <1>4. CASE t \in DOMAIN r
    <2>1. r[t].says = "accepted" /\ s.decided[t] = "none"
      BY <1>1, <1>2, <1>4 DEF DecidedAt
    <2> QED
      BY <1>3, <1>4, <2>1 DEF DecisionsAfter
  <1>5. CASE t \notin DOMAIN r
    BY <1>2, <1>3, <1>5 DEF DecidedAt, DecisionsAfter
  <1> QED
    BY <1>4, <1>5

(* _reconcile_source_contexts and _merge_reconciliation.                   *)
LEMMA MergeReconciliationIsGood ==
  ASSUME NEW d, Good(d), NEW u \in Urls, NEW day \in Dates,
         NEW page \in Pages, NEW ctxs \in SUBSET Contexts,
         NEW r \in Rulings(d.src[u], page, ctxs),
         d.updated <= day, d.src[u].status = "active"
  PROVE  LET e == MergeReconciliation(d, u, page, ctxs, r, day) IN
         /\ Good(e) /\ Grows(d, e)
         /\ e.revision = d.revision /\ e.updated = day
         /\ \A v \in Urls : d.src[v].status = "active" =>
                            e.src[v].status = "active"
  <1> DEFINE s0 == d.src[u]
             s == Reclassified(s0, page, ctxs, r, day)
             w == WithSource(d, u, s, day)
             one(t) == MergedAssoc(s0, page, ctxs, r, d.assoc[t][u],
                                   d.contexts[t], t)
             assoc == [t \in Terms |-> [d.assoc[t] EXCEPT ![u] = one(t)]]
             contexts == [t \in Terms |->
                            MergedContexts(s0, page, ctxs, r, d.assoc[t][u],
                                           d.contexts[t], t)]
             e == MergeReconciliation(d, u, page, ctxs, r, day)
  <1>1. /\ d \in Document /\ ValidDocument(d) /\ SupportedDoc(d)
        /\ GoodSource(s0) /\ s0 \in Source
    BY DEF Good, Document, ValidDocument, GoodSource
  <1>2. /\ GoodSource(s) /\ GrowsSource(s0, s)
        /\ s.status = "active" /\ s.attempted = day /\ s.successful = day
        /\ s.decided = DecisionsAfter(s0, r)
        /\ s.seen = {t \in Found(page, ctxs) :
                       DecisionsAfter(s0, r)[t] # "none"}
    BY <1>1, ReclassifiedIsGood
  <1>3. s \in Source /\ r \in Rulings(s0, page, ctxs)
    BY <1>2 DEF GoodSource
  <1> HIDE DEF s
  <1>4. /\ w \in Document /\ w.revision = d.revision /\ w.updated = day
        /\ w.src = [d.src EXCEPT ![u] = s]
        /\ w.assoc = d.assoc /\ w.contexts = d.contexts
    BY <1>1, <1>3, WithSourceFields
  <1> HIDE DEF w
  <1>6. \A t \in Terms :
          /\ one(t) \in {"none", "active", "inactive"}
          /\ d.assoc[t][u] # "none" => one(t) # "none"
          /\ d.contexts[t] \subseteq contexts[t]
          /\ contexts[t] \subseteq Contexts
          /\ one(t) # "none" => contexts[t] # {}
          /\ one(t) = "active" =>
               \E k \in ctxs : Supported(s0, page, r, t, k)
    <2> SUFFICES ASSUME NEW t \in Terms
                 PROVE  /\ one(t) \in {"none", "active", "inactive"}
                        /\ d.assoc[t][u] # "none" => one(t) # "none"
                        /\ d.contexts[t] \subseteq contexts[t]
                        /\ contexts[t] \subseteq Contexts
                        /\ one(t) # "none" => contexts[t] # {}
                        /\ one(t) = "active" =>
                             \E k \in ctxs : Supported(s0, page, r, t, k)
      OBVIOUS
    <2>1. /\ d.assoc[t][u] \in {"none", "active", "inactive"}
          /\ d.contexts[t] \in SUBSET Contexts
      BY <1>1 DEF Document
    <2>2. d.assoc[t][u] # "none" => d.contexts[t] # {}
      BY <1>1 DEF ValidDocument
    <2> DEFINE o == MergedAssoc(s0, page, ctxs, r, d.assoc[t][u],
                                d.contexts[t], t)
               k == MergedContexts(s0, page, ctxs, r, d.assoc[t][u],
                                   d.contexts[t], t)
    <2>3. contexts[t] = k
      OBVIOUS
    <2> HIDE DEF s0, contexts
    <2>4. MergedWell(s0, page, ctxs, r, d.assoc[t][u], d.contexts[t], t)
      BY <2>1, <2>2, MergedTerm
    <2> QED
      BY <2>3, <2>4 DEF MergedWell
  <1>7. /\ assoc \in [Terms -> [Urls -> {"none", "active", "inactive"}]]
        /\ contexts \in [Terms -> SUBSET Contexts]
    BY <1>1, <1>6 DEF Document
  <1>8. \A t \in Terms : /\ assoc[t][u] = one(t)
                         /\ \A v \in Urls \ {u} :
                              assoc[t][v] = d.assoc[t][v]
    BY <1>1 DEF Document
  <1>9. e = [w EXCEPT !.assoc = assoc, !.contexts = contexts]
    BY DEF MergeReconciliation, s, w
  <1> HIDE DEF e, s0, assoc, contexts, one
  <1>10. /\ e.revision = d.revision /\ e.updated = day
         /\ e.src = [d.src EXCEPT ![u] = s]
         /\ e.assoc = assoc /\ e.contexts = contexts
    BY <1>4, <1>9 DEF Document
  <1>11. e \in Document
    BY <1>4, <1>7, <1>9 DEF Document
  <1>12. ASSUME NEW t \in Terms, one(t) = "active"
         PROVE  t \in s.seen /\ s.decided[t] = "accepted"
    <2>1. PICK k \in ctxs : Supported(s0, page, r, t, k)
      BY <1>6, <1>12
    <2>2. DecisionsAfter(s0, r)[t] = "accepted" /\ t \in Found(page, ctxs)
      <3> HIDE DEF s0
      <3> QED
        BY <1>1, <1>3, <1>12, <2>1, SupportedIsAccepted
    <2> QED
      BY <1>2, <2>2
  <1>13. s.successful # Never
    BY <1>2, Bounds DEF Dates
  <1>14. OneSourceChanged(d, u, s, day, e)
    <2>1. ASSUME NEW t \in Terms
          PROVE  /\ d.contexts[t] \subseteq e.contexts[t]
                 /\ \A v \in Urls \ {u} : e.assoc[t][v] = d.assoc[t][v]
                 /\ d.assoc[t][u] # "none" => e.assoc[t][u] # "none"
                 /\ e.assoc[t][u] # "none" => e.contexts[t] # {}
                 /\ e.assoc[t][u] = "active" =>
                      /\ s.successful # Never
                      /\ t \in s.seen /\ s.decided[t] = "accepted"
      BY <1>6, <1>8, <1>10, <1>12, <1>13
    <2> QED
      BY <1>2, <1>10, <1>11, <2>1 DEF s0, OneSourceChanged
  <1>15. Good(e) /\ Grows(d, e)
    BY <1>14, OneSource
  <1>16. \A v \in Urls : d.src[v].status = "active" =>
                         e.src[v].status = "active"
    BY <1>1, <1>2, <1>10 DEF Document
  <1> QED
    BY <1>10, <1>15, <1>16 DEF e

(* A source that the inventory lists, drops or lists again.                *)
SourceKept(s, f) ==
  /\ f.status = "active" /\ f.successful = s.successful
  /\ f.seen = s.seen /\ f.decided = s.decided

LEMMA ReconciledIsGood ==
  ASSUME NEW s, GoodSource(s), NEW listed \in BOOLEAN, NEW day \in Dates,
         s.attempted <= day
  PROVE  LET f == Reconciled(s, listed, day) IN
         /\ GoodSource(f) /\ GrowsSource(s, f)
         /\ f.attempted = s.attempted
         /\ s.status = "active" /\ listed => SourceKept(s, f)
  <1> DEFINE f == Reconciled(s, listed, day)
  <1>1. s \in Source /\ ValidSource(s)
    BY DEF GoodSource
  <1>2. day \in Days /\ day \in Int
    BY Bounds DEF Dates
  <1>3. CASE listed /\ s.status = "unknown"
    <2>1. f = [s EXCEPT !.status = "active", !.refresh = day]
      BY <1>3 DEF Reconciled
    <2> HIDE DEF f
    <2>2. /\ f.status = "active" /\ f.refresh = day
          /\ f.attempted = s.attempted /\ f.successful = s.successful
          /\ f.gap = s.gap /\ f.decided = s.decided /\ f.seen = s.seen
      BY <1>1, <2>1 DEF Source
    <2>3. f \in Source
      BY <1>1, <1>2, <2>1 DEF Source
    <2>4. ValidSource(f)
      BY <1>1, <1>2, <2>2 DEF ValidSource
    <2>5. GrowsSource(s, f)
      BY <2>2 DEF GrowsSource
    <2> QED
      BY <1>3, <2>2, <2>3, <2>4, <2>5 DEF f, GoodSource, SourceKept
  <1>4. CASE listed /\ s.status # "unknown"
    <2>1. f = [s EXCEPT !.status = "active"]
      BY <1>4 DEF Reconciled
    <2> HIDE DEF f
    <2>2. /\ f.status = "active" /\ f.refresh = s.refresh
          /\ f.attempted = s.attempted /\ f.successful = s.successful
          /\ f.gap = s.gap /\ f.decided = s.decided /\ f.seen = s.seen
      BY <1>1, <2>1 DEF Source
    <2>3. f \in Source
      BY <1>1, <2>1 DEF Source
    <2>4. ValidSource(f)
      BY <1>1, <2>2 DEF ValidSource
    <2>5. GrowsSource(s, f)
      BY <2>2 DEF GrowsSource
    <2> QED
      BY <2>2, <2>3, <2>4, <2>5 DEF f, GoodSource, SourceKept
  <1>5. CASE ~listed /\ s.status # "unknown"
    <2>1. f = [s EXCEPT !.status = "orphaned", !.seen = {}]
      BY <1>5 DEF Reconciled
    <2> HIDE DEF f
    <2>2. /\ f.status = "orphaned" /\ f.refresh = s.refresh
          /\ f.attempted = s.attempted /\ f.successful = s.successful
          /\ f.gap = s.gap /\ f.decided = s.decided /\ f.seen = {}
      BY <1>1, <2>1 DEF Source
    <2>3. f \in Source
      BY <1>1, <2>1 DEF Source
    <2>4. ValidSource(f)
      BY <1>1, <2>2 DEF ValidSource
    <2>5. GrowsSource(s, f)
      BY <2>2 DEF GrowsSource
    <2> QED
      BY <1>5, <2>2, <2>3, <2>4, <2>5 DEF f, GoodSource, SourceKept
  <1>6. CASE ~listed /\ s.status = "unknown"
    <2>1. f = s
      BY <1>6 DEF Reconciled
    <2> QED
      BY <1>6, <2>1 DEF GrowsSource
  <1> QED
    BY <1>3, <1>4, <1>5, <1>6

(* reconcile_inventory_sources.                                            *)
LEMMA ReconcileInventoryIsGood ==
  ASSUME NEW d, Good(d), NEW cat \in Catalog, NEW day \in Dates,
         d.updated <= day
  PROVE  LET e == ReconcileInventory(d, cat, day) IN
         /\ Good(e) /\ Grows(d, e)
         /\ e.revision = d.revision /\ e.updated = day
  <1> DEFINE assoc == ReconciledAssoc(d.assoc, cat)
             supporters(t) == {u \in cat.listed : assoc[t][u] = "active"}
             contexts == [t \in Terms |-> d.contexts[t] \cup
                            UNION {cat.contexts[u] : u \in supporters(t)}]
             src == ReconciledSources(d.src, cat, day)
             e == ReconcileInventory(d, cat, day)
  <1>1. /\ d \in Document /\ ValidDocument(d) /\ SupportedDoc(d)
        /\ \A u \in Urls : GoodSource(d.src[u])
    BY DEF Good, Document, ValidDocument, GoodSource
  <1>2. /\ d.updated \in Int /\ day \in Int /\ day \in Days
        /\ MaxDay(d.updated, day) = day
    BY <1>1, Bounds DEF Document, Days, Dates, MaxDay
  <1>3. ASSUME NEW u \in Urls
        PROVE  d.src[u].attempted <= day
    <2>1. d.src[u].attempted \in Int /\ d.src[u].attempted <= d.updated
      BY <1>1, Bounds DEF Document, Source, Days, ValidDocument
    <2> QED
      BY <1>2, <2>1
  <1>4. ASSUME NEW u \in Urls
        PROVE  /\ src[u] = Reconciled(d.src[u], u \in cat.listed, day)
               /\ GoodSource(src[u]) /\ GrowsSource(d.src[u], src[u])
               /\ src[u].attempted = d.src[u].attempted
               /\ d.src[u].status = "active" /\ u \in cat.listed =>
                    SourceKept(d.src[u], src[u])
    <2> DEFINE listed == u \in cat.listed
    <2>1. src[u] = Reconciled(d.src[u], listed, day) /\ listed \in BOOLEAN
      BY DEF ReconciledSources
    <2> HIDE DEF src, listed
    <2>2. d.src[u].attempted <= day /\ GoodSource(d.src[u])
      BY <1>1, <1>3
    <2>3. /\ GoodSource(src[u]) /\ GrowsSource(d.src[u], src[u])
          /\ src[u].attempted = d.src[u].attempted
          /\ d.src[u].status = "active" /\ listed =>
               SourceKept(d.src[u], src[u])
      BY <2>1, <2>2, ReconciledIsGood
    <2> QED
      BY <2>1, <2>3 DEF listed
  <1>5. src \in [Urls -> Source]
    BY <1>4 DEF ReconciledSources, GoodSource
  <1>6. /\ assoc \in [Terms -> [Urls -> {"none", "active", "inactive"}]]
        /\ \A t \in Terms, u \in Urls :
             /\ assoc[t][u] = "active" =>
                  d.assoc[t][u] = "active" /\ u \in cat.listed
             /\ assoc[t][u] = "none" <=> d.assoc[t][u] = "none"
    BY <1>1 DEF ReconciledAssoc, Document
  <1>7. /\ contexts \in [Terms -> SUBSET Contexts]
        /\ \A t \in Terms : d.contexts[t] \subseteq contexts[t]
    <2> HIDE DEF assoc
    <2>1. \A t \in Terms : d.contexts[t] \subseteq Contexts
      BY <1>1 DEF Document
    <2>2. \A u \in cat.listed : cat.contexts[u] \subseteq Contexts
      BY DEF Catalog
    <2> QED
      BY <2>1, <2>2
  <1>8. e = [d EXCEPT !.updated = day, !.src = src, !.assoc = assoc,
                      !.contexts = contexts]
    BY <1>2 DEF ReconcileInventory
  <1> HIDE DEF assoc, contexts, src, e
  <1>9. /\ e.revision = d.revision /\ e.updated = day /\ e.src = src
        /\ e.assoc = assoc /\ e.contexts = contexts
    BY <1>1, <1>8 DEF Document
  <1>10. e \in Document
    BY <1>1, <1>2, <1>5, <1>6, <1>7, <1>8 DEF Document
  <1>11. ValidDocument(e)
    <2>1. ASSUME NEW u \in Urls
          PROVE  ValidSource(e.src[u]) /\ e.src[u].attempted <= e.updated
      BY <1>3, <1>4, <1>9 DEF GoodSource
    <2>2. ASSUME NEW t \in Terms, NEW u \in Urls, e.assoc[t][u] # "none"
          PROVE  e.src[u].status # "unknown" /\ e.contexts[t] # {}
      <3>1. d.src[u].status # "unknown" /\ d.contexts[t] # {}
        BY <1>1, <1>6, <1>9, <2>2 DEF ValidDocument
      <3> QED
        BY <1>4, <1>7, <1>9, <3>1 DEF GrowsSource
    <2>3. ASSUME NEW t \in Terms, NEW u \in Urls, e.assoc[t][u] = "active"
          PROVE  e.src[u].status = "active"
      BY <1>1, <1>4, <1>6, <1>9, <2>3 DEF ValidDocument, SourceKept
    <2> QED
      BY <2>1, <2>2, <2>3 DEF ValidDocument
  <1>12. SupportedDoc(e)
    <2> SUFFICES ASSUME NEW t \in Terms, NEW u \in Urls,
                        e.assoc[t][u] = "active"
                 PROVE  /\ e.src[u].status = "active"
                        /\ e.src[u].successful # Never
                        /\ t \in e.src[u].seen
                        /\ e.src[u].decided[t] = "accepted"
      BY DEF SupportedDoc
    <2>1. d.assoc[t][u] = "active" /\ u \in cat.listed
      BY <1>6, <1>9
    <2> QED
      BY <1>1, <1>4, <1>9, <2>1 DEF SupportedDoc, SourceKept
  <1>13. Grows(d, e)
    BY <1>4, <1>6, <1>7, <1>9 DEF Grows
  <1> QED
    BY <1>9, <1>10, <1>11, <1>12, <1>13 DEF Good, e

-----------------------------------------------------------------------------
(* The inductive invariant.  A run's proposal is good and grows out of the *)
(* document the run loaded, which is the file unless the file was replaced *)
(* since, at a higher revision.                                            *)
Types ==
  /\ catalog \in Catalog
  /\ today \in Dates /\ edits \in 0 .. MaxEdits
  /\ phase \in [Clients -> {"idle", "crawling"}]
  /\ on \in [Clients -> Dates]
  /\ inventory \in [Clients -> Catalog]
  /\ original \in [Clients -> Document]
  /\ proposed \in [Clients -> Document]
  /\ queue \in [Clients -> SUBSET Urls]

OnDisk == Good(file) /\ file.updated <= today

Preparing(c) ==
  /\ on[c] <= today
  /\ original[c].revision <= file.revision
  /\ original[c].revision = file.revision => original[c] = file
  /\ proposed[c].revision = original[c].revision
  /\ proposed[c].updated = on[c]
  /\ Grows(original[c], proposed[c])
  /\ \A u \in queue[c] : proposed[c].src[u].status = "active"

Prepared(c) ==
  /\ Good(proposed[c])
  /\ phase[c] = "crawling" => Preparing(c)

IInv == Types /\ OnDisk /\ \A c \in Clients : Prepared(c)

(* What an operation on the document makes of d on that day.               *)
Update(d, day, e) ==
  /\ Good(e) /\ Grows(d, e)
  /\ e.revision = d.revision /\ e.updated = day
  /\ \A v \in Urls : d.src[v].status = "active" =>
                      e.src[v].status = "active"

(* The document of a repository that has none.                             *)
LEMMA EmptyIsGood == Good(Empty)
  <1>1. NoGap \in Gap
    BY DEF NoGap, Gap
  <1>2. 0 \in Days
    BY Bounds DEF Dates
  <1>3. Unknown \in Source
    BY <1>1, <1>2 DEF Unknown, Source
  <1>4. ValidSource(Unknown)
    BY Bounds DEF Unknown, ValidSource
  <1>5. Empty \in Document
    BY <1>2, <1>3 DEF Empty, Document
  <1>6. \A u \in Urls : Empty.src[u] = Unknown
    BY DEF Empty
  <1>7. /\ \A t \in Terms, u \in Urls : Empty.assoc[t][u] = "none"
        /\ Empty.updated = 0
    BY DEF Empty
  <1>8. Unknown.attempted <= 0
    BY Bounds DEF Unknown
  <1>9. ValidDocument(Empty)
    BY <1>4, <1>6, <1>7, <1>8 DEF ValidDocument
  <1>10. SupportedDoc(Empty)
    BY <1>7 DEF SupportedDoc
  <1> QED
    BY <1>5, <1>9, <1>10 DEF Good

(* A run whose update goes one source further stays prepared.              *)
LEMMA CrawledKeeps ==
  ASSUME IInv, NEW c \in Clients, NEW u \in Urls, NEW e,
         Update(proposed[c], on[c], e), Crawled(c, u, e)
  PROVE  IInv'
  <1> USE DEF IInv
  <1>1. /\ e \in Document /\ Good(e) /\ u \in queue[c]
        /\ phase[c] = "crawling"
        /\ proposed' = [proposed EXCEPT ![c] = e]
        /\ queue' = [queue EXCEPT ![c] = queue[c] \ {u}]
        /\ UNCHANGED <<file, catalog, today, edits, phase, on, inventory,
                       original>>
    BY DEF Update, Good, Crawled
  <1>2. Types'
    BY <1>1 DEF Types
  <1>3. OnDisk'
    BY <1>1 DEF OnDisk
  <1>4. ASSUME NEW x \in Clients PROVE Prepared(x)'
    <2>1. CASE x = c
      <3>1. proposed'[c] = e /\ queue'[c] \subseteq queue[c]
        BY <1>1 DEF Types
      <3>2. Preparing(c)
        BY <1>1 DEF Prepared
      <3>3. Grows(original[c], e)
        BY <3>2, GrowsIsTransitive DEF Update, Preparing
      <3>4. \A v \in queue'[c] : e.src[v].status = "active"
        <4>1. queue'[c] \subseteq Urls
          BY <1>2 DEF Types
        <4> QED
          BY <3>1, <3>2, <4>1 DEF Preparing, Update
      <3>5. e.revision = original[c].revision /\ e.updated = on[c]
        BY <3>2 DEF Preparing, Update
      <3>6. Preparing(c)'
        BY <1>1, <3>1, <3>2, <3>3, <3>4, <3>5 DEF Preparing
      <3> QED
        BY <1>1, <2>1, <3>1, <3>6 DEF Prepared
    <2>2. CASE x # c
      BY <1>1, <2>2 DEF Prepared, Preparing, Types
    <2> QED
      BY <2>1, <2>2
  <1> QED
    BY <1>2, <1>3, <1>4

(* The two steps that put an idle run's state back.                        *)
LEMMA ForgottenKeeps ==
  ASSUME IInv, NEW c \in Clients, Forget(c), OnDisk',
         phase' = [phase EXCEPT ![c] = "idle"],
         UNCHANGED <<catalog, today, edits>>,
         \/ file' = file
         \/ file'.revision = file.revision + 1
  PROVE  IInv'
  <1> USE DEF IInv
  <1>1. NoCatalog \in Catalog /\ Empty \in Document /\ Good(Empty)
    BY EmptyIsGood DEF NoCatalog, Catalog, Good
  <1>2. 0 \in Dates
    BY Bounds DEF Dates
  <1>3. Types'
    BY <1>1, <1>2 DEF Types, Forget
  <1>4. ASSUME NEW x \in Clients PROVE Prepared(x)'
    <2>1. CASE x = c
      BY <1>1, <2>1 DEF Types, Forget, Prepared
    <2>2. CASE x # c
      <3>1. /\ phase'[x] = phase[x] /\ on'[x] = on[x]
            /\ original'[x] = original[x] /\ proposed'[x] = proposed[x]
            /\ queue'[x] = queue[x]
        BY <2>2 DEF Types, Forget
      <3>2. CASE phase[x] # "crawling"
        BY <3>1, <3>2 DEF Prepared
      <3>3. CASE phase[x] = "crawling" /\ file' = file
        BY <3>1, <3>3 DEF Prepared, Preparing
      <3>4. CASE phase[x] = "crawling" /\ file'.revision = file.revision + 1
        <4>1. original[x].revision \in Nat /\ file.revision \in Nat
          BY DEF Types, OnDisk, Good, Document
        <4>2. Preparing(x)
          BY <3>4 DEF Prepared
        <4>3. /\ original[x].revision <= file'.revision
              /\ original[x].revision # file'.revision
          BY <3>4, <4>1, <4>2 DEF Preparing
        <4>4. Preparing(x)'
          BY <3>1, <4>2, <4>3 DEF Preparing
        <4> QED
          BY <3>1, <4>4 DEF Prepared
      <3> QED
        BY <3>2, <3>3, <3>4
    <2> QED
      BY <2>1, <2>2
  <1> QED
    BY <1>3, <1>4

(* What apply_vocabulary puts in the place of the file.                    *)
Replaced(c) ==
  /\ phase[c] = "crawling" /\ phase'[c] = "idle"
  /\ original[c] = file
  /\ Grows(file, file')
  /\ file'.revision = file.revision + 1
  /\ file'.updated >= file.updated
  /\ OnDisk'

(* apply_vocabulary leaves the file alone or replaces it.                  *)
LEMMA ApplyReplaces ==
  ASSUME IInv, NEW c \in Clients, Apply(c)
  PROVE  file' = file \/ Replaced(c)
  <1> DEFINE p == proposed[c]
  <1> USE DEF IInv
  <1>1. /\ phase[c] = "crawling" /\ phase' = [phase EXCEPT ![c] = "idle"]
        /\ UNCHANGED today
    BY DEF Apply
  <1>2. /\ Good(p) /\ p \in Document /\ ValidDocument(p)
        /\ SupportedDoc(p) /\ Preparing(c)
    BY <1>1 DEF Prepared, Good
  <1>3. CASE file' = file
    BY <1>3
  <1>4. CASE /\ file' = [p EXCEPT !.revision = p.revision + 1]
             /\ RevisionMatches(c) /\ p.updated >= file.updated
    <2>1. /\ file'.revision = p.revision + 1 /\ file'.updated = p.updated
          /\ file'.src = p.src /\ file'.assoc = p.assoc
          /\ file'.contexts = p.contexts
      BY <1>2, <1>4 DEF Document
    <2>2. file' \in Document
      BY <1>2, <1>4 DEF Document
    <2>3. ValidDocument(file') /\ SupportedDoc(file')
      BY <1>2, <2>1 DEF ValidDocument, SupportedDoc
    <2>4. original[c] = file /\ p.revision = file.revision
      BY <1>2, <1>4 DEF RevisionMatches, Preparing
    <2>5. Grows(file, file')
      <3>1. Grows(file, p)
        BY <1>2, <2>4 DEF Preparing
      <3> QED
        BY <2>1, <3>1 DEF Grows
    <2>6. file'.updated <= today'
      BY <1>1, <1>2, <2>1 DEF Preparing
    <2>7. OnDisk'
      BY <2>2, <2>3, <2>6 DEF OnDisk, Good, Document, ValidDocument,
                              SupportedDoc
    <2>8. phase'[c] = "idle"
      BY <1>1 DEF Types
    <2> QED
      BY <1>1, <1>4, <2>1, <2>4, <2>5, <2>7, <2>8 DEF Replaced
  <1> QED
    BY <1>3, <1>4 DEF Apply

-----------------------------------------------------------------------------
(* Every initial state satisfies the invariant.                            *)
LEMMA InitIInv == Init => IInv
  <1> SUFFICES ASSUME Init PROVE IInv
    OBVIOUS
  <1> USE DEF Init
  <1>1. /\ Good(Empty) /\ Empty \in Document /\ NoCatalog \in Catalog
        /\ 0 \in Dates /\ InitialCatalog \in Catalog
    BY EmptyIsGood, Bounds, VocabularyAssumption
    DEF Good, NoCatalog, Catalog, Dates
  <1>2. Types
    BY <1>1, VocabularyAssumption DEF Types
  <1>3. OnDisk
    BY <1>1 DEF OnDisk, Empty
  <1>4. \A c \in Clients : Prepared(c)
    BY <1>1 DEF Prepared
  <1> QED
    BY <1>2, <1>3, <1>4 DEF IInv

(* A run that begins proposes the reconciled inventory.                    *)
LEMMA BeginKeeps ==
  ASSUME IInv, NEW c \in Clients, Begin(c)
  PROVE  IInv'
  <1> DEFINE e == ReconcileInventory(file, catalog, today)
  <1> USE DEF IInv
  <1>1. /\ Good(file) /\ file \in Document /\ file.updated <= today
        /\ today \in Dates /\ catalog \in Catalog
    BY DEF Types, OnDisk, Good
  <1>2. /\ Good(e) /\ e \in Document /\ Grows(file, e)
        /\ e.revision = file.revision /\ e.updated = today
    <2>1. /\ Good(e) /\ Grows(file, e)
          /\ e.revision = file.revision /\ e.updated = today
      BY <1>1, ReconcileInventoryIsGood
    <2> QED
      BY <2>1 DEF Good
  <1>3. PICK explicit \in SUBSET Known(e) :
          queue' = [queue EXCEPT ![c] = Select(e, today, explicit)]
    BY DEF Begin
  <1> DEFINE chosen == Select(e, today, explicit)
  <1>4. /\ proposed' = [proposed EXCEPT ![c] = e]
        /\ original' = [original EXCEPT ![c] = file]
        /\ inventory' = [inventory EXCEPT ![c] = catalog]
        /\ on' = [on EXCEPT ![c] = today]
        /\ phase' = [phase EXCEPT ![c] = "crawling"]
        /\ UNCHANGED <<file, catalog, today, edits>>
    BY DEF Begin
  <1>5. chosen \subseteq Urls /\ \A u \in chosen : e.src[u].status = "active"
    BY DEF Select, Eligible
  <1> HIDE DEF e, chosen
  <1>6. Types'
    <2>1. queue' = [queue EXCEPT ![c] = chosen]
      BY <1>3 DEF chosen
    <2> QED
      BY <1>1, <1>2, <1>4, <1>5, <2>1 DEF Types
  <1>7. OnDisk'
    BY <1>4 DEF OnDisk
  <1>8. ASSUME NEW x \in Clients PROVE Prepared(x)'
    <2>1. CASE x = c
      <3>1. /\ proposed'[c] = e /\ original'[c] = file /\ on'[c] = today
            /\ queue'[c] = chosen
        BY <1>3, <1>4 DEF Types, chosen
      <3>2. file.revision \in Nat /\ today \in Int
        BY <1>1, Bounds DEF Document, Dates
      <3>3. Preparing(c)'
        BY <1>2, <1>4, <1>5, <3>1, <3>2 DEF Preparing
      <3> QED
        BY <1>2, <2>1, <3>1, <3>3 DEF Prepared
    <2>2. CASE x # c
      BY <1>3, <1>4, <2>2 DEF Prepared, Preparing, Types
    <2> QED
      BY <2>1, <2>2
  <1> QED
    BY <1>6, <1>7, <1>8

(* A run that crawls a source updates its proposal.                        *)
LEMMA CrawlKeeps ==
  ASSUME IInv, NEW c \in Clients, NEW u \in Urls,
         \/ CrawlFails(c, u)
         \/ \E page \in Pages : CrawlUnchanged(c, u, page)
                               \/ CrawlChanged(c, u, page)
  PROVE  IInv'
  <1>1. phase[c] = "crawling" /\ u \in queue[c]
    BY DEF CrawlFails, CrawlUnchanged, CrawlChanged, Crawled
  <1>2. /\ Good(proposed[c]) /\ on[c] \in Dates
        /\ proposed[c].updated = on[c]
        /\ proposed[c].src[u].status = "active"
    BY <1>1 DEF IInv, Types, Prepared, Preparing
  <1>3. proposed[c].updated <= on[c]
    BY <1>2, Bounds DEF Dates
  <1>4. CASE CrawlFails(c, u)
    <2>1. Update(proposed[c], on[c], MarkAccessGap(proposed[c], u, on[c]))
      BY <1>2, <1>3, MarkAccessGapIsGood DEF Update
    <2> QED
      BY <1>4, <2>1, CrawledKeeps DEF CrawlFails
  <1>5. ASSUME NEW page \in Pages, CrawlUnchanged(c, u, page) PROVE IInv'
    <2>1. Update(proposed[c], on[c],
                 UpdateSourceSuccess(proposed[c], u, page, on[c]))
      BY <1>2, <1>3, UpdateSourceSuccessIsGood DEF Update
    <2> QED
      BY <1>5, <2>1, CrawledKeeps DEF CrawlUnchanged
  <1>6. ASSUME NEW page \in Pages, CrawlChanged(c, u, page) PROVE IInv'
    <2> DEFINE ctxs == inventory[c].contexts[u]
    <2>1. ctxs \in SUBSET Contexts
      BY DEF IInv, Types, Catalog
    <2>2. PICK r \in Rulings(proposed[c].src[u], page, ctxs) :
            Crawled(c, u, MergeReconciliation(proposed[c], u, page, ctxs, r,
                                              on[c]))
      BY <1>6 DEF CrawlChanged
    <2> HIDE DEF ctxs
    <2> DEFINE d == proposed[c]
               day == on[c]
               e == MergeReconciliation(d, u, page, ctxs, r, day)
    <2>3. Update(d, day, e)
      <3>1. /\ Good(d) /\ day \in Dates /\ d.updated <= day
            /\ d.src[u].status = "active"
            /\ r \in Rulings(d.src[u], page, ctxs)
        BY <1>2, <1>3
      <3> HIDE DEF d, day
      <3>2. /\ Good(e) /\ Grows(d, e)
            /\ e.revision = d.revision /\ e.updated = day
            /\ \A v \in Urls : d.src[v].status = "active" =>
                                e.src[v].status = "active"
        BY <2>1, <3>1, MergeReconciliationIsGood
      <3> QED
        BY <3>2 DEF Update
    <2> QED
      BY <2>2, <2>3, CrawledKeeps
  <1> QED
    BY <1>4, <1>5, <1>6

(* Commits to the inventory and the clock disturb no run.                  *)
LEMMA ElsewhereKeeps ==
  ASSUME IInv,
         \/ \E u \in Urls, ctxs \in SUBSET Contexts : EditCatalog(u, ctxs)
         \/ Midnight
         \/ UNCHANGED vars
  PROVE  IInv' /\ file' = file
  <1> USE DEF IInv
  <1>1. ASSUME NEW u \in Urls, NEW ctxs \in SUBSET Contexts,
               EditCatalog(u, ctxs)
        PROVE  IInv' /\ file' = file
    <2>1. catalog' \in Catalog
      BY <1>1 DEF EditCatalog, Types, Catalog
    <2>2. edits' \in 0 .. MaxEdits
      <3>1. MaxEdits \in Nat
        BY VocabularyAssumption
      <3>2. edits < MaxEdits /\ edits' = edits + 1
        BY <1>1 DEF EditCatalog
      <3>3. edits \in 0 .. MaxEdits
        BY DEF Types
      <3> QED
        BY <3>1, <3>2, <3>3
    <2>3. Types'
      BY <1>1, <2>1, <2>2 DEF EditCatalog, Types
    <2>4. OnDisk' /\ \A c \in Clients : Prepared(c)'
      BY <1>1 DEF EditCatalog, OnDisk, Prepared, Preparing
    <2> QED
      BY <1>1, <2>3, <2>4 DEF EditCatalog
  <1>2. CASE Midnight
    <2>1. today \in Dates /\ today' = today + 1 /\ today' \in Dates
      BY <1>2, Bounds DEF Midnight, Types, Dates
    <2>2. Types'
      BY <1>2, <2>1 DEF Midnight, Types
    <2>3. OnDisk'
      <3>1. file.updated \in Int /\ today \in Int
        BY <2>1, Bounds DEF OnDisk, Good, Document, Days, Dates
      <3> QED
        BY <1>2, <2>1, <3>1 DEF Midnight, OnDisk
    <2>4. ASSUME NEW c \in Clients PROVE Prepared(c)'
      <3>1. on[c] \in Int /\ today \in Int
        BY <2>1, Bounds DEF Types, Dates
      <3> QED
        BY <1>2, <2>1, <3>1 DEF Midnight, Prepared, Preparing
    <2> QED
      BY <1>2, <2>2, <2>3, <2>4 DEF Midnight
  <1>3. CASE UNCHANGED vars
    BY <1>3 DEF vars, Types, OnDisk, Prepared, Preparing
  <1> QED
    BY <1>1, <1>2, <1>3

(* One step keeps the invariant and leaves the file alone or replaces it.  *)
LEMMA VocabularyStep ==
  ASSUME IInv, [Next]_vars
  PROVE  IInv' /\ (file' = file \/ \E c \in Clients : Replaced(c))
  <1>1. ASSUME NEW c \in Clients, Begin(c) PROVE IInv' /\ file' = file
    BY <1>1, BeginKeeps DEF Begin
  <1>2. ASSUME NEW c \in Clients, Apply(c)
        PROVE  IInv' /\ (file' = file \/ Replaced(c))
    <2>1. /\ Forget(c) /\ phase' = [phase EXCEPT ![c] = "idle"]
          /\ UNCHANGED <<catalog, today, edits>>
      BY <1>2 DEF Apply
    <2>2. file' = file \/ Replaced(c)
      BY <1>2, ApplyReplaces
    <2>3. CASE file' = file
      <3>1. OnDisk'
        BY <2>1, <2>3 DEF IInv, OnDisk
      <3> QED
        BY <2>1, <2>3, <3>1, ForgottenKeeps
    <2>4. CASE Replaced(c)
      <3>1. OnDisk' /\ file'.revision = file.revision + 1
        BY <2>4 DEF Replaced
      <3> QED
        BY <2>1, <2>4, <3>1, ForgottenKeeps
    <2> QED
      BY <2>2, <2>3, <2>4
  <1>3. ASSUME NEW c \in Clients, Die(c) PROVE IInv' /\ file' = file
    <2>1. /\ Forget(c) /\ phase' = [phase EXCEPT ![c] = "idle"]
          /\ UNCHANGED <<file, catalog, today, edits>>
      BY <1>3 DEF Die
    <2>2. OnDisk'
      BY <2>1 DEF IInv, OnDisk
    <2> QED
      BY <2>1, <2>2, ForgottenKeeps
  <1>4. ASSUME NEW c \in Clients, NEW u \in Urls,
               \/ CrawlFails(c, u)
               \/ \E page \in Pages : CrawlUnchanged(c, u, page)
                                     \/ CrawlChanged(c, u, page)
        PROVE  IInv' /\ file' = file
    <2>1. file' = file
      BY <1>4 DEF CrawlFails, CrawlUnchanged, CrawlChanged, Crawled
    <2> QED
      BY <1>4, <2>1, CrawlKeeps
  <1>5. CASE \/ \E u \in Urls, ctxs \in SUBSET Contexts : EditCatalog(u, ctxs)
             \/ Midnight
             \/ UNCHANGED vars
    BY <1>5, ElsewhereKeeps
  <1> QED
    BY <1>1, <1>2, <1>3, <1>4, <1>5 DEF Next, ClientNext

-----------------------------------------------------------------------------
(* Why an association may be given up between the documents d and e: its   *)
(* source left the inventory or its page changed.                          *)
Excused(d, e, u) ==
  \/ e.src[u].status = "orphaned"
  \/ e.src[u].page # d.src[u].page

(* Every association that a proposal gives up has a reason, and the pages  *)
(* of the sources that are still to be crawled are those of the original.  *)
Reasoned(c) ==
  phase[c] = "crawling" =>
    /\ \A u \in queue[c] : proposed[c].src[u].page = original[c].src[u].page
    /\ \A t \in Terms, u \in Urls :
         /\ original[c].assoc[t][u] = "active"
         /\ proposed[c].assoc[t][u] # "active"
         => Excused(original[c], proposed[c], u)

(* The crawl of u changes nothing of another source, and associations of u *)
(* only with its page.                                                     *)
CrawledOnly(d, e, u) ==
  /\ \A v \in Urls \ {u} :
       /\ e.src[v] = d.src[v]
       /\ \A t \in Terms : e.assoc[t][v] = d.assoc[t][v]
  /\ \/ \A t \in Terms : e.assoc[t][u] = d.assoc[t][u]
     \/ e.src[u].page # d.src[u].page

(* mark_source_access_gap, _update_source_success: no association changes. *)
LEMMA WithSourceCrawledOnly ==
  ASSUME NEW d, Good(d), NEW u \in Urls, NEW day \in Dates,
         d.updated <= day, NEW s, GoodSource(s)
  PROVE  CrawledOnly(d, WithSource(d, u, s, day), u)
  <1> DEFINE e == WithSource(d, u, s, day)
  <1>1. d \in Document /\ s \in Source
    BY DEF Good, GoodSource
  <1>2. e.src = [d.src EXCEPT ![u] = s] /\ e.assoc = d.assoc
    BY <1>1, WithSourceFields
  <1> HIDE DEF e
  <1>3. \A v \in Urls \ {u} : e.src[v] = d.src[v]
    BY <1>1, <1>2 DEF Document
  <1>4. CrawledOnly(d, e, u)
    BY <1>2, <1>3 DEF CrawledOnly
  <1> QED
    BY <1>4 DEF e

(* _merge_reconciliation is applied only when the page changed.            *)
LEMMA MergeCrawledOnly ==
  ASSUME NEW d, Good(d), NEW u \in Urls, NEW day \in Dates,
         NEW page \in Pages, NEW ctxs \in SUBSET Contexts,
         NEW r \in Rulings(d.src[u], page, ctxs),
         d.updated <= day, d.src[u].status = "active",
         page # d.src[u].page
  PROVE  CrawledOnly(d, MergeReconciliation(d, u, page, ctxs, r, day), u)
  <1> DEFINE s0 == d.src[u]
             s == Reclassified(s0, page, ctxs, r, day)
             w == WithSource(d, u, s, day)
             one(t) == MergedAssoc(s0, page, ctxs, r, d.assoc[t][u],
                                   d.contexts[t], t)
             assoc == [t \in Terms |-> [d.assoc[t] EXCEPT ![u] = one(t)]]
             contexts == [t \in Terms |->
                            MergedContexts(s0, page, ctxs, r, d.assoc[t][u],
                                           d.contexts[t], t)]
             e == MergeReconciliation(d, u, page, ctxs, r, day)
  <1>1. d \in Document /\ GoodSource(s0) /\ s0 \in Source
    BY DEF Good, Document, ValidDocument, GoodSource
  <1>2. GoodSource(s)
    BY <1>1, ReclassifiedIsGood
  <1>3. s \in Source /\ s.page = page
    <2>1. GoodSource(Refreshed(s0, page, day))
      BY <1>1, RefreshedIsGood
    <2>2. Refreshed(s0, page, day) \in Source
      BY <2>1 DEF GoodSource
    <2>3. Refreshed(s0, page, day).page = page
      BY <1>1 DEF Refreshed, Source
    <2>4. s.page = Refreshed(s0, page, day).page
      BY <2>2 DEF Reclassified, Source
    <2> QED
      BY <1>2, <2>3, <2>4 DEF GoodSource
  <1> HIDE DEF s
  <1>4. /\ w \in Document
        /\ w.src = [d.src EXCEPT ![u] = s]
    BY <1>1, <1>3, WithSourceFields
  <1>5. e = [w EXCEPT !.assoc = assoc, !.contexts = contexts]
    BY DEF MergeReconciliation, s
  <1> HIDE DEF w
  <1>6. \A t \in Terms : \A v \in Urls \ {u} : assoc[t][v] = d.assoc[t][v]
    BY <1>1 DEF Document
  <1> HIDE DEF e, s0, assoc, contexts, one
  <1>7. e.src = [d.src EXCEPT ![u] = s] /\ e.assoc = assoc
    BY <1>4, <1>5 DEF Document
  <1>8. /\ \A v \in Urls \ {u} : e.src[v] = d.src[v]
        /\ e.src[u].page = page
    BY <1>1, <1>3, <1>7 DEF Document
  <1>9. CrawledOnly(d, e, u)
    BY <1>6, <1>7, <1>8 DEF CrawledOnly
  <1> QED
    BY <1>9 DEF e

(* A crawl keeps every loss reasoned.                                      *)
LEMMA CrawledReasoned ==
  ASSUME IInv, NEW c \in Clients, NEW u \in Urls, NEW e,
         CrawledOnly(proposed[c], e, u), Crawled(c, u, e), Reasoned(c)
  PROVE  Reasoned(c)'
  <1> DEFINE o == original[c]
             d == proposed[c]
  <1>1. /\ phase[c] = "crawling" /\ u \in queue[c]
        /\ queue[c] \subseteq Urls
        /\ original'[c] = o /\ proposed'[c] = e
        /\ queue'[c] = queue[c] \ {u}
    BY DEF IInv, Types, Crawled
  <1>2. /\ d.src[u].page = o.src[u].page /\ d.src[u].status = "active"
        /\ \A v \in queue[c] : d.src[v].page = o.src[v].page
        /\ \A t \in Terms, v \in Urls :
             o.assoc[t][v] = "active" /\ d.assoc[t][v] # "active" =>
               Excused(o, d, v)
    BY <1>1 DEF IInv, Prepared, Preparing, Reasoned
  <1> HIDE DEF o, d
  <1>3. CrawledOnly(d, e, u)
    BY DEF d
  <1>4. \A v \in queue'[c] : e.src[v].page = o.src[v].page
    BY <1>1, <1>2, <1>3 DEF CrawledOnly
  <1>5. ASSUME NEW t \in Terms, NEW v \in Urls,
               o.assoc[t][v] = "active", e.assoc[t][v] # "active"
        PROVE  Excused(o, e, v)
    <2>1. CASE v # u
      BY <1>2, <1>3, <1>5, <2>1 DEF CrawledOnly, Excused
    <2>2. CASE v = u /\ e.assoc[t][u] = d.assoc[t][u]
      BY <1>2, <1>5, <2>2 DEF Excused
    <2>3. CASE v = u /\ e.src[u].page # d.src[u].page
      BY <1>2, <2>3 DEF Excused
    <2> QED
      BY <1>3, <2>1, <2>2, <2>3 DEF CrawledOnly
  <1> QED
    BY <1>1, <1>4, <1>5 DEF Reasoned

(* A reconciled inventory gives up the associations of the sources that it *)
(* does not list, and touches no page.                                     *)
LEMMA BeginReasoned ==
  ASSUME IInv, NEW c \in Clients, Begin(c)
  PROVE  Reasoned(c)'
  <1> DEFINE e == ReconcileInventory(file, catalog, today)
  <1>1. /\ file \in Document /\ ValidDocument(file)
        /\ \A u \in Urls : file.src[u] \in Source
    BY DEF IInv, OnDisk, Good, Document
  <1>2. /\ original'[c] = file /\ proposed'[c] = e
        /\ queue'[c] \subseteq Urls
    BY DEF Begin, IInv, Types, Select, Eligible
  <1>3. /\ e.src = ReconciledSources(file.src, catalog, today)
        /\ e.assoc = ReconciledAssoc(file.assoc, catalog)
    BY <1>1 DEF ReconcileInventory, Document
  <1>4. ASSUME NEW u \in Urls
        PROVE  /\ e.src[u].page = file.src[u].page
               /\ file.src[u].status = "active" /\ u \notin catalog.listed =>
                    e.src[u].status = "orphaned"
    <2>1. e.src[u] = Reconciled(file.src[u], u \in catalog.listed, today)
      BY <1>3 DEF ReconciledSources
    <2> HIDE DEF e
    <2> QED
      BY <1>1, <2>1 DEF Reconciled, Source
  <1> HIDE DEF e
  <1>5. ASSUME NEW t \in Terms, NEW u \in Urls,
               file.assoc[t][u] = "active", e.assoc[t][u] # "active"
        PROVE  Excused(file, e, u)
    <2>1. u \notin catalog.listed
      BY <1>3, <1>5 DEF ReconciledAssoc
    <2>2. file.src[u].status = "active"
      BY <1>1, <1>5 DEF ValidDocument
    <2> QED
      BY <1>4, <2>1, <2>2 DEF Excused
  <1> QED
    BY <1>2, <1>4, <1>5 DEF Reasoned

(* A run that begins or crawls keeps its losses reasoned; the other steps  *)
(* leave a run alone or end it.                                            *)
LEMMA ReasonedStep ==
  ASSUME IInv, \A c \in Clients : Reasoned(c), [Next]_vars
  PROVE  \A c \in Clients : Reasoned(c)'
  <1> SUFFICES ASSUME NEW x \in Clients PROVE Reasoned(x)'
    OBVIOUS
  <1>1. CASE UNCHANGED <<phase[x], queue[x], proposed[x], original[x]>>
    BY <1>1 DEF Reasoned
  <1>2. ASSUME NEW c \in Clients, ClientNext(c), c # x PROVE Reasoned(x)'
    <2>1. UNCHANGED <<phase[x], queue[x], proposed[x], original[x]>>
      BY <1>2 DEF ClientNext, Begin, Apply, Die, CrawlFails, CrawlUnchanged,
                  CrawlChanged, Crawled, Forget, IInv, Types
    <2> QED
      BY <1>1, <2>1
  <1>3. CASE Begin(x)
    BY <1>3, BeginReasoned
  <1>4. CASE Apply(x) \/ Die(x)
    <2>1. phase'[x] = "idle"
      BY <1>4 DEF Apply, Die, IInv, Types
    <2> QED
      BY <2>1 DEF Reasoned
  <1>5. ASSUME NEW u \in Urls,
               \/ CrawlFails(x, u)
               \/ \E page \in Pages : CrawlUnchanged(x, u, page)
                                     \/ CrawlChanged(x, u, page)
        PROVE  Reasoned(x)'
    <2> DEFINE d == proposed[x]
               day == on[x]
    <2>1. phase[x] = "crawling" /\ u \in queue[x]
      BY <1>5 DEF CrawlFails, CrawlUnchanged, CrawlChanged, Crawled
    <2>2. /\ Good(d) /\ GoodSource(d.src[u]) /\ day \in Dates
          /\ d.updated = day /\ d.src[u].status = "active"
      BY <2>1 DEF IInv, Types, Prepared, Preparing, Good, Document,
                  ValidDocument, GoodSource
    <2>3. d.updated <= day /\ d.src[u].attempted <= day
      <3>1. d.src[u].attempted <= d.updated
        BY <2>2 DEF Good, ValidDocument
      <3> QED
        BY <2>2, <3>1, Bounds DEF Dates
    <2>4. ASSUME NEW e, CrawledOnly(d, e, u), Crawled(x, u, e)
          PROVE  Reasoned(x)'
      BY <2>4, CrawledReasoned
    <2>5. CASE CrawlFails(x, u)
      <3>1. GoodSource(Failed(d.src[u], day))
        BY <2>2, <2>3, FailedIsGood
      <3>2. CrawledOnly(d, MarkAccessGap(d, u, day), u)
        <4> HIDE DEF d, day
        <4> QED
          BY <2>2, <2>3, <3>1, WithSourceCrawledOnly DEF MarkAccessGap
      <3> QED
        BY <2>4, <2>5, <3>2 DEF CrawlFails
    <2>6. ASSUME NEW page \in Pages, CrawlUnchanged(x, u, page)
          PROVE  Reasoned(x)'
      <3>1. GoodSource(Refreshed(d.src[u], page, day))
        BY <2>2, RefreshedIsGood
      <3>2. CrawledOnly(d, UpdateSourceSuccess(d, u, page, day), u)
        <4> HIDE DEF d, day
        <4> QED
          BY <2>2, <2>3, <3>1, WithSourceCrawledOnly DEF UpdateSourceSuccess
      <3> QED
        BY <2>4, <2>6, <3>2 DEF CrawlUnchanged
    <2>7. ASSUME NEW page \in Pages, CrawlChanged(x, u, page)
          PROVE  Reasoned(x)'
      <3> DEFINE ctxs == inventory[x].contexts[u]
      <3>1. ctxs \in SUBSET Contexts /\ page # d.src[u].page
        BY <2>7 DEF IInv, Types, Catalog, CrawlChanged
      <3>2. PICK r \in Rulings(d.src[u], page, ctxs) :
              Crawled(x, u, MergeReconciliation(d, u, page, ctxs, r, day))
        BY <2>7 DEF CrawlChanged
      <3>3. CrawledOnly(d, MergeReconciliation(d, u, page, ctxs, r, day), u)
        <4>1. r \in Rulings(d.src[u], page, ctxs)
          BY <3>2
        <4> HIDE DEF d, day, ctxs
        <4> QED
          BY <2>2, <2>3, <3>1, <4>1, MergeCrawledOnly
      <3> QED
        BY <2>4, <3>2, <3>3
    <2> QED
      BY <1>5, <2>5, <2>6, <2>7
  <1>6. CASE \/ \E u \in Urls, ctxs \in SUBSET Contexts : EditCatalog(u, ctxs)
             \/ Midnight
             \/ UNCHANGED vars
    BY <1>1, <1>6 DEF EditCatalog, Midnight, vars
  <1> QED
    BY <1>2, <1>3, <1>4, <1>5, <1>6 DEF Next, ClientNext

-----------------------------------------------------------------------------
(* The inductive invariant holds of every behaviour.                       *)
THEOREM Invariance == Spec => []IInv
  <1>1. IInv /\ [Next]_vars => IInv'
    BY VocabularyStep
  <1> QED
    BY <1>1, InitIInv, PTL DEF Spec

(* Types; the file and every proposal pass the document's validators.      *)
THEOREM TypeCorrect == Spec => []TypeOK
  <1>1. IInv => TypeOK
    BY DEF IInv, Types, OnDisk, Prepared, Good, TypeOK, Dates
  <1> QED
    BY <1>1, Invariance, PTL

(* An active association is supported by an accepted, active decision.     *)
THEOREM NothingUnsupported == Spec => []ActiveIsSupported
  <1>1. IInv => ActiveIsSupported
    BY DEF IInv, OnDisk, Good, SupportedDoc, ActiveIsSupported
  <1> QED
    BY <1>1, Invariance, PTL

(* An update replaces exactly the document it was prepared from.           *)
THEOREM NoLostUpdate == Spec => NotOvertaken
  <1> DEFINE Step == file' # file =>
                       /\ file'.revision = file.revision + 1
                       /\ file'.updated >= file.updated
                       /\ \E c \in Clients : /\ original[c] = file
                                             /\ phase[c] = "crawling"
                                             /\ phase'[c] = "idle"
  <1>1. IInv /\ [Next]_vars => [Step]_vars
    BY VocabularyStep DEF Replaced
  <1> QED
    BY <1>1, Invariance, PTL DEF Spec, NotOvertaken

(* No decision that is on record is ever changed.                          *)
THEOREM DecisionsFinal == Spec => DecisionsStand
  <1> DEFINE Step == \A u \in Urls, t \in Terms :
                       file.src[u].decided[t] # "none" =>
                         file'.src[u].decided[t] = file.src[u].decided[t]
  <1>1. ASSUME IInv, [Next]_vars PROVE Step
    <2>1. CASE file' = file
      BY <2>1
    <2>2. ASSUME NEW c \in Clients, Replaced(c) PROVE Step
      BY <2>2 DEF Replaced, Grows, GrowsSource
    <2> QED
      BY <1>1, <2>1, <2>2, VocabularyStep
  <1>2. IInv /\ [Next]_vars => [Step]_vars
    BY <1>1
  <1> QED
    BY <1>2, Invariance, PTL DEF Spec, DecisionsStand

(* Sources, associations and contexts are only added.                      *)
THEOREM OnlyAdded == Spec => HistoryKept
  <1> DEFINE Step ==
        \A t \in Terms :
          /\ file.contexts[t] \subseteq file'.contexts[t]
          /\ \A u \in Urls :
               /\ file.src[u].status # "unknown" =>
                    file'.src[u].status # "unknown"
               /\ file.assoc[t][u] # "none" => file'.assoc[t][u] # "none"
  <1>1. ASSUME IInv, [Next]_vars PROVE Step
    <2>1. CASE file' = file
      BY <2>1
    <2>2. ASSUME NEW c \in Clients, Replaced(c) PROVE Step
      BY <2>2 DEF Replaced, Grows, GrowsSource
    <2> QED
      BY <1>1, <2>1, <2>2, VocabularyStep
  <1>2. IInv /\ [Next]_vars => [Step]_vars
    BY <1>1
  <1> QED
    BY <1>2, Invariance, PTL DEF Spec, HistoryKept

(* An active association is only given up when the inventory dropped its   *)
(* source or the source's page changed.                                    *)
THEOREM LossesHaveReasons == Spec => LostWithReason
  <1> DEFINE Step ==
        \A t \in Terms, u \in Urls :
          file.assoc[t][u] = "active" /\ file'.assoc[t][u] # "active" =>
            \/ file'.src[u].status = "orphaned"
            \/ file'.src[u].page # file.src[u].page
             Reason == \A c \in Clients : Reasoned(c)
  <1>1. Init => Reason
    BY DEF Init, Reasoned
  <1>2. IInv /\ Reason /\ [Next]_vars => Reason'
    BY ReasonedStep
  <1>3. ASSUME IInv, Reason, [Next]_vars PROVE Step
    <2>1. CASE file' = file
      BY <2>1
    <2>2. CASE file' # file
      <3>1. PICK c \in Clients : Apply(c)
        <4>1. \E c \in Clients : ClientNext(c)
          BY <1>3, <2>2 DEF Next, EditCatalog, Midnight, vars
        <4>2. ASSUME NEW c \in Clients, ClientNext(c) PROVE Apply(c)
          BY <2>2, <4>2 DEF ClientNext, Begin, Die, CrawlFails,
                            CrawlUnchanged, CrawlChanged, Crawled
        <4> QED
          BY <4>1, <4>2
      <3>2. /\ phase[c] = "crawling"
            /\ file' = [proposed[c] EXCEPT !.revision = @ + 1]
            /\ RevisionMatches(c)
        BY <2>2, <3>1 DEF Apply
      <3>3. original[c] = file /\ proposed[c] \in Document
        BY <1>3, <3>2 DEF IInv, Prepared, Preparing, RevisionMatches, Good
      <3>4. file'.src = proposed[c].src /\ file'.assoc = proposed[c].assoc
        BY <3>2, <3>3 DEF Document
      <3> QED
        BY <1>3, <3>2, <3>3, <3>4 DEF Reasoned, Excused
    <2> QED
      BY <2>1, <2>2
  <1>4. IInv /\ Reason /\ [Next]_vars => [Step]_vars
    BY <1>3
  <1> QED
    BY <1>1, <1>2, <1>4, Invariance, PTL DEF Spec, LostWithReason
=============================================================================
