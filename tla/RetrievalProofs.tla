-------------------------- MODULE RetrievalProofs ---------------------------
(***************************************************************************)
(* Proofs about Retrieval, for any number of threads, URLs, origins and    *)
(* policies and for any limits.                                            *)
(*                                                                         *)
(* The network gate: only the thread that holds the lock is in the         *)
(* transport (Sent), and every byte the browser has or is about to get is  *)
(* one that was counted (Delivery); before a document is shown at most one *)
(* navigation is on its way and it is the one that is allowed, and         *)
(* afterwards none is (Navigation).  The controlled browser: what is known *)
(* of an origin is what it publishes, and the time since the page's last   *)
(* request there is never overestimated (Informed).                        *)
(***************************************************************************)
EXTENDS Retrieval, Sequences, FiniteSetTheorems, TLAPS

Where == {"idle", "asked", "sent", "answered", "refused"}

Call == [at : Where, url : Urls \cup {Resource, NoUrl}, main : BOOLEAN,
         size : Nat, status : Statuses \cup {"redirect", "none"},
         location : Urls \cup {NoUrl}]

Address == Urls \cup {NoUrl}
Status == Statuses \cup {"redirect", "none"}

PageTypes ==
  /\ phase \in {"loading", "loaded", "rendered", "mapped", "failed",
                "returned", "raised"}
  /\ wanted \in Address /\ shown \in Address
  /\ call \in [Threads -> Call]
  /\ \A t \in Threads : call[t].main => call[t].url \in Urls
  /\ lock \in Threads \cup {NoThread} /\ allowed \subseteq Urls
  /\ resources \in 0 .. MaxResources /\ bytes \in 0 .. MaxBytes
  /\ delivered \in Nat
  /\ result \in [final : Address, source : Address, status : Status]
  /\ mainResponse \in [url : Address, status : Status]

Sent == \A t \in Threads :
          call[t].at = "sent" => lock = t /\ bytes + call[t].size <= MaxBytes

(* The bytes that were delivered, and those of the answers that the event  *)
(* loop has still to deliver, are different ones of those counted.         *)
Placed(D, B) ==
  /\ D \subseteq 1 .. bytes /\ Cardinality(D) = delivered
  /\ \A t \in Threads : call[t].at = "answered" =>
       /\ B[t] \subseteq 1 .. bytes /\ Cardinality(B[t]) = call[t].size
       /\ B[t] \cap D = {}
       /\ \A u \in Threads \ {t} :
            call[u].at = "answered" => B[t] \cap B[u] = {}

Delivery == \E D, B : B = [t \in Threads |-> B[t]] /\ Placed(D, B)

Navigating(t) ==
  call[t].main /\ call[t].at \in {"asked", "sent", "answered"}

Navigation ==
  /\ \A t, u \in Threads : Navigating(t) /\ Navigating(u) => t = u
  /\ wanted # NoUrl => /\ allowed \subseteq {wanted} /\ shown = NoUrl
                       /\ \A t \in Threads : ~Navigating(t)
  /\ \A t \in Threads : Navigating(t) =>
       /\ shown = NoUrl
       /\ call[t].at = "answered" =>
            /\ allowed \subseteq {call[t].location}
            /\ call[t].status = "redirect" <=> call[t].location # NoUrl
       /\ call[t].at # "answered" => allowed \subseteq {call[t].url}
  /\ shown # NoUrl => allowed = {} /\ mainResponse.url = shown

Sourced ==
  /\ phase = "loaded" => shown # NoUrl /\ result.final = shown
  /\ phase \in {"rendered", "mapped", "returned"} =>
       result.final = result.source
  /\ phase \in {"mapped", "returned"} => result.status = "ok"

PageInv == PageTypes /\ Sent /\ Delivery /\ Navigation /\ Sourced

-----------------------------------------------------------------------------
LEMMA PageConstants ==
  /\ Selected \in Urls /\ Resource \notin Urls /\ NoUrl \notin Urls
  /\ NoThread \notin Threads /\ "ok" \in Statuses /\ "redirect" \notin Statuses
  /\ MaxResources \in Nat \ {0} /\ MaxBytes \in Nat \ {0}
  BY RetrievalAssumption DEF Page!Parameters

LEMMA PageStarts == Page!Init => PageInv
  <1> SUFFICES ASSUME Page!Init PROVE PageInv
    OBVIOUS
  <1>1. /\ wanted = Selected /\ shown = NoUrl
        /\ call = [t \in Threads |-> Page!Idle]
        /\ lock = NoThread /\ allowed = {Selected}
        /\ resources = 0 /\ bytes = 0 /\ delivered = 0
        /\ mainResponse = Page!None
        /\ \/ /\ phase = "rendered"
              /\ result = [final |-> Selected, source |-> Selected,
                           status |-> "ok"]
           \/ /\ phase = "loading"
              /\ result = [final |-> NoUrl, source |-> NoUrl, status |-> "none"]
    BY DEF Page!Init
  <1>2. \A t \in Threads : call[t].at = "idle" /\ call[t].main = FALSE
    BY <1>1 DEF Page!Idle
  <1>3. PageTypes
    <2>1. call \in [Threads -> Call]
      BY <1>1 DEF Call, Where, Page!Idle
    <2>2. mainResponse \in [url : Address, status : Status]
      BY <1>1 DEF Page!None, Address, Status
    <2>3. result \in [final : Address, source : Address, status : Status]
      BY <1>1, PageConstants DEF Address, Status
    <2> QED
      BY <1>1, <1>2, <2>1, <2>2, <2>3, PageConstants DEF PageTypes, Address
  <1>4. Sent
    BY <1>2 DEF Sent
  <1>5. Delivery
    <2> DEFINE B == [t \in Threads |-> {}]
    <2>1. Placed({}, B)
      BY <1>1, <1>2, FS_EmptySet DEF Placed
    <2>2. B = [t \in Threads |-> B[t]]
      OBVIOUS
    <2> QED
      BY <2>1, <2>2 DEF Delivery
  <1>6. Navigation
    BY <1>1, <1>2, PageConstants DEF Navigation, Navigating
  <1>7. Sourced
    BY <1>1 DEF Sourced
  <1> QED
    BY <1>3, <1>4, <1>5, <1>6, <1>7 DEF PageInv

(* When no answer is added, and none is removed but dropped, what was      *)
(* counted stays counted.                                                  *)
LEMMA DeliveryKept ==
  ASSUME PageTypes, Delivery, UNCHANGED <<bytes, delivered>>,
         \A t \in Threads : call'[t].at = "answered" => call'[t] = call[t]
  PROVE  Delivery'
  <1>1. PICK D, B : B = [t \in Threads |-> B[t]] /\ Placed(D, B)
    BY DEF Delivery
  <1>2. Placed(D, B)'
    BY <1>1 DEF Placed
  <1> QED
    BY <1>1, <1>2 DEF Delivery

(* A request is asked, or refused at once.                                 *)
LEMMA AskKeeps ==
  ASSUME PageInv, NEW t \in Threads, NEW url \in Urls \cup {Resource},
         NEW main \in BOOLEAN, main => url \in Urls, Page!Ask(t, url, main)
  PROVE  /\ call' \in [Threads -> Call]
         /\ \A u \in Threads : call'[u].main => call'[u].url \in Urls
         /\ call'[t].at \in {"asked", "refused"} /\ ~Navigating(t)
         /\ call'[t].main = main /\ call'[t].url = url
         /\ call'[t].at = "asked" /\ main => url \in allowed
         /\ \A u \in Threads \ {t} : call'[u] = call[u]
         /\ UNCHANGED <<phase, result, lock, allowed, resources, bytes>>
  <1>1. PICK fit \in BOOLEAN :
          call' = [call EXCEPT ![t] =
                    [Page!Idle EXCEPT !.url = url, !.main = main,
                                      !.at = IF Page!Permitted(url, main, fit)
                                             THEN "asked" ELSE "refused"]]
    BY DEF Page!Ask
  <1> DEFINE new == [Page!Idle EXCEPT
                       !.url = url, !.main = main,
                       !.at = IF Page!Permitted(url, main, fit)
                              THEN "asked" ELSE "refused"]
  <1>2. /\ new \in Call /\ new.main = main /\ new.url = url
        /\ new.at \in {"asked", "refused"}
        /\ new.at = "asked" /\ main => url \in allowed
    BY DEF Page!Idle, Page!Permitted, Call, Where
  <1>3. call \in [Threads -> Call] /\ call' = [call EXCEPT ![t] = new]
    BY <1>1 DEF PageInv, PageTypes
  <1>4. call[t].at = "idle"
    BY DEF Page!Ask
  <1> HIDE DEF new
  <1>5. /\ call'[t] = new /\ \A u \in Threads \ {t} : call'[u] = call[u]
        /\ call' \in [Threads -> Call]
    BY <1>2, <1>3
  <1> QED
    BY <1>2, <1>4, <1>5 DEF Page!Ask, Page!gate, PageInv, PageTypes, Navigating

LEMMA NavigateStep ==
  ASSUME PageInv, NEW t \in Threads, Page!Navigate(t) PROVE PageInv'
  <1>1. /\ wanted \in Urls /\ Page!Ask(t, wanted, TRUE) /\ wanted' = NoUrl
        /\ UNCHANGED <<shown, mainResponse, delivered>>
    BY DEF Page!Navigate, PageInv, PageTypes, Address
  <1>2. /\ call' \in [Threads -> Call]
        /\ \A u \in Threads : call'[u].main => call'[u].url \in Urls
        /\ call'[t].at \in {"asked", "refused"}
        /\ call'[t].url = wanted
        /\ \A u \in Threads \ {t} : call'[u] = call[u]
        /\ UNCHANGED <<phase, result, lock, allowed, resources, bytes>>
    BY <1>1, AskKeeps
  <1>3. PageTypes'
    BY <1>1, <1>2 DEF PageInv, PageTypes, Address
  <1>4. Sent'
    BY <1>2 DEF PageInv, Sent
  <1>5. Delivery'
    BY <1>1, <1>2, DeliveryKept DEF PageInv
  <1>6. Navigation'
    <2>1. /\ wanted # NoUrl /\ shown = NoUrl /\ allowed \subseteq {wanted}
          /\ \A u \in Threads : ~Navigating(u)
      BY <1>1, PageConstants DEF PageInv, Navigation
    <2>2. \A u \in Threads \ {t} : ~Navigating(u)'
      BY <1>2, <2>1 DEF Navigating
    <2> QED
      BY <1>1, <1>2, <2>1, <2>2 DEF Navigation
  <1>7. Sourced'
    BY <1>1, <1>2 DEF PageInv, Sourced
  <1> QED
    BY <1>3, <1>4, <1>5, <1>6, <1>7 DEF PageInv

(* A document that is shown cannot navigate: nothing is allowed any more.  *)
LEMMA PageAsksStep ==
  ASSUME PageInv, NEW t \in Threads, Page!PageAsks(t) PROVE PageInv'
  <1>1. PICK url \in Urls \cup {Resource}, main \in BOOLEAN :
          (main => url \in Urls) /\ Page!Ask(t, url, main)
    BY DEF Page!PageAsks
  <1>2. shown # NoUrl /\ UNCHANGED <<wanted, shown, mainResponse, delivered>>
    BY DEF Page!PageAsks, Page!browser
  <1>3. /\ call' \in [Threads -> Call]
        /\ \A u \in Threads : call'[u].main => call'[u].url \in Urls
        /\ call'[t].at \in {"asked", "refused"}
        /\ call'[t].main = main
        /\ call'[t].at = "asked" /\ main => url \in allowed
        /\ \A u \in Threads \ {t} : call'[u] = call[u]
        /\ UNCHANGED <<phase, result, lock, allowed, resources, bytes>>
    BY <1>1, AskKeeps
  <1>4. PageTypes'
    BY <1>2, <1>3 DEF PageInv, PageTypes
  <1>5. Sent'
    BY <1>3 DEF PageInv, Sent
  <1>6. Delivery'
    BY <1>2, <1>3, DeliveryKept DEF PageInv
  <1>7. Navigation'
    <2>1. /\ allowed = {} /\ mainResponse.url = shown /\ wanted = NoUrl
          /\ \A u \in Threads : ~Navigating(u)
      BY <1>2 DEF PageInv, Navigation
    <2>2. \A u \in Threads : ~Navigating(u)'
      BY <1>3, <2>1 DEF Navigating
    <2> QED
      BY <1>2, <1>3, <2>1, <2>2 DEF Navigation
  <1>8. Sourced'
    BY <1>2, <1>3 DEF PageInv, Sourced
  <1> QED
    BY <1>4, <1>5, <1>6, <1>7, <1>8 DEF PageInv

(* A call that goes on, or is refused or dropped, before its answer.       *)
LEMMA CallMoves ==
  ASSUME PageInv, NEW t \in Threads, NEW new \in Call,
         call' = [call EXCEPT ![t] = new],
         new.at # "answered", new.main => call[t].main,
         new.url = call[t].url \/ ~new.main,
         new.at \in {"asked", "sent"} => call[t].at \in {"asked", "sent"},
         UNCHANGED <<phase, result, allowed, bytes, wanted, shown,
                     mainResponse, delivered>>,
         lock' \in Threads \cup {NoThread}, resources' \in 0 .. MaxResources,
         Sent'
  PROVE  PageInv'
  <1>1. /\ call' \in [Threads -> Call] /\ call'[t] = new
        /\ \A u \in Threads \ {t} : call'[u] = call[u]
    BY DEF PageInv, PageTypes
  <1>2. PageTypes'
    BY <1>1 DEF PageInv, PageTypes
  <1>3. Delivery'
    BY <1>1, DeliveryKept DEF PageInv
  <1>4. \A u \in Threads : Navigating(u)' =>
          /\ Navigating(u)
          /\ call'[u].at = call[u].at \/ u = t
    BY <1>1 DEF Navigating
  <1>5. Navigation'
    BY <1>1, <1>4 DEF PageInv, Navigation, Navigating
  <1>6. Sourced'
    BY DEF PageInv, Sourced
  <1> QED
    BY <1>2, <1>3, <1>5, <1>6 DEF PageInv

LEMMA SendStep ==
  ASSUME PageInv, NEW t \in Threads, Page!Send(t) PROVE PageInv'
  <1>1. /\ call[t].at = "asked" /\ lock = NoThread /\ call[t] \in Call
        /\ call \in [Threads -> Call]
        /\ UNCHANGED <<phase, result, wanted, shown, mainResponse, delivered>>
        /\ bytes \in 0 .. MaxBytes /\ resources \in 0 .. MaxResources
    BY DEF Page!Send, Page!Free, Page!browser, PageInv, PageTypes
  <1>2. \A u \in Threads : call[u].at # "sent"
    BY <1>1, PageConstants DEF PageInv, Sent
  <1>3. CASE call' = [call EXCEPT ![t].at = "refused"] /\ UNCHANGED Page!gate
    <2> DEFINE new == [call[t] EXCEPT !.at = "refused"]
    <2>1. /\ new \in Call /\ call' = [call EXCEPT ![t] = new]
          /\ new.at = "refused" /\ new.main = call[t].main
          /\ new.url = call[t].url
      BY <1>1, <1>3 DEF Call, Where
    <2>2. UNCHANGED <<lock, allowed, bytes, resources>>
      BY <1>3 DEF Page!gate
    <2> HIDE DEF new
    <2>3. Sent'
      BY <1>1, <1>2, <2>1 DEF Sent
    <2>4. lock' \in Threads \cup {NoThread}
      BY <1>1, <2>2
    <2> QED
      BY <1>1, <2>1, <2>2, <2>3, <2>4, CallMoves
  <1>4. CASE /\ ~Page!Exhausted
             /\ lock' = t /\ resources' = resources + 1
             /\ call' = [call EXCEPT ![t].at = "sent",
                                     ![t].size = MaxBytes - bytes]
             /\ UNCHANGED <<allowed, bytes>>
    <2> DEFINE new == [call[t] EXCEPT !.at = "sent", !.size = MaxBytes - bytes]
    <2>1. MaxBytes - bytes \in Nat
      BY <1>1, PageConstants
    <2>2. /\ new \in Call /\ call' = [call EXCEPT ![t] = new]
          /\ new.at = "sent" /\ new.main = call[t].main
          /\ new.url = call[t].url /\ new.size = MaxBytes - bytes
      BY <1>1, <1>4, <2>1 DEF Call, Where
    <2> HIDE DEF new
    <2>3. /\ call'[t] = new
          /\ \A u \in Threads \ {t} : call'[u] = call[u]
      BY <1>1, <2>2
    <2>4. bytes + (MaxBytes - bytes) <= MaxBytes
      BY <1>1, PageConstants
    <2>5. Sent'
      BY <1>2, <1>4, <2>2, <2>3, <2>4 DEF Sent
    <2>6. resources' \in 0 .. MaxResources
      BY <1>1, <1>4, PageConstants DEF Page!Exhausted
    <2> QED
      BY <1>1, <1>4, <2>2, <2>5, <2>6, CallMoves
  <1> QED
    BY <1>3, <1>4 DEF Page!Send

LEMMA FailStep ==
  ASSUME PageInv, NEW t \in Threads, Page!Fail(t) PROVE PageInv'
  <1> DEFINE new == [call[t] EXCEPT !.at = "refused"]
  <1>1. /\ call[t].at = "sent" /\ call[t] \in Call /\ call \in [Threads -> Call]
        /\ lock' = IF lock = t THEN NoThread ELSE lock
        /\ UNCHANGED <<phase, result, wanted, shown, mainResponse, delivered,
                       allowed, resources, bytes>>
        /\ lock \in Threads \cup {NoThread} /\ resources \in 0 .. MaxResources
    BY DEF Page!Fail, Page!Released, Page!browser, PageInv, PageTypes
  <1>2. /\ new \in Call /\ call' = [call EXCEPT ![t] = new]
        /\ new.at = "refused" /\ new.main = call[t].main
        /\ new.url = call[t].url
    BY <1>1 DEF Page!Fail, Call, Where
  <1> HIDE DEF new
  <1>3. call'[t] = new /\ \A u \in Threads \ {t} : call'[u] = call[u]
    BY <1>1, <1>2
  <1>4. lock = t
    BY <1>1 DEF PageInv, Sent
  <1>5. Sent'
    BY <1>1, <1>2, <1>3, <1>4 DEF PageInv, Sent
  <1> QED
    BY <1>1, <1>2, <1>5, CallMoves

LEMMA DismissStep ==
  ASSUME PageInv, NEW t \in Threads, Page!Abort(t) \/ Page!Drop(t)
  PROVE  PageInv'
  <1>1. /\ call[t].at \in {"answered", "refused"}
        /\ call' = [call EXCEPT ![t] = Page!Idle]
        /\ UNCHANGED <<phase, result, wanted, shown, mainResponse, delivered,
                       allowed, resources, bytes, lock>>
    BY DEF Page!Abort, Page!Drop, Page!browser, Page!gate
  <1>2. /\ Page!Idle \in Call /\ Page!Idle.at = "idle"
        /\ Page!Idle.main = FALSE
    BY DEF Page!Idle, Call, Where
  <1>3. /\ call'[t] = Page!Idle
        /\ \A u \in Threads \ {t} : call'[u] = call[u]
    BY <1>1 DEF PageInv, PageTypes
  <1>4. Sent'
    BY <1>1, <1>2, <1>3 DEF PageInv, Sent
  <1>5. lock' \in Threads \cup {NoThread} /\ resources' \in 0 .. MaxResources
    BY <1>1 DEF PageInv, PageTypes
  <1> QED
    BY <1>1, <1>2, <1>4, <1>5, CallMoves

(* What is received is counted next, above all that was counted before.    *)
LEMMA ReceiveStep ==
  ASSUME PageInv, NEW t \in Threads, NEW size \in Page!Sizes,
         NEW status \in Statuses \cup {"redirect"},
         NEW location \in Urls \cup {NoUrl}, NEW fit \in BOOLEAN,
         Page!Receive(t, size, status, location, fit)
  PROVE  PageInv'
  <1> DEFINE new == [call[t] EXCEPT
                       !.at = IF fit THEN "answered" ELSE "refused",
                       !.size = size, !.status = status, !.location = location]
  <1>1. /\ call[t].at = "sent" /\ size <= call[t].size
        /\ location # NoUrl <=> status = "redirect" /\ call[t].main /\ fit
        /\ bytes' = bytes + size
        /\ allowed' = IF call[t].main
                      THEN (allowed \ {call[t].url}) \cup ({location} \ {NoUrl})
                      ELSE allowed
        /\ lock' = IF lock = t THEN NoThread ELSE lock
        /\ UNCHANGED <<phase, result, wanted, shown, mainResponse, delivered,
                       resources>>
    BY DEF Page!Receive, Page!AllowedAfter, Page!Released, Page!browser
  <1>2. /\ call \in [Threads -> Call] /\ call[t] \in Call /\ size \in Nat
        /\ bytes \in 0 .. MaxBytes /\ MaxBytes \in Nat
        /\ lock = t /\ bytes + call[t].size <= MaxBytes /\ call[t].size \in Nat
        /\ lock \in Threads \cup {NoThread}
        /\ \A u \in Threads : call[u].main => call[u].url \in Urls
    BY <1>1, PageConstants DEF PageInv, PageTypes, Sent, Page!Sizes, Call
  <1>3. /\ new \in Call /\ call' = [call EXCEPT ![t] = new]
        /\ new.at \in {"answered", "refused"}
        /\ new.main = call[t].main /\ new.url = call[t].url
        /\ new.size = size /\ new.status = status /\ new.location = location
    BY <1>2 DEF Page!Receive, Call, Where
  <1> HIDE DEF new
  <1>4. /\ call' \in [Threads -> Call] /\ call'[t] = new
        /\ \A u \in Threads \ {t} : call'[u] = call[u]
    BY <1>2, <1>3
  <1>5. PageTypes'
    <2>1. bytes' \in 0 .. MaxBytes
      BY <1>1, <1>2
    <2>2. allowed' \subseteq Urls
      BY <1>1 DEF PageInv, PageTypes
    <2>3. lock' \in Threads \cup {NoThread}
      BY <1>1, <1>2
    <2>4. \A u \in Threads : call'[u].main => call'[u].url \in Urls
      BY <1>2, <1>3, <1>4
    <2> QED
      BY <1>1, <1>4, <2>1, <2>2, <2>3, <2>4 DEF PageInv, PageTypes
  <1>6. Sent'
    <2>1. \A u \in Threads \ {t} : call[u].at # "sent"
      BY <1>2 DEF PageInv, Sent
    <2> QED
      BY <1>3, <1>4, <2>1 DEF Sent
  <1>7. Delivery'
    <2>1. PICK D, B : B = [u \in Threads |-> B[u]] /\ Placed(D, B)
      BY DEF PageInv, Delivery
    <2>2. PICK next : next = bytes + 1 .. bytes + size
      OBVIOUS
    <2>3. PICK C : C = [u \in Threads |-> IF u = t THEN next ELSE B[u]]
      OBVIOUS
    <2>4. /\ next \subseteq 1 .. bytes + size
          /\ 1 .. bytes \subseteq 1 .. bytes + size
          /\ \A S : S \subseteq 1 .. bytes => S \cap next = {}
      BY <1>2, <2>2
    <2>5. Cardinality(next) = size
      <3>1. Cardinality(next) = IF bytes + 1 > bytes + size THEN 0
                                ELSE (bytes + size) - (bytes + 1) + 1
        BY <1>2, <2>2, FS_Interval
      <3> QED
        BY <1>2, <3>1
    <2>6. Placed(D, C)'
      <3>1. D \subseteq 1 .. bytes' /\ Cardinality(D) = delivered'
        BY <1>1, <2>1, <2>4 DEF Placed
      <3>2. ASSUME NEW u \in Threads, call'[u].at = "answered"
            PROVE  /\ C[u] \subseteq 1 .. bytes'
                   /\ Cardinality(C[u]) = call'[u].size
                   /\ C[u] \cap D = {}
        BY <1>1, <1>3, <1>4, <2>1, <2>4, <2>5, <2>3, <3>2 DEF Placed
      <3>3. ASSUME NEW u \in Threads, NEW v \in Threads \ {u},
                   call'[u].at = "answered", call'[v].at = "answered"
            PROVE  C[u] \cap C[v] = {}
        <4>1. \A w \in Threads \ {t} :
                call'[w].at = "answered" => B[w] \subseteq 1 .. bytes
          BY <1>4, <2>1 DEF Placed
        <4>2. CASE u # t /\ v # t
          BY <1>4, <2>1, <2>3, <3>3, <4>2 DEF Placed
        <4>3. CASE u = t
          BY <2>4, <2>3, <3>3, <4>1, <4>3
        <4>4. CASE v = t
          BY <2>4, <2>3, <3>3, <4>1, <4>4
        <4> QED
          BY <4>2, <4>3, <4>4
      <3> QED
        BY <3>1, <3>2, <3>3 DEF Placed
    <2>7. C = [u \in Threads |-> C[u]]
      BY <2>3
    <2> QED
      BY <2>6, <2>7 DEF Delivery
  <1>8. Navigation'
    <2>1. CASE ~call[t].main
      <3>1. \A u \in Threads : Navigating(u)' =>
              u # t /\ Navigating(u) /\ call'[u] = call[u]
        BY <1>3, <1>4, <2>1 DEF Navigating
      <3> QED
        BY <1>1, <2>1, <3>1 DEF PageInv, Navigation
    <2>2. CASE call[t].main
      <3>1. /\ Navigating(t) /\ shown = NoUrl
            /\ allowed \subseteq {call[t].url} /\ wanted = NoUrl
        BY <1>1, <2>2 DEF PageInv, Navigation, Navigating
      <3>2. \A u \in Threads \ {t} : ~Navigating(u) /\ ~Navigating(u)'
        BY <1>4, <3>1 DEF PageInv, Navigation, Navigating
      <3>3. allowed' \subseteq {location}
        BY <1>1, <2>2, <3>1
      <3>4. Navigating(t)' => call'[t].at = "answered" /\ fit
        BY <1>3, <1>4 DEF Navigating, new
      <3> QED
        BY <1>1, <1>3, <1>4, <2>2, <3>1, <3>2, <3>3, <3>4 DEF Navigation
    <2> QED
      BY <2>1, <2>2
  <1>9. Sourced'
    BY <1>1 DEF PageInv, Sourced
  <1> QED
    BY <1>5, <1>6, <1>7, <1>8, <1>9 DEF PageInv

(* The browser gets an answer: its bytes, and what it makes of a document. *)
LEMMA FulfillStep ==
  ASSUME PageInv, NEW t \in Threads, Page!Fulfill(t) PROVE PageInv'
  <1>1. /\ call[t].at = "answered"
        /\ call' = [call EXCEPT ![t] = Page!Idle]
        /\ delivered' = delivered + call[t].size
        /\ UNCHANGED <<phase, result, lock, allowed, resources, bytes>>
        /\ ~call[t].main => UNCHANGED <<mainResponse, wanted, shown>>
        /\ call[t].main =>
             /\ mainResponse' = [url |-> call[t].url,
                                 status |-> call[t].status]
             /\ wanted' = call[t].location
             /\ shown' = IF call[t].status = "redirect" THEN shown
                         ELSE call[t].url
    BY DEF Page!Fulfill, Page!gate
  <1>2. /\ call \in [Threads -> Call] /\ call[t] \in Call
        /\ delivered \in Nat /\ call[t].size \in Nat
        /\ call[t].status \in Status /\ call[t].location \in Address
        /\ call[t].main => call[t].url \in Urls
    BY DEF PageInv, PageTypes, Call, Status, Address
  <1>3. /\ Page!Idle \in Call /\ Page!Idle.at = "idle"
        /\ Page!Idle.main = FALSE
    BY DEF Page!Idle, Call, Where
  <1>4. /\ call' \in [Threads -> Call] /\ call'[t] = Page!Idle
        /\ \A u \in Threads \ {t} : call'[u] = call[u]
    BY <1>1, <1>2, <1>3
  <1>5. PageTypes'
    <2>1. /\ wanted' \in Address /\ shown' \in Address
          /\ mainResponse' \in [url : Address, status : Status]
      BY <1>1, <1>2 DEF PageInv, PageTypes, Address
    <2>2. \A u \in Threads : call'[u].main => call'[u].url \in Urls
      BY <1>3, <1>4 DEF PageInv, PageTypes
    <2> QED
      BY <1>1, <1>2, <1>4, <2>1, <2>2 DEF PageInv, PageTypes
  <1>6. Sent'
    BY <1>1, <1>3, <1>4 DEF PageInv, Sent
  <1>7. Delivery'
    <2>1. PICK D, B : B = [u \in Threads |-> B[u]] /\ Placed(D, B)
      BY DEF PageInv, Delivery
    <2>2. /\ D \subseteq 1 .. bytes /\ B[t] \subseteq 1 .. bytes
          /\ Cardinality(D) = delivered /\ Cardinality(B[t]) = call[t].size
          /\ B[t] \cap D = {}
      BY <1>1, <2>1 DEF Placed
    <2>3. IsFiniteSet(D) /\ IsFiniteSet(B[t])
      <3>1. 1 \in Int /\ bytes \in Int
        BY DEF PageInv, PageTypes
      <3>2. IsFiniteSet(1 .. bytes)
        BY <3>1, FS_Interval, Zenon
      <3> QED
        BY <2>2, <3>2, FS_Subset
    <2>4. Cardinality(D \cup B[t]) = delivered + call[t].size
      <3>1. Cardinality(D \cup B[t])
              = Cardinality(D) + Cardinality(B[t]) - Cardinality(D \cap B[t])
        BY <2>3, FS_Union
      <3>2. D \cap B[t] = {}
        BY <2>2
      <3>3. Cardinality(D \cap B[t]) = 0
        BY <3>2, FS_EmptySet
      <3>4. \A x, y, z \in Nat : z = 0 => x + y - z = x + y
        OBVIOUS
      <3> QED
        BY <1>2, <2>2, <3>1, <3>3, <3>4
    <2>5. Placed(D \cup B[t], B)'
      <3>1. ASSUME NEW u \in Threads, call'[u].at = "answered"
            PROVE  /\ B[u] \subseteq 1 .. bytes
                   /\ Cardinality(B[u]) = call'[u].size
                   /\ B[u] \cap (D \cup B[t]) = {}
                   /\ \A v \in Threads \ {u} :
                        call'[v].at = "answered" => B[u] \cap B[v] = {}
        <4>1. u # t /\ call'[u] = call[u]
          BY <1>3, <1>4, <3>1
        <4>2. \A v \in Threads : call'[v].at = "answered" => call[v].at = "answered"
          BY <1>1, <1>3, <1>4
        <4> QED
          BY <1>1, <2>1, <3>1, <4>1, <4>2 DEF Placed
      <3> QED
        BY <1>1, <2>2, <2>4, <3>1 DEF Placed
    <2> QED
      BY <2>1, <2>5 DEF Delivery
  <1>8. Navigation'
    <2>1. \A u \in Threads : Navigating(u)' =>
            u # t /\ Navigating(u) /\ call'[u] = call[u]
      BY <1>3, <1>4 DEF Navigating
    <2>2. CASE ~call[t].main
      BY <1>1, <2>1, <2>2 DEF PageInv, Navigation
    <2>3. CASE call[t].main
      <3>1. /\ Navigating(t) /\ shown = NoUrl
            /\ allowed \subseteq {call[t].location}
            /\ call[t].status = "redirect" <=> call[t].location # NoUrl
        BY <1>1, <2>3 DEF PageInv, Navigation, Navigating
      <3>2. \A u \in Threads : ~Navigating(u)'
        BY <2>1, <3>1 DEF PageInv, Navigation
      <3>3. CASE call[t].status = "redirect"
        BY <1>1, <2>3, <3>1, <3>2, <3>3 DEF Navigation
      <3>4. CASE call[t].status # "redirect"
        <4>1. allowed = {}
          BY <3>1, <3>4, PageConstants DEF PageInv, PageTypes
        <4> QED
          BY <1>1, <2>3, <3>1, <3>2, <3>4, <4>1 DEF Navigation
      <3> QED
        BY <3>3, <3>4
    <2> QED
      BY <2>2, <2>3
  <1>9. Sourced'
    <2>1. phase = "loaded" => shown' = shown
      BY <1>1 DEF PageInv, Sourced, Navigation, Navigating
    <2> QED
      BY <1>1, <2>1 DEF PageInv, Sourced
  <1> QED
    BY <1>5, <1>6, <1>7, <1>8, <1>9 DEF PageInv

(* What render does itself.                                                *)
LEMMA RenderStep ==
  ASSUME PageInv, Page!Loaded \/ Page!ContentRead \/ Page!Ends
  PROVE  PageInv'
  <1>1. /\ UNCHANGED <<call, lock, allowed, resources, bytes, wanted, shown,
                       mainResponse, delivered>>
        /\ phase' \in {"loading", "loaded", "rendered", "mapped", "failed",
                       "returned", "raised"}
    BY DEF Page!Loaded, Page!ContentRead, Page!Ends, Page!GiveUp, Page!Map,
           Page!Close, Page!End, Page!gate, Page!browser
  <1>2. Sent' /\ Navigation'
    BY <1>1 DEF PageInv, Sent, Navigation, Navigating
  <1>3. Delivery'
    BY <1>1, DeliveryKept DEF PageInv
  <1>4. /\ result \in [final : Address, source : Address, status : Status]
        /\ mainResponse \in [url : Address, status : Status]
        /\ shown \in Address
    BY DEF PageInv, PageTypes
  <1>5. CASE Page!Loaded
    <2>1. result' \in [final : Address, source : Address, status : Status]
      BY <1>4, <1>5 DEF Page!Loaded
    <2>2. Sourced'
      BY <1>1, <1>4, <1>5 DEF Page!Loaded, Page!End, Sourced
    <2> QED
      BY <1>1, <1>2, <1>3, <2>1, <2>2 DEF PageInv, PageTypes
  <1>6. CASE Page!ContentRead
    <2>1. /\ phase = "loaded" /\ phase' = "rendered"
          /\ result' = [result EXCEPT !.source = mainResponse.url,
                                      !.status = mainResponse.status]
      BY <1>6 DEF Page!ContentRead, Page!End
    <2>2. result' \in [final : Address, source : Address, status : Status]
      BY <1>4, <2>1
    <2>3. result.final = mainResponse.url
      BY <2>1 DEF PageInv, Sourced, Navigation
    <2>4. Sourced'
      BY <1>4, <2>1, <2>3 DEF Sourced
    <2> QED
      BY <1>1, <1>2, <1>3, <2>2, <2>4 DEF PageInv, PageTypes
  <1>7. CASE Page!Ends
    <2>1. result' = result
      BY <1>7 DEF Page!Ends, Page!GiveUp, Page!Map, Page!Close
    <2>2. Sourced'
      BY <1>7, <2>1 DEF Page!Ends, Page!GiveUp, Page!Map, Page!Close, Page!End,
                        PageInv, Sourced
    <2> QED
      BY <1>1, <1>2, <1>3, <1>4, <2>1, <2>2 DEF PageInv, PageTypes
  <1> QED
    BY <1>5, <1>6, <1>7

LEMMA PageStep ==
  ASSUME PageInv, Page!Next PROVE PageInv'
  <1>1. ASSUME NEW t \in Threads, Page!Gate(t) PROVE PageInv'
    <2>1. CASE Page!Send(t) \/ Page!Fail(t)
      BY <2>1, SendStep, FailStep
    <2>2. ASSUME NEW size \in Page!Sizes,
                 NEW status \in Statuses \cup {"redirect"},
                 NEW location \in Urls \cup {NoUrl}, NEW fit \in BOOLEAN,
                 Page!Receive(t, size, status, location, fit)
          PROVE  PageInv'
      BY <2>2, ReceiveStep
    <2> QED
      BY <1>1, <2>1, <2>2 DEF Page!Gate
  <1>2. ASSUME NEW t \in Threads,
               Page!Navigate(t) \/ Page!PageAsks(t) \/ Page!Answer(t)
        PROVE  PageInv'
    BY <1>2, NavigateStep, PageAsksStep, DismissStep, FulfillStep
    DEF Page!Answer
  <1> QED
    BY <1>1, <1>2, RenderStep DEF Page!Next

LEMMA PageUnchanged == ASSUME PageInv, UNCHANGED pageVars PROVE PageInv'
  <1>1. UNCHANGED <<phase, wanted, shown, call, lock, allowed, resources,
                    bytes, result, mainResponse, delivered>>
    BY DEF pageVars
  <1>2. Delivery'
    BY <1>1, DeliveryKept DEF PageInv
  <1> QED
    BY <1>1, <1>2 DEF PageInv, PageTypes, Sent, Navigation, Navigating, Sourced

-----------------------------------------------------------------------------
(* What an origin really asks for.                                         *)
Rightful(o) == IF robots[o] = Missing THEN Browser!NoPolicy
               ELSE Browser!PolicyOf(robots[o])

BrowserTypes ==
  /\ stage \in {"loading", "robots", "judging", "due", "sent",
                "returned", "raised"}
  /\ asked \in [origin : Origins, path : Paths] \cup {Browser!Unasked}
  /\ stage \in {"robots", "judging", "due", "sent"} => asked.origin \in Origins
  /\ hops \in 0 .. MaxHops
  /\ origins \in [Origins -> [known : BOOLEAN, policy : Browser!Policy(Paths),
                              age : Browser!Times]]
  /\ since \in [Origins -> Browser!Times]
  /\ robots \in [Origins -> Published \cup {Missing}]
  /\ session \in 0 .. MaxSession /\ received \in 0 .. MaxSession
  /\ refused \in BOOLEAN /\ checked \in BOOLEAN

Informed ==
  ~Browser!Ended =>
    /\ received = session
    /\ \A o \in Origins :
         IF origins[o].known
         THEN origins[o].policy = Rightful(o) /\ origins[o].age <= since[o]
         ELSE since[o] = Browser!Never
    /\ stage = "robots" => ~origins[asked.origin].known
    /\ stage \in {"judging", "due", "sent"} => origins[asked.origin].known
    /\ stage = "due" =>
         /\ Browser!Permits(Rightful(asked.origin), asked.path)
         /\ Rightful(asked.origin).interval <= since[asked.origin]

BrowserInv == BrowserTypes /\ Informed

LEMMA BrowserConstants ==
  /\ MaxHops \in Nat /\ MaxResponse \in Nat /\ MaxSession \in Nat
  /\ Patience \in Nat /\ 1 <= MaxResponse /\ MaxResponse <= MaxSession
  /\ NoOrigin \notin Origins
  /\ Browser!Never = Patience + 1 /\ Browser!Times = 0 .. Patience + 1
  BY RetrievalAssumption DEF Browser!Parameters, Browser!Never, Browser!Times

(* A policy is one that the model knows, and can be kept within Patience.  *)
LEMMA PoliciesFit ==
  /\ Browser!NoPolicy \in Browser!Policy(Paths)
  /\ \A file \in Published :
       /\ Browser!PolicyOf(file) \in Browser!Policy(Paths)
       /\ Browser!PolicyOf(file).interval \in 0 .. Patience
  <1>1. ASSUME NEW file \in Published
        PROVE  /\ Browser!PolicyOf(file).rules \subseteq Browser!Rule(Paths)
               /\ Browser!PolicyOf(file).interval \in 0 .. Patience
    <2>1. file \in Seq(Browser!Group(Paths))
      BY RetrievalAssumption DEF Browser!Parameters
    <2>2. Browser!Applying(file) \subseteq DOMAIN file
      BY DEF Browser!Applying
    <2>3. \A i \in DOMAIN file : file[i].rules \subseteq Browser!Rule(Paths)
      <3>1. \A i \in DOMAIN file : file[i] \in Browser!Group(Paths)
        BY <2>1
      <3> QED
        BY <3>1 DEF Browser!Group
    <2>4. Browser!PolicyOf(file).rules
            = UNION {file[i].rules : i \in Browser!Applying(file)}
      BY DEF Browser!PolicyOf
    <2>5. Browser!PolicyOf(file).interval \in 0 .. Patience
      BY RetrievalAssumption DEF Browser!Parameters
    <2> QED
      BY <2>2, <2>3, <2>4, <2>5
  <1>2. \A file \in Published :
          Browser!PolicyOf(file)
            = [rules |-> Browser!PolicyOf(file).rules,
               interval |-> Browser!PolicyOf(file).interval]
    BY DEF Browser!PolicyOf
  <1>3. Patience \in Nat
    BY BrowserConstants
  <1> QED
    BY <1>1, <1>2, <1>3 DEF Browser!Policy, Browser!NoPolicy

(* Of rules without escapes the code sees the meaning, and if it permits a *)
(* path then a longest rule about it allows: no rule that is longer than   *)
(* all that allow forbids it.                                              *)
LEMMA PermittedIsNotForbidden ==
  ASSUME NEW policy \in Browser!Policy(Paths), NEW path,
         Browser!WrittenPlainly(policy), Browser!Permits(policy, path)
  PROVE  ~Browser!Forbids(policy, path)
  <1> DEFINE matches == Browser!Matching(policy, path)
  <1>1. \A rule \in policy.rules : rule.path \in Seq(Browser!Segment)
    BY RetrievalAssumption DEF Browser!Parameters, Browser!Policy, Browser!Rule
  <1>2. ASSUME NEW rule \in policy.rules
        PROVE  Browser!Unquoted(rule.path) = rule.path
    <2> DEFINE p == rule.path
    <2>1. p \in Seq(Browser!Segment) /\ \A i \in DOMAIN p : p[i].escapes = 0
      BY <1>1 DEF Browser!WrittenPlainly
    <2> HIDE DEF p
    <2>2. p = [i \in DOMAIN p |-> p[i]]
      BY <2>1
    <2>3. \A i \in DOMAIN p : p[i] \in Browser!Segment
      BY <2>1
    <2>4. \A i \in DOMAIN p : [p[i] EXCEPT !.escapes = 0] = p[i]
      BY <2>1, <2>3 DEF Browser!Segment
    <2>5. \A i \in DOMAIN p :
            [p[i] EXCEPT !.escapes = IF @ = 0 THEN 0 ELSE @ - 1] = p[i]
      BY <2>1, <2>4
    <2>6. Browser!Unquoted(p) = p
      BY <2>2, <2>5 DEF Browser!Unquoted
    <2> QED
      BY <2>6 DEF p
  <1>3. \A rule \in policy.rules :
          Browser!Concerns(rule, path) <=> rule \in matches
    BY <1>2 DEF Browser!Concerns, Browser!Matching, Browser!Target
  <1>4. SUFFICES ASSUME NEW rule \in policy.rules, rule \in matches,
                        \A other \in policy.rules :
                          other.allow /\ other \in matches
                            => Len(other.path) < Len(rule.path)
                 PROVE  FALSE
    BY <1>3 DEF Browser!Forbids
  <1>5. PICK other \in matches :
          /\ other.allow /\ Len(rule.path) <= Len(other.path)
    BY <1>4 DEF Browser!Permits
  <1>6. other \in policy.rules
    BY DEF Browser!Matching
  <1>7. Len(other.path) < Len(rule.path)
    BY <1>4, <1>5, <1>6
  <1>8. Len(rule.path) \in Nat /\ Len(other.path) \in Nat
    BY <1>1, <1>6
  <1> QED
    BY <1>5, <1>7, <1>8

LEMMA RightfulFits ==
  ASSUME BrowserTypes, NEW o \in Origins
  PROVE  /\ Rightful(o) \in Browser!Policy(Paths)
         /\ Rightful(o).interval \in 0 .. Patience
  <1>1. robots[o] \in Published \cup {Missing}
    BY DEF BrowserTypes
  <1>2. Browser!NoPolicy.interval = 0 /\ Patience \in Nat
    BY BrowserConstants DEF Browser!NoPolicy
  <1> QED
    BY <1>1, <1>2, PoliciesFit DEF Rightful

LEMMA BrowserStarts == Browser!Init => BrowserInv
  <1> SUFFICES ASSUME Browser!Init PROVE BrowserInv
    OBVIOUS
  <1>1. /\ stage = "loading" /\ asked = Browser!Unasked /\ hops = 0
        /\ origins = [o \in Origins |-> Browser!Unknown]
        /\ session = 0 /\ refused = FALSE /\ checked = FALSE
        /\ robots \in [Origins -> Published \cup {Missing}]
        /\ since = [o \in Origins |-> Browser!Never]
        /\ received = 0
    BY DEF Browser!Init
  <1>2. Browser!Never \in Browser!Times /\ 0 \in 0 .. MaxHops
        /\ 0 \in 0 .. MaxSession
    BY BrowserConstants
  <1>3. Browser!Unknown \in [known : BOOLEAN, policy : Browser!Policy(Paths),
                             age : Browser!Times]
    BY <1>2, PoliciesFit DEF Browser!Unknown
  <1>4. BrowserTypes
    BY <1>1, <1>2, <1>3 DEF BrowserTypes
  <1>5. Browser!Unknown.known = FALSE
    BY DEF Browser!Unknown
  <1>6. Informed
    BY <1>1, <1>5 DEF Informed
  <1> QED
    BY <1>4, <1>6 DEF BrowserInv

(* Time that passes does so everywhere.                                    *)
LEMMA TimePasses ==
  ASSUME BrowserInv, NEW time \in Nat, Browser!Pass(time)
  PROVE  /\ origins' \in [Origins -> [known : BOOLEAN,
                                      policy : Browser!Policy(Paths),
                                      age : Browser!Times]]
         /\ since' \in [Origins -> Browser!Times]
         /\ \A o \in Origins :
              /\ origins'[o].known = origins[o].known
              /\ origins'[o].policy = origins[o].policy
              /\ origins'[o].age = Browser!Aged(origins[o].age, time)
              /\ since'[o] = Browser!Aged(since[o], time)
              /\ origins[o].age <= since[o] => origins'[o].age <= since'[o]
              /\ since[o] = Browser!Never => since'[o] = Browser!Never
  <1>1. \A age \in Browser!Times : Browser!Aged(age, time) \in Browser!Times
    BY BrowserConstants DEF Browser!Aged
  <1>2. \A a, b \in Browser!Times :
          a <= b => Browser!Aged(a, time) <= Browser!Aged(b, time)
    BY BrowserConstants DEF Browser!Aged
  <1>3. /\ origins \in [Origins -> [known : BOOLEAN,
                                    policy : Browser!Policy(Paths),
                                    age : Browser!Times]]
        /\ since \in [Origins -> Browser!Times]
    BY DEF BrowserInv, BrowserTypes
  <1>4. /\ origins' = [o \in Origins |->
              [origins[o] EXCEPT !.age = Browser!Aged(origins[o].age, time)]]
        /\ since' = [o \in Origins |-> Browser!Aged(since[o], time)]
    BY DEF Browser!Pass
  <1>5. Browser!Aged(Browser!Never, time) = Browser!Never
    BY DEF Browser!Aged
  <1> QED
    BY <1>1, <1>2, <1>3, <1>4, <1>5

(* A body that is consumed fits what is left of the session.               *)
LEMMA ConsumeKeeps ==
  ASSUME BrowserInv, ~Browser!Ended, NEW size \in Browser!Sizes,
         Browser!Consume(size)
  PROVE  /\ session' \in 0 .. MaxSession /\ received' \in 0 .. MaxSession
         /\ received' = session'
  <1>1. /\ session < MaxSession /\ size <= Browser!Budget
        /\ session' = session + size /\ received' = received + size
    BY DEF Browser!Consume, Browser!Consumed
  <1>2. /\ session \in 0 .. MaxSession /\ received = session
        /\ size \in 0 .. MaxResponse
    BY DEF BrowserInv, BrowserTypes, Informed, Browser!Sizes
  <1>3. Browser!Budget <= MaxSession - session
    BY <1>2, BrowserConstants DEF Browser!Budget
  <1>4. Browser!Budget \in Int
    BY <1>2, BrowserConstants DEF Browser!Budget
  <1> QED
    BY <1>1, <1>2, <1>3, <1>4, BrowserConstants

(* A request is refused; what is known of the origins stays.               *)
LEMMA RefuseKeeps ==
  ASSUME BrowserInv, ~Browser!Ended, Browser!Refuse,
         UNCHANGED <<origins, since, checked, robots>>,
         session' \in 0 .. MaxSession, received' = session'
  PROVE  BrowserInv'
  <1>1. /\ stage' = "loading" /\ asked' = Browser!Unasked /\ hops' = 0
        /\ refused' = TRUE
    BY DEF Browser!Refuse
  <1>2. BrowserTypes'
    BY <1>1, BrowserConstants DEF BrowserInv, BrowserTypes
  <1>3. Informed'
    BY <1>1 DEF BrowserInv, Informed, Rightful
  <1> QED
    BY <1>2, <1>3 DEF BrowserInv

LEMMA BrowserAskStep ==
  ASSUME BrowserInv, NEW o \in Origins, NEW path \in Paths, NEW fit,
         Browser!Ask(o, path, fit)
  PROVE  BrowserInv'
  <1>1. /\ stage = "loading" /\ ~Browser!Ended
        /\ UNCHANGED <<origins, session, checked, robots, since, received>>
    BY DEF Browser!Ask, Browser!Ended
  <1>2. session' \in 0 .. MaxSession /\ received' = session'
    BY <1>1 DEF BrowserInv, BrowserTypes, Informed
  <1>3. CASE Browser!Refuse
    BY <1>1, <1>2, <1>3, RefuseKeeps
  <1>4. CASE /\ stage' = IF Browser!Known(o) THEN "judging" ELSE "robots"
             /\ asked' = [origin |-> o, path |-> path]
             /\ UNCHANGED <<hops, refused>>
    <2>1. BrowserTypes'
      BY <1>1, <1>4 DEF BrowserInv, BrowserTypes
    <2>2. Informed'
      BY <1>1, <1>4 DEF BrowserInv, Informed, Rightful, Browser!Known
    <2> QED
      BY <2>1, <2>2 DEF BrowserInv
  <1> QED
    BY <1>3, <1>4 DEF Browser!Ask

LEMMA RobotsStep ==
  ASSUME BrowserInv, NEW size \in Browser!Sizes,
         \/ Browser!RobotsFail \/ Browser!RobotsRefused(size)
         \/ Browser!RobotsRedirect(size) \/ Browser!RobotsAnswer(size)
  PROVE  BrowserInv'
  <1>1. stage = "robots" /\ ~Browser!Ended /\ asked.origin \in Origins
    BY DEF Browser!RobotsFail, Browser!RobotsRefused, Browser!RobotsRedirect,
           Browser!RobotsAnswer, Browser!Ended, BrowserInv, BrowserTypes
  <1>2. CASE Browser!RobotsFail
    <2>1. session' \in 0 .. MaxSession /\ received' = session'
      BY <1>1, <1>2 DEF Browser!RobotsFail, BrowserInv, BrowserTypes, Informed
    <2> QED
      BY <1>1, <1>2, <2>1, RefuseKeeps DEF Browser!RobotsFail
  <1>3. CASE Browser!RobotsRefused(size)
    <2>1. session' \in 0 .. MaxSession /\ received' = session'
      BY <1>1, <1>3, ConsumeKeeps DEF Browser!RobotsRefused
    <2> QED
      BY <1>1, <1>3, <2>1, RefuseKeeps DEF Browser!RobotsRefused
  <1>4. CASE Browser!RobotsRedirect(size)
    <2>1. /\ session' \in 0 .. MaxSession /\ received' \in 0 .. MaxSession
          /\ received' = session'
      BY <1>1, <1>4, ConsumeKeeps DEF Browser!RobotsRedirect
    <2>2. UNCHANGED <<origins, checked, robots, since>>
      BY <1>4 DEF Browser!RobotsRedirect
    <2>3. CASE Browser!Refuse
      BY <1>1, <2>1, <2>2, <2>3, RefuseKeeps
    <2>4. CASE /\ hops # MaxHops /\ hops' = hops + 1
               /\ UNCHANGED <<stage, asked, refused>>
      <3>1. hops' \in 0 .. MaxHops
        BY <2>4, BrowserConstants DEF BrowserInv, BrowserTypes
      <3>2. BrowserTypes'
        BY <2>1, <2>2, <2>4, <3>1 DEF BrowserInv, BrowserTypes
      <3>3. Informed'
        BY <1>1, <2>1, <2>2, <2>4 DEF BrowserInv, Informed, Rightful
      <3> QED
        BY <3>2, <3>3 DEF BrowserInv
    <2> QED
      BY <1>4, <2>3, <2>4 DEF Browser!RobotsRedirect, Browser!LastHop
  <1>5. CASE Browser!RobotsAnswer(size)
    <2> DEFINE o == asked.origin
               state == [known |-> TRUE, policy |-> Rightful(o),
                         age |-> Browser!Never]
    <2>1. /\ session' \in 0 .. MaxSession /\ received' \in 0 .. MaxSession
          /\ received' = session'
      BY <1>1, <1>5, ConsumeKeeps DEF Browser!RobotsAnswer
    <2>2. /\ stage' = "judging" /\ hops' = 0
          /\ origins' = [origins EXCEPT ![o] = state]
          /\ UNCHANGED <<asked, refused, checked, robots, since>>
      BY <1>5 DEF Browser!RobotsAnswer, Rightful
    <2>3. state \in [known : BOOLEAN, policy : Browser!Policy(Paths),
                     age : Browser!Times]
      BY <1>1, BrowserConstants, RightfulFits DEF BrowserInv
    <2>4. since[o] = Browser!Never
      BY <1>1 DEF BrowserInv, Informed
    <2>5. /\ origins \in [Origins -> [known : BOOLEAN,
                                      policy : Browser!Policy(Paths),
                                      age : Browser!Times]]
          /\ since[o] \in Nat
      BY <2>4, BrowserConstants DEF BrowserInv, BrowserTypes
    <2>6. /\ origins'[o] = state
          /\ \A p \in Origins \ {o} : origins'[p] = origins[p]
          /\ origins' \in [Origins -> [known : BOOLEAN,
                                       policy : Browser!Policy(Paths),
                                       age : Browser!Times]]
      BY <1>1, <2>2, <2>3, <2>5
    <2>7. state.known /\ state.policy = Rightful(o) /\ state.age = since[o]
      BY <2>4
    <2> HIDE DEF state
    <2>8. BrowserTypes'
      BY <1>1, <2>1, <2>2, <2>6, BrowserConstants DEF BrowserInv, BrowserTypes
    <2>9. \A p \in Origins : (Rightful(p))' = Rightful(p)
      BY <2>2 DEF Rightful
    <2>10. \A p \in Origins :
             IF origins'[p].known
             THEN origins'[p].policy = Rightful(p) /\ origins'[p].age <= since'[p]
             ELSE since'[p] = Browser!Never
      <3>1. since' = since
        BY <2>2
      <3>2. origins'[o].age <= since'[o]
        BY <2>5, <2>6, <2>7, <3>1
      <3>3. \A p \in Origins \ {o} :
             IF origins[p].known
             THEN origins[p].policy = Rightful(p) /\ origins[p].age <= since[p]
             ELSE since[p] = Browser!Never
        BY <1>1 DEF BrowserInv, Informed
      <3> QED
        BY <2>6, <2>7, <3>1, <3>2, <3>3
    <2>11. Informed'
      BY <1>1, <2>1, <2>2, <2>6, <2>7, <2>9, <2>10 DEF Informed
    <2> QED
      BY <2>8, <2>11 DEF BrowserInv
  <1> QED
    BY <1>2, <1>3, <1>4, <1>5

(* A request that is permitted is due when its origin's interval is over.  *)
LEMMA JudgeStep == ASSUME BrowserInv, Browser!Judge PROVE BrowserInv'
  <1> DEFINE o == asked.origin
             state == origins[asked.origin]
  <1>1. /\ stage = "judging" /\ ~Browser!Ended /\ o \in Origins
        /\ state.known /\ state.policy = Rightful(o) /\ state.age <= since[o]
        /\ UNCHANGED <<session, checked, robots, received>>
    BY DEF Browser!Judge, Browser!Ended, BrowserInv, BrowserTypes, Informed
  <1>2. session' \in 0 .. MaxSession /\ received' = session'
    BY <1>1 DEF BrowserInv, BrowserTypes, Informed
  <1>3. CASE Browser!Refuse /\ UNCHANGED <<origins, since>>
    BY <1>1, <1>2, <1>3, RefuseKeeps
  <1>4. CASE /\ Browser!Permits(state.policy, asked.path)
             /\ stage' = "due" /\ Browser!Pass(Browser!Remaining(state))
             /\ UNCHANGED <<asked, hops, refused>>
    <2> DEFINE time == Browser!Remaining(state)
    <2>1. /\ state.age \in 0 .. Patience + 1 /\ since[o] \in 0 .. Patience + 1
          /\ state.policy.interval \in 0 .. Patience
      BY <1>1, RightfulFits, BrowserConstants DEF BrowserInv, BrowserTypes
    <2>2. time \in Nat
      BY <2>1, BrowserConstants DEF Browser!Remaining
    <2>3. state.policy.interval <= Browser!Aged(state.age, time)
      BY <2>1, BrowserConstants DEF Browser!Remaining, Browser!Aged
    <2> HIDE DEF time
    <2>4. Browser!Pass(time)
      BY <1>4 DEF time
    <2>5. /\ origins' \in [Origins -> [known : BOOLEAN,
                                      policy : Browser!Policy(Paths),
                                      age : Browser!Times]]
          /\ since' \in [Origins -> Browser!Times]
          /\ \A p \in Origins :
               /\ origins'[p].known = origins[p].known
               /\ origins'[p].policy = origins[p].policy
               /\ origins[p].age <= since[p] => origins'[p].age <= since'[p]
               /\ since[p] = Browser!Never => since'[p] = Browser!Never
          /\ origins'[o].age = Browser!Aged(state.age, time)
      BY <1>1, <2>2, <2>4, TimePasses
    <2>6. state.policy.interval <= since'[o]
      <3>1. origins'[o].age <= since'[o]
        BY <1>1, <2>5
      <3>2. origins'[o].age \in Nat /\ since'[o] \in Nat
        BY <1>1, <2>5, BrowserConstants
      <3> QED
        BY <2>1, <2>3, <2>5, <3>1, <3>2
    <2>7. BrowserTypes'
      BY <1>1, <1>4, <2>5 DEF BrowserInv, BrowserTypes
    <2>8. \A p \in Origins : (Rightful(p))' = Rightful(p)
      BY <1>1 DEF Rightful
    <2>9. \A p \in Origins :
            IF origins'[p].known
            THEN origins'[p].policy = Rightful(p) /\ origins'[p].age <= since'[p]
            ELSE since'[p] = Browser!Never
      BY <1>1, <2>5 DEF BrowserInv, Informed
    <2>10. Informed'
      BY <1>1, <1>2, <1>4, <2>5, <2>6, <2>8, <2>9 DEF Informed
    <2> QED
      BY <2>7, <2>10 DEF BrowserInv
  <1> QED
    BY <1>3, <1>4 DEF Browser!Judge

LEMMA BrowserSendStep == ASSUME BrowserInv, Browser!Send PROVE BrowserInv'
  <1> DEFINE o == asked.origin
  <1>1. /\ stage = "due" /\ ~Browser!Ended /\ o \in Origins
        /\ origins' = [origins EXCEPT ![o].age = 0]
        /\ UNCHANGED <<session, checked, robots, received>>
    BY DEF Browser!Send, Browser!Ended, BrowserInv, BrowserTypes
  <1>2. /\ origins' \in [Origins -> [known : BOOLEAN,
                                     policy : Browser!Policy(Paths),
                                     age : Browser!Times]]
        /\ origins'[o].age = 0
        /\ \A p \in Origins : /\ origins'[p].known = origins[p].known
                              /\ origins'[p].policy = origins[p].policy
        /\ \A p \in Origins \ {o} : origins'[p] = origins[p]
    <2>1. /\ origins \in [Origins -> [known : BOOLEAN,
                                      policy : Browser!Policy(Paths),
                                      age : Browser!Times]]
          /\ 0 \in Browser!Times
      BY BrowserConstants DEF BrowserInv, BrowserTypes
    <2> QED
      BY <1>1, <2>1
  <1>3. /\ since \in [Origins -> Browser!Times] /\ 0 \in Browser!Times
        /\ \A age \in Browser!Times : 0 <= age
    BY BrowserConstants DEF BrowserInv, BrowserTypes
  <1>4. /\ since' \in [Origins -> Browser!Times]
        /\ \A p \in Origins \ {o} : since'[p] = since[p]
        /\ stage' \in {"loading", "sent"} /\ hops' \in 0 .. MaxHops
        /\ stage' = "loading" => asked' = Browser!Unasked
        /\ stage' = "sent" => asked' = asked
        /\ refused' \in BOOLEAN
    <2>1. CASE Browser!Refuse /\ UNCHANGED since
      BY <1>3, <2>1, BrowserConstants DEF Browser!Refuse
    <2>2. CASE /\ stage' = "sent" /\ since' = [since EXCEPT ![o] = 0]
               /\ UNCHANGED <<asked, hops, refused>>
      BY <1>3, <2>2 DEF BrowserInv, BrowserTypes
    <2> QED
      BY <2>1, <2>2 DEF Browser!Send
  <1>5. BrowserTypes'
    BY <1>1, <1>2, <1>4 DEF BrowserInv, BrowserTypes
  <1>6. \A p \in Origins : (Rightful(p))' = Rightful(p)
    BY <1>1 DEF Rightful
  <1>7. \A p \in Origins :
          IF origins'[p].known
          THEN origins'[p].policy = Rightful(p) /\ origins'[p].age <= since'[p]
          ELSE since'[p] = Browser!Never
    <2>1. origins[o].known /\ origins'[o].age <= since'[o]
      BY <1>1, <1>2, <1>3, <1>4 DEF BrowserInv, Informed
    <2> QED
      BY <1>1, <1>2, <1>4, <2>1 DEF BrowserInv, Informed
  <1>8. received' = session'
    BY <1>1 DEF BrowserInv, Informed
  <1>9. stage' = "sent" => origins'[asked'.origin].known
    BY <1>1, <1>2, <1>4 DEF BrowserInv, Informed
  <1>10. Informed'
    BY <1>4, <1>6, <1>7, <1>8, <1>9 DEF Informed
  <1> QED
    BY <1>5, <1>10 DEF BrowserInv

(* The answer comes, after some time, and is refused or accepted.          *)
LEMMA BrowserAnswerStep ==
  ASSUME BrowserInv, NEW time \in {0, 1}, NEW size \in Browser!Sizes,
         Browser!Reject(time) \/ Browser!Accept(size, time)
  PROVE  BrowserInv'
  <1>1. /\ stage = "sent" /\ ~Browser!Ended /\ Browser!Pass(time)
        /\ UNCHANGED <<checked, robots>>
    BY DEF Browser!Reject, Browser!Accept, Browser!Ended
  <1>2. /\ stage' = "loading" /\ asked' = Browser!Unasked
        /\ hops' \in 0 .. MaxHops /\ refused' \in BOOLEAN
    <2>1. hops \in 0 .. MaxHops /\ refused \in BOOLEAN /\ 0 \in 0 .. MaxHops
      BY BrowserConstants DEF BrowserInv, BrowserTypes
    <2> QED
      BY <2>1 DEF Browser!Reject, Browser!Accept, Browser!Refuse
  <1>3. /\ session' \in 0 .. MaxSession /\ received' \in 0 .. MaxSession
        /\ received' = session'
    <2>1. CASE Browser!Reject(time)
      BY <1>1, <2>1 DEF Browser!Reject, BrowserInv, BrowserTypes, Informed
    <2>2. CASE Browser!Accept(size, time)
      BY <1>1, <2>2, ConsumeKeeps DEF Browser!Accept
    <2> QED
      BY <2>1, <2>2
  <1>4. /\ origins' \in [Origins -> [known : BOOLEAN,
                                     policy : Browser!Policy(Paths),
                                     age : Browser!Times]]
        /\ since' \in [Origins -> Browser!Times]
        /\ \A p \in Origins :
             /\ origins'[p].known = origins[p].known
             /\ origins'[p].policy = origins[p].policy
             /\ origins[p].age <= since[p] => origins'[p].age <= since'[p]
             /\ since[p] = Browser!Never => since'[p] = Browser!Never
    BY <1>1, TimePasses
  <1>5. BrowserTypes'
    BY <1>1, <1>2, <1>3, <1>4 DEF BrowserInv, BrowserTypes
  <1>6. \A p \in Origins : (Rightful(p))' = Rightful(p)
    BY <1>1 DEF Rightful
  <1>7. \A p \in Origins :
          IF origins'[p].known
          THEN origins'[p].policy = Rightful(p) /\ origins'[p].age <= since'[p]
          ELSE since'[p] = Browser!Never
    BY <1>1, <1>4 DEF BrowserInv, Informed
  <1>8. Informed'
    BY <1>2, <1>3, <1>6, <1>7 DEF Informed
  <1> QED
    BY <1>5, <1>8 DEF BrowserInv

(* What fetch does itself.                                                 *)
LEMMA FetchStep ==
  ASSUME BrowserInv, Browser!Check \/ Browser!Finish PROVE BrowserInv'
  <1>1. CASE Browser!Check
    <2>1. /\ checked' = TRUE
          /\ UNCHANGED <<stage, asked, hops, origins, session, refused,
                         robots, since, received>>
      BY <1>1 DEF Browser!Check
    <2> QED
      BY <2>1 DEF BrowserInv, BrowserTypes, Informed, Browser!Ended, Rightful
  <1>2. CASE Browser!Finish
    <2>1. /\ stage' \in {"returned", "raised"}
          /\ origins' = [o \in Origins |-> Browser!Unknown] /\ session' = 0
          /\ UNCHANGED <<asked, hops, refused, checked, robots, since, received>>
      BY <1>2 DEF Browser!Finish
    <2>2. Browser!Unknown \in [known : BOOLEAN, policy : Browser!Policy(Paths),
                               age : Browser!Times]
      BY BrowserConstants, PoliciesFit DEF Browser!Unknown
    <2>3. BrowserTypes'
      BY <2>1, <2>2, BrowserConstants DEF BrowserInv, BrowserTypes
    <2>4. Informed'
      BY <2>1 DEF Informed, Browser!Ended
    <2> QED
      BY <2>3, <2>4 DEF BrowserInv
  <1> QED
    BY <1>1, <1>2

LEMMA BrowserStep == ASSUME BrowserInv, Browser!Next PROVE BrowserInv'
  <1>0. 0 \in Browser!Sizes
    BY BrowserConstants DEF Browser!Sizes
  <1>1. ASSUME NEW o \in Origins, NEW path \in Paths, NEW fit \in BOOLEAN,
               Browser!Ask(o, path, fit)
        PROVE  BrowserInv'
    BY <1>1, BrowserAskStep
  <1>2. CASE Browser!Handle
    <2>1. CASE Browser!RobotsFail
      BY <1>0, <2>1, RobotsStep
    <2>2. ASSUME NEW size \in Browser!Sizes,
                 \/ Browser!RobotsRefused(size) \/ Browser!RobotsRedirect(size)
                 \/ Browser!RobotsAnswer(size)
          PROVE  BrowserInv'
      BY <2>2, RobotsStep
    <2>3. ASSUME NEW time \in {0, 1}, Browser!Reject(time)
          PROVE  BrowserInv'
      BY <1>0, <2>3, BrowserAnswerStep
    <2>4. ASSUME NEW time \in {0, 1}, NEW size \in Browser!Sizes,
                 Browser!Accept(size, time)
          PROVE  BrowserInv'
      BY <2>4, BrowserAnswerStep
    <2> QED
      BY <1>2, <2>1, <2>2, <2>3, <2>4, JudgeStep, BrowserSendStep
      DEF Browser!Handle
  <1> QED
    BY <1>1, <1>2, FetchStep DEF Browser!Next

LEMMA BrowserUnchanged ==
  ASSUME BrowserInv, UNCHANGED browserVars PROVE BrowserInv'
  BY DEF browserVars, BrowserInv, BrowserTypes, Informed, Browser!Ended,
         Rightful

-----------------------------------------------------------------------------
RetrievalInv ==
  /\ way \in {"crawl", "http", "browser", "done"}
  /\ enabled \in BOOLEAN /\ redirects \in 0 .. MaxRedirects
  /\ PageInv /\ BrowserInv

LEMMA RetrievalStep ==
  ASSUME RetrievalInv, [Next]_vars PROVE RetrievalInv'
  <1>0. MaxRedirects \in Nat
    BY RetrievalAssumption
  <1>1. CASE UNCHANGED <<enabled, redirects, pageVars, browserVars>>
             /\ way' \in {"crawl", "http", "browser", "done"}
    BY <1>1, PageUnchanged, BrowserUnchanged DEF RetrievalInv
  <1>2. CASE Http
    <2>1. CASE \E next \in {"browser", "done"} : Go(next)
      BY <1>1, <2>1 DEF Go
    <2>2. CASE /\ redirects # MaxRedirects /\ redirects' = redirects + 1
               /\ UNCHANGED <<way, enabled, pageVars, browserVars>>
      BY <1>0, <2>2, PageUnchanged, BrowserUnchanged DEF RetrievalInv
    <2> QED
      BY <1>2, <2>1, <2>2
      DEF Http, HttpRedirect, HttpEligible, HttpEnd, LastRedirect
  <1>3. CASE Crawling(Page!Next)
    BY <1>3, PageStep, BrowserUnchanged DEF Crawling, RetrievalInv
  <1>4. CASE Browsing(Browser!Next)
    BY <1>4, BrowserStep, PageUnchanged DEF Browsing, RetrievalInv
  <1>5. CASE Finish
    BY <1>1, <1>5 DEF Finish, Go
  <1>6. CASE UNCHANGED vars
    BY <1>1, <1>6 DEF vars, RetrievalInv
  <1> QED
    BY <1>2, <1>3, <1>4, <1>5, <1>6 DEF Next

LEMMA RetrievalInvariance == Spec => []RetrievalInv
  <1>1. Init => RetrievalInv
    <2> SUFFICES ASSUME Init PROVE RetrievalInv
      OBVIOUS
    <2>1. PageInv /\ BrowserInv
      BY PageStarts, BrowserStarts DEF Init
    <2>2. redirects \in 0 .. MaxRedirects
      BY RetrievalAssumption DEF Init
    <2>3. way \in {"crawl", "http", "browser", "done"} /\ enabled \in BOOLEAN
      BY DEF Init
    <2> QED
      BY <2>1, <2>2, <2>3 DEF RetrievalInv
  <1>2. RetrievalInv /\ [Next]_vars => RetrievalInv'
    BY RetrievalStep
  <1> QED
    BY <1>1, <1>2, PTL DEF Spec

-----------------------------------------------------------------------------
(* Types of both ways, and every counter within its limit.                 *)
THEOREM TypeCorrect == Spec => []TypeOK
  <1>1. RetrievalInv => TypeOK
    <2> SUFFICES ASSUME RetrievalInv PROVE TypeOK
      OBVIOUS
    <2>1. Page!TypeOK
      BY DEF RetrievalInv, PageInv, PageTypes, Page!TypeOK, Address, Call, Where
    <2>2. Browser!TypeOK
      BY DEF RetrievalInv, BrowserInv, BrowserTypes, Browser!TypeOK
    <2> QED
      BY <2>1, <2>2 DEF RetrievalInv, TypeOK
  <1> QED
    BY <1>1, RetrievalInvariance, PTL

(* Whatever threads ask at the same time: one of them is in the transport, *)
(* no more requests are sent and no more bytes are delivered than may be;  *)
(* and a browser session accepts no more than it may.                      *)
THEOREM Bounded == Spec => []Metered
  <1>1. RetrievalInv => Metered
    <2> SUFFICES ASSUME RetrievalInv PROVE Metered
      OBVIOUS
    <2>1. delivered <= bytes
      <3>1. PICK D : D \subseteq 1 .. bytes /\ Cardinality(D) = delivered
        BY DEF RetrievalInv, PageInv, Delivery, Placed
      <3>2. bytes \in Nat /\ IsFiniteSet(1 .. bytes)
            /\ Cardinality(1 .. bytes) = bytes
        BY FS_Interval DEF RetrievalInv, PageInv, PageTypes
      <3> QED
        BY <3>1, <3>2, FS_Subset
    <2>2. \A t, u \in Threads :
            call[t].at = "sent" /\ call[u].at = "sent" => t = u
      BY DEF RetrievalInv, PageInv, Sent
    <2>3. /\ resources <= MaxResources /\ bytes <= MaxBytes
          /\ received <= MaxSession
      BY DEF RetrievalInv, PageInv, PageTypes, BrowserInv, BrowserTypes
    <2>4. Page!Metered
      BY <2>1, <2>2, <2>3 DEF Page!Metered
    <2> QED
      BY <2>3, <2>4 DEF Metered, Browser!Metered
  <1> QED
    BY <1>1, RetrievalInvariance, PTL

(* The document that the selected URL led to stays, and a result is of it, *)
(* whatever the page requests and however the requests are interleaved.    *)
THEOREM OneDocumentOnly == Spec => OneDocument
  <1>1. ASSUME RetrievalInv, [Next]_vars
        PROVE  /\ shown # NoUrl => shown' = shown /\ mainResponse' = mainResponse
               /\ phase' = "returned" => /\ result.final = result.source
                                         /\ result.status = "ok"
    <2> SUFFICES ASSUME PageInv, Page!Next \/ UNCHANGED pageVars
                 PROVE  /\ shown # NoUrl =>
                             shown' = shown /\ mainResponse' = mainResponse
                        /\ phase' = "returned" =>
                             /\ result.final = result.source
                             /\ result.status = "ok"
      BY <1>1 DEF RetrievalInv, Next, vars, Http, HttpRedirect, HttpEligible,
                  HttpEnd, Go, Crawling, Browsing, Finish
    <2>1. CASE UNCHANGED pageVars
      BY <2>1 DEF pageVars, PageInv, Sourced
    <2>2. CASE Page!Next
      <3>1. shown # NoUrl => wanted = NoUrl /\ \A t \in Threads : ~Navigating(t)
        BY DEF PageInv, Navigation
      <3>2. ASSUME shown # NoUrl
            PROVE  shown' = shown /\ mainResponse' = mainResponse
        <4>1. ASSUME NEW t \in Threads, Page!Gate(t) \/ Page!PageAsks(t)
              PROVE  UNCHANGED <<shown, mainResponse>>
          BY <4>1 DEF Page!Gate, Page!Send, Page!Fail, Page!Receive,
                      Page!PageAsks, Page!browser
        <4>2. ASSUME NEW t \in Threads, Page!Answer(t) \/ Page!Navigate(t)
              PROVE  UNCHANGED <<shown, mainResponse>>
          BY <3>1, <3>2, <4>2 DEF Page!Answer, Page!Abort, Page!Drop,
             Page!Fulfill, Page!Navigate, Page!browser, Navigating
        <4>3. ASSUME Page!Loaded \/ Page!ContentRead \/ Page!Ends
              PROVE  UNCHANGED <<shown, mainResponse>>
          BY <4>3 DEF Page!Loaded, Page!ContentRead, Page!Ends, Page!GiveUp,
                      Page!Map, Page!Close, Page!End, Page!browser
        <4> QED
          BY <2>2, <4>1, <4>2, <4>3 DEF Page!Next
      <3>3. ASSUME phase' = "returned"
            PROVE  phase \in {"mapped", "returned"}
        <4>1. ASSUME NEW t \in Threads, \/ Page!Gate(t) \/ Page!PageAsks(t)
                                        \/ Page!Answer(t) \/ Page!Navigate(t)
              PROVE  phase' = phase
          BY <4>1 DEF Page!Gate, Page!Send, Page!Fail, Page!Receive,
             Page!PageAsks, Page!Answer, Page!Abort, Page!Drop, Page!Fulfill,
             Page!Navigate, Page!Ask
        <4>2. ASSUME Page!Loaded \/ Page!ContentRead \/ Page!Ends
              PROVE  phase = "mapped"
          BY <3>3, <4>2 DEF Page!Loaded, Page!ContentRead, Page!Ends,
             Page!GiveUp, Page!Map, Page!Close, Page!End
        <4> QED
          BY <2>2, <3>3, <4>1, <4>2 DEF Page!Next
      <3> QED
        BY <3>2, <3>3 DEF PageInv, Sourced
    <2> QED
      BY <2>1, <2>2
  <1>2. RetrievalInv /\ [Next]_vars =>
          [/\ shown # NoUrl => shown' = shown /\ mainResponse' = mainResponse
           /\ phase' = "returned" => /\ result.final = result.source
                                     /\ result.status = "ok"]_(Page!vars)
    BY <1>1
  <1> QED
    BY <1>2, RetrievalInvariance, PTL DEF Spec, OneDocument, Page!OneDocument

(* A page's request is not sent to what its origin's robots.txt forbids in *)
(* rules without escapes, nor before the interval of that file has passed  *)
(* since the page's last request there.                                    *)
THEOREM RobotsKept == Spec => Courteous
  <1> DEFINE Kept == LET o == asked.origin
                         policy == Browser!PolicyOf(robots[o])
                     IN robots[o] # Missing =>
                          /\ Browser!WrittenPlainly(policy)
                               => ~Browser!Forbids(policy, asked.path)
                          /\ since[o] >= policy.interval
  <1>1. ASSUME RetrievalInv, [Next]_vars, stage # "sent", stage' = "sent"
        PROVE  Kept
    <2>1. Browser!Next
      BY <1>1 DEF Next, vars, Http, HttpRedirect, HttpEligible, HttpEnd, Go,
                  Crawling, Browsing, Finish, browserVars
    <2>2. stage = "due"
      <3>1. ASSUME NEW o \in Origins, NEW path, NEW fit, Browser!Ask(o, path, fit)
            PROVE  FALSE
        BY <1>1, <3>1 DEF Browser!Ask, Browser!Refuse
      <3>2. ~Browser!Check /\ ~Browser!Finish
        BY <1>1 DEF Browser!Check, Browser!Finish
      <3>3. CASE Browser!Handle
        BY <1>1, <3>3 DEF Browser!Handle, Browser!RobotsFail, Browser!Judge,
           Browser!Send, Browser!RobotsRefused, Browser!RobotsRedirect,
           Browser!RobotsAnswer, Browser!Reject, Browser!Accept, Browser!Refuse
      <3> QED
        BY <2>1, <3>1, <3>2, <3>3 DEF Browser!Next
    <2>3. BrowserTypes /\ Informed
      BY <1>1 DEF RetrievalInv, BrowserInv
    <2>4. asked.origin \in Origins
      BY <2>2, <2>3 DEF BrowserTypes
    <2>5. /\ Browser!Permits(Rightful(asked.origin), asked.path)
          /\ Rightful(asked.origin).interval <= since[asked.origin]
      BY <2>2, <2>3 DEF Informed, Browser!Ended
    <2>6. Rightful(asked.origin).interval \in 0 .. Patience /\ Patience \in Nat
      BY <2>3, <2>4, RightfulFits, BrowserConstants
    <2>7. since[asked.origin] \in Nat
      BY <2>3, <2>4, BrowserConstants DEF BrowserTypes
    <2>8. Browser!WrittenPlainly(Rightful(asked.origin))
            => ~Browser!Forbids(Rightful(asked.origin), asked.path)
      BY <2>3, <2>4, <2>5, RightfulFits, PermittedIsNotForbidden
    <2> QED
      BY <2>5, <2>6, <2>7, <2>8 DEF Rightful
  <1> HIDE DEF Kept
  <1>2. RetrievalInv /\ [Next]_vars
          => [stage # "sent" /\ stage' = "sent" => Kept]_(Browser!vars)
    BY <1>1
  <1>3. Spec => [][stage # "sent" /\ stage' = "sent" => Kept]_(Browser!vars)
    BY <1>2, RetrievalInvariance, PTL DEF Spec
  <1> QED
    BY <1>3 DEF Courteous, Browser!Courteous, Kept
=============================================================================
