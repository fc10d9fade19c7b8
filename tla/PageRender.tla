----------------------------- MODULE PageRender -----------------------------
(***************************************************************************)
(* Crawl4AIAdapter.render of research/crawl4ai_adapter.py: one selected    *)
(* page is taken from Crawl4AI's cache, or loaded by a browser all of      *)
(* whose requests pass the render's NetworkGate.  The browser issues       *)
(* requests concurrently; for each, handle_route runs NetworkGate.handle   *)
(* in a thread and then, back in the event loop, aborts or fulfills the    *)
(* request.  A thread is not stopped when the render times out.            *)
(*                                                                         *)
(* The browser is external: it starts with a navigation to the selected    *)
(* URL, follows redirects, and once a document is shown, that document     *)
(* requests resources and tries to navigate as it likes.                   *)
(*                                                                         *)
(* A body is its size; what a page's text makes _map_result accept or      *)
(* refuse is nondeterministic.  Requests that are aborted without an error *)
(* (images, fonts, media) change nothing and are left out, and so is what  *)
(* comes before the cache and the browser: the URL is canonical, the       *)
(* version is the pinned one.                                              *)
(***************************************************************************)
EXTENDS Naturals

CONSTANTS Threads,       \* requests that are in flight at a time
          Urls,          \* of documents
          Selected,      \* the source's canonical URL
          Resource,      \* stands for the URL of any subresource
          NoUrl, NoThread,
          Statuses,      \* that are no redirect: "ok" is 2xx
          MaxResources,  \* max_resources
          MaxBytes       \* max_response_bytes

Parameters ==
  /\ Selected \in Urls /\ Resource \notin Urls /\ NoUrl \notin Urls
  /\ NoThread \notin Threads /\ "ok" \in Statuses /\ "redirect" \notin Statuses
  /\ {MaxResources, MaxBytes} \subseteq Nat \ {0}

VARIABLES phase,         \* of render
          wanted,        \* navigation that the browser itself has to start
          shown,         \* page.url: the document that the browser shows
          call,          \* per thread: a request and how far it is
          lock,          \* _lock: the thread that holds it
          allowed,       \* _allowed_main_navigations
          resources,     \* _resources
          bytes,         \* _bytes
          routeErrors,   \* there are route_errors
          mainResponse,  \* main_response
          result,        \* what render has got so far
          delivered      \* bytes the browser was given (observed)

gate == <<lock, allowed, resources, bytes>>
browser == <<wanted, shown, mainResponse, delivered>>
vars == <<phase, call, routeErrors, result, gate, browser>>

None == [url |-> NoUrl, status |-> "none"]

(* The states of a call: "asked" has passed the checks before the lock,    *)
(* "sent" is in the transport with the lock held, "answered" and "refused" *)
(* wait for the event loop.                                                *)
Idle == [at |-> "idle", url |-> NoUrl, main |-> FALSE,
         size |-> 0, status |-> "none", location |-> NoUrl]

Init ==
  /\ \E cached \in BOOLEAN :
       /\ phase = IF cached THEN "rendered" ELSE "loading"
       /\ result = IF cached THEN [final |-> Selected, source |-> Selected,
                                   status |-> "ok"]
                   ELSE [final |-> NoUrl, source |-> NoUrl, status |-> "none"]
  /\ wanted = Selected /\ shown = NoUrl
  /\ call = [t \in Threads |-> Idle]
  /\ lock = NoThread /\ allowed = {Selected}
  /\ resources = 0 /\ bytes = 0
  /\ routeErrors = FALSE /\ mainResponse = None
  /\ delivered = 0

(* Requests are served while the browser's context is open.                *)
Open == phase \in {"loading", "loaded"}

-----------------------------------------------------------------------------
(* NetworkGate.handle before the lock: method and upload, main navigation, *)
(* destination.                                                            *)
Permitted(url, main, fit) == fit /\ (main => url \in allowed)

Ask(t, url, main) ==
  /\ Open /\ call[t].at = "idle"
  /\ \E fit \in BOOLEAN :
       call' = [call EXCEPT ![t] =
                 [Idle EXCEPT !.url = url, !.main = main,
                              !.at = IF Permitted(url, main, fit)
                                     THEN "asked" ELSE "refused"]]
  /\ UNCHANGED <<phase, routeErrors, result, gate>>

(* page.goto, or the browser following a redirect.                         *)
Navigate(t) ==
  /\ wanted # NoUrl
  /\ Ask(t, wanted, TRUE)
  /\ wanted' = NoUrl
  /\ UNCHANGED <<shown, mainResponse, delivered>>

(* What the shown document does.                                           *)
PageAsks(t) ==
  /\ shown # NoUrl
  /\ \/ Ask(t, Resource, FALSE)
     \/ \E url \in Urls : Ask(t, url, TRUE)
  /\ UNCHANGED browser

Exhausted == resources >= MaxResources \/ bytes >= MaxBytes

(* Mutant: the limits are checked before the lock is taken.                *)
FreeAlways == TRUE

Free == lock = NoThread

(* The thread takes the lock; the limits are checked before the transport. *)
Send(t) ==
  /\ call[t].at = "asked" /\ Free
  /\ \/ /\ Exhausted
        /\ call' = [call EXCEPT ![t].at = "refused"]
        /\ UNCHANGED gate
     \/ /\ ~Exhausted
        /\ lock' = t
        /\ resources' = resources + 1
        /\ call' = [call EXCEPT ![t].at = "sent",
                                ![t].size = MaxBytes - bytes]
        /\ UNCHANGED <<allowed, bytes>>
  /\ UNCHANGED <<phase, routeErrors, result, browser>>

(* Mutant: the lock is not released on every way out.                      *)
StillHeld(t) == UNCHANGED lock

Released(t) == lock' = IF lock = t THEN NoThread ELSE lock

(* The transport failed, or the body was beyond the remaining bytes.       *)
Fail(t) ==
  /\ call[t].at = "sent"
  /\ Released(t)
  /\ call' = [call EXCEPT ![t].at = "refused"]
  /\ UNCHANGED <<phase, routeErrors, result, browser,
                 allowed, resources, bytes>>

(* Mutant: a navigation stays allowed after its document was received.     *)
AllowedStill(url, location) == allowed \cup ({location} \ {NoUrl})

(* The navigations that are allowed after a main document was received: a  *)
(* navigation once, and then its redirect.                                 *)
AllowedAfter(url, location) ==
  (allowed \ {url}) \cup ({location} \ {NoUrl})

(* A response: a main redirect needs a safe Location, a success an allowed *)
(* type; both are counted and used up before they are refused.             *)
Receive(t, size, status, location, fit) ==
  /\ call[t].at = "sent" /\ size <= call[t].size
  /\ location # NoUrl <=> status = "redirect" /\ call[t].main /\ fit
  /\ ~fit => status = "ok" \/ (status = "redirect" /\ call[t].main)
  /\ bytes' = bytes + size
  /\ allowed' = IF call[t].main THEN AllowedAfter(call[t].url, location)
                ELSE allowed
  /\ Released(t)
  /\ call' = [call EXCEPT ![t].at = IF fit THEN "answered" ELSE "refused",
                          ![t].size = size, ![t].status = status,
                          ![t].location = location]
  /\ UNCHANGED <<phase, routeErrors, result, browser, resources>>

-----------------------------------------------------------------------------
(* handle_route, back in the event loop.  After the render has ended, what *)
(* a thread brings is dropped.                                             *)
Abort(t) ==
  /\ call[t].at = "refused" /\ Open
  /\ call' = [call EXCEPT ![t] = Idle]
  /\ routeErrors' = TRUE
  /\ UNCHANGED <<phase, result, gate, browser>>

Fulfill(t) ==
  /\ call[t].at = "answered" /\ Open
  /\ call' = [call EXCEPT ![t] = Idle]
  /\ delivered' = delivered + call[t].size
  /\ \/ /\ ~call[t].main
        /\ UNCHANGED <<mainResponse, wanted, shown>>
     \/ /\ call[t].main
        /\ mainResponse' = [url |-> call[t].url, status |-> call[t].status]
        /\ wanted' = call[t].location
        /\ shown' = IF call[t].status = "redirect" THEN shown
                    ELSE call[t].url
  /\ UNCHANGED <<phase, routeErrors, result, gate>>

Drop(t) ==
  /\ call[t].at \in {"answered", "refused"} /\ ~Open
  /\ call' = [call EXCEPT ![t] = Idle]
  /\ UNCHANGED <<phase, routeErrors, result, gate, browser>>

End(how) == phase' = how /\ UNCHANGED <<call, routeErrors, gate, browser>>

(* goto returned: route errors first, then page.url is read ...            *)
Loaded ==
  /\ phase = "loading" /\ shown # NoUrl
  /\ \/ routeErrors /\ End("failed") /\ UNCHANGED result
     \/ /\ ~routeErrors /\ End("loaded")
        /\ result' = [result EXCEPT !.final = shown]

(* ... and after the content is awaited, the response it came with.        *)
ContentRead ==
  /\ phase = "loaded" /\ End("rendered")
  /\ result' = [result EXCEPT !.source = mainResponse.url,
                              !.status = mainResponse.status]

(* goto raised: its document was aborted, or page_timeout; or wait_for     *)
(* gave up on all of it.                                                   *)
GiveUp == phase \in {"loading", "loaded"} /\ End("failed") /\ UNCHANGED result

(* _map_result.                                                            *)
Map ==
  /\ phase = "rendered"
  /\ \/ result.status = "ok" /\ End("mapped")
     \/ End("failed")
  /\ UNCHANGED result

(* The runner is closed whatever happened; a failure to do so costs the    *)
(* result.                                                                 *)
Close ==
  /\ phase \in {"mapped", "failed"}
  /\ \/ phase = "mapped" /\ End("returned")
     \/ End("raised")
  /\ UNCHANGED result

Sizes == 0 .. MaxBytes

Gate(t) ==
  \/ Send(t) \/ Fail(t)
  \/ \E size \in Sizes, status \in Statuses \cup {"redirect"},
        location \in Urls \cup {NoUrl}, fit \in BOOLEAN :
       Receive(t, size, status, location, fit)

Answer(t) == Abort(t) \/ Fulfill(t) \/ Drop(t)

Ends == GiveUp \/ Map \/ Close

Next == \/ \E t \in Threads :
             Navigate(t) \/ PageAsks(t) \/ Gate(t) \/ Answer(t)
        \/ Loaded \/ ContentRead \/ Ends

(* Threads are scheduled, the transport has a timeout, and so have goto    *)
(* and wait_for.                                                           *)
Fairness == /\ WF_vars(Ends)
            /\ \A t \in Threads : WF_vars(Gate(t)) /\ WF_vars(Answer(t))

Spec == Init /\ [][Next]_vars /\ Fairness

-----------------------------------------------------------------------------
Ended == phase \in {"returned", "raised"}

TypeOK ==
  /\ phase \in {"loading", "loaded", "rendered", "mapped", "failed",
                "returned", "raised"}
  /\ wanted \in Urls \cup {NoUrl} /\ shown \in Urls \cup {NoUrl}
  /\ \A t \in Threads : call[t].at \in {"idle", "asked", "sent",
                                        "answered", "refused"}
  /\ lock \in Threads \cup {NoThread}
  /\ allowed \subseteq Urls
  /\ resources \in 0 .. MaxResources /\ bytes \in 0 .. MaxBytes

(* class NetworkGate: whatever threads ask at the same time, no more than  *)
(* max_resources requests are sent, one after the other, and the browser   *)
(* gets no more than the max_response_bytes that are accounted for.        *)
Metered ==
  /\ resources <= MaxResources
  /\ delivered <= bytes /\ bytes <= MaxBytes
  /\ \A t, u \in Threads : call[t].at = "sent" /\ call[u].at = "sent" => t = u

(* "page-initiated main-frame navigation is not allowed": the document     *)
(* that the selected URL led to is never replaced, and the address, the    *)
(* status and the content of a result are that one document's, although    *)
(* they are read at different moments.                                     *)
OneDocument ==
  [][/\ shown # NoUrl => shown' = shown /\ mainResponse' = mainResponse
     /\ phase' = "returned" => /\ result.final = result.source
                               /\ result.status = "ok"]_vars
=============================================================================
