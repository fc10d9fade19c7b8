----------------------------- MODULE Retrieval ------------------------------
(***************************************************************************)
(* The two ways in which a page is retrieved.  The discovery run renders a *)
(* selected source with Crawl4AI (PageRender).  The curator retrieves a    *)
(* page with fetch_with_controlled_browser: bounded HTTP first             *)
(* (fetch_public_metadata of research/fetching.py), and the controlled     *)
(* browser (ControlledBrowser) when it is enabled and the failure, or what *)
(* the page turned out to be, makes it eligible.  One retrieval is made    *)
(* with fresh state; the ways share none.                                  *)
(***************************************************************************)
EXTENDS Naturals

CONSTANTS MaxRedirects,    \* of fetch_public_metadata
          Threads, Urls, Selected, Resource, NoUrl, NoThread, Statuses,
          MaxResources, MaxBytes,
          Origins, Paths, Published, Missing, NoOrigin,
          MaxHops, MaxResponse, MaxSession, Patience

VARIABLES way,         \* by which the page is being retrieved
          enabled,     \* the browser may be used
          redirects,   \* redirect_count
          phase, wanted, shown, call, lock, allowed, resources, bytes,
          routeErrors, mainResponse, result, delivered,
          stage, asked, hops, origins, session, refused, checked, robots,
          since, received

Page == INSTANCE PageRender
Browser == INSTANCE ControlledBrowser

ASSUME RetrievalAssumption ==
  MaxRedirects \in Nat /\ Page!Parameters /\ Browser!Parameters

pageVars == <<phase, wanted, shown, call, lock, allowed, resources, bytes,
              routeErrors, mainResponse, result, delivered>>
browserVars == <<stage, asked, hops, origins, session, refused, checked,
                 robots, since, received>>
vars == <<way, enabled, redirects, pageVars, browserVars>>

(* What a way does not use has one initial value there.                    *)
Init ==
  /\ redirects = 0 /\ Page!Init /\ Browser!Init
  /\ \/ /\ way = "crawl" /\ enabled = FALSE
        /\ \A o \in Origins : robots[o] = Missing
     \/ way = "http" /\ enabled \in BOOLEAN /\ phase = "loading"

-----------------------------------------------------------------------------
Go(next) ==
  /\ way' = next
  /\ UNCHANGED <<enabled, redirects, pageVars, browserVars>>

LastRedirect == redirects = MaxRedirects

(* Every hop is resolved anew.  A redirect has a Location and is not the   *)
(* last one allowed, or else it is a failure that is not eligible.         *)
HttpRedirect ==
  /\ way = "http"
  /\ \/ LastRedirect /\ Go("done")
     \/ /\ ~LastRedirect
        /\ redirects' = redirects + 1
        /\ UNCHANGED <<way, enabled, pageVars, browserVars>>

(* A connection or request failure, HTTP 403 or 406, an incomplete shell.  *)
HttpEligible == way = "http" /\ Go(IF enabled THEN "browser" ELSE "done")

(* A complete page, or any other failure.                                  *)
HttpEnd == way = "http" /\ Go("done")

Http == HttpRedirect \/ HttpEligible \/ HttpEnd

Crawling(action) ==
  /\ way = "crawl" /\ action
  /\ UNCHANGED <<way, enabled, redirects, browserVars>>

Browsing(action) ==
  /\ way = "browser" /\ action
  /\ UNCHANGED <<way, enabled, redirects, pageVars>>

Finish ==
  /\ \/ way = "crawl" /\ Page!Ended /\ \A t \in Threads : call[t].at = "idle"
     \/ way = "browser" /\ Browser!Ended
  /\ Go("done")

Next == Http \/ Crawling(Page!Next) \/ Browsing(Browser!Next) \/ Finish

Fairness ==
  /\ WF_vars(HttpEligible \/ HttpEnd) /\ WF_vars(Finish)
  /\ WF_vars(Crawling(Page!Ends))
  /\ \A t \in Threads : /\ WF_vars(Crawling(Page!Gate(t)))
                        /\ WF_vars(Crawling(Page!Answer(t)))
  /\ WF_vars(Browsing(Browser!Handle)) /\ SF_vars(Browsing(Browser!Finish))

Spec == Init /\ [][Next]_vars /\ Fairness

-----------------------------------------------------------------------------
TypeOK == /\ way \in {"crawl", "http", "browser", "done"}
          /\ enabled \in BOOLEAN /\ redirects \in 0 .. MaxRedirects
          /\ Page!TypeOK /\ Browser!TypeOK

(* NetworkGate and ControlledBrowser: no retrieval, by either way, sends   *)
(* more requests or accepts more bytes than it may, whatever is asked at   *)
(* the same time.                                                          *)
Metered == Page!Metered /\ Browser!Metered

(* A rendered result is that of the one document the selected URL led to.  *)
OneDocument == Page!OneDocument

(* The controlled browser's page requests keep to the robots.txt of their  *)
(* origin: to the rules that are written without escapes, and to its delay.*)
Courteous == Browser!Courteous

(* Every retrieval ends: redirects are bounded everywhere, and no thread   *)
(* is left waiting for the gate's lock, after a timeout either.            *)
RetrievalEnds == <>(way = "done")
=============================================================================
