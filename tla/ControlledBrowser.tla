------------------------- MODULE ControlledBrowser --------------------------
(***************************************************************************)
(* ControlledBrowser.fetch of research/controlled_browser.py: one page is  *)
(* rendered by a synchronous browser, each of whose requests is handled to *)
(* its end before the next: the origin's robots.txt first, its delay, then *)
(* the request, all within the session's bytes.                            *)
(*                                                                         *)
(* The browser and the servers are external: the page requests what it     *)
(* likes from any origin, and goes on when a request was refused.  A body  *)
(* is its size, and time is what has passed since a request, up to         *)
(* Patience, a bound that is no smaller than any delay.                    *)
(***************************************************************************)
EXTENDS Robots

CONSTANTS Origins,
          Paths,
          Published,       \* robots files an origin may publish
          Missing,         \* the origin has none: HTTP 404 or 410
          NoOrigin,
          MaxHops,         \* redirects of a robots.txt
          MaxResponse,     \* max_response_bytes
          MaxSession,      \* max_session_bytes
          Patience         \* bound: times are counted up to this one

Parameters ==
  /\ Paths \subseteq Seq(Segment)
  /\ Published \subseteq Seq(Group(Paths)) /\ Missing \notin Published
  /\ NoOrigin \notin Origins
  /\ {MaxHops, MaxResponse, MaxSession, Patience} \subseteq Nat
  /\ 1 <= MaxResponse /\ MaxResponse <= MaxSession
  /\ \A file \in Published : PolicyOf(file).interval \in 0 .. Patience

VARIABLES stage,      \* of fetch and of the request it handles
          asked,      \* the request: its origin and path
          hops,       \* redirect_count
          origins,    \* _origins: policy and time since last_request_at
          session,    \* _session_bytes
          refused,    \* there are route_errors
          checked,    \* goto has returned, without route errors
          robots,     \* what the origins publish
          since,      \* time since a page's request there (observed)
          received    \* bytes of all accepted bodies (observed)

vars == <<stage, asked, hops, origins, session, refused, checked, robots,
          since, received>>

Never == Patience + 1
Times == 0 .. Never
Unknown == [known |-> FALSE, policy |-> NoPolicy, age |-> Never]
Unasked == [origin |-> NoOrigin, path |-> <<>>]

(* fetch starts with no origins and a full budget.                         *)
Init ==
  /\ stage = "loading" /\ asked = Unasked /\ hops = 0
  /\ origins = [o \in Origins |-> Unknown]
  /\ session = 0 /\ refused = FALSE /\ checked = FALSE
  /\ robots \in [Origins -> Published \cup {Missing}]
  /\ since = [o \in Origins |-> Never]
  /\ received = 0

(* Time t after something that was age ago.                                *)
Aged(age, t) == IF age = Never THEN Never
                ELSE IF age + t > Patience THEN Patience ELSE age + t

Pass(t) ==
  /\ origins' = [o \in Origins |-> [origins[o] EXCEPT !.age = Aged(@, t)]]
  /\ since' = [o \in Origins |-> Aged(since[o], t)]

(* _response_budget and _consume_session_body.                             *)
Budget == IF MaxSession - session < MaxResponse THEN MaxSession - session
          ELSE MaxResponse

(* Mutant: only the larger of the bodies counts.                           *)
LargestOnly(size) == IF size > session THEN size ELSE session

Consumed(size) == session + size

Consume(size) ==
  /\ session < MaxSession /\ size <= Budget
  /\ session' = Consumed(size)
  /\ received' = received + size

Refuse ==
  /\ stage' = "loading" /\ asked' = Unasked /\ hops' = 0
  /\ refused' = TRUE

-----------------------------------------------------------------------------
(* Method, upload, resource type and destination first (fit), then what is *)
(* known of the origin.                                                    *)
(* Mutant: the robots.txt of the first origin is taken for all.            *)
KnownAny(o) == \E p \in Origins : origins[p].known

Known(o) == origins[o].known

Ask(o, path, fit) ==
  /\ stage = "loading"
  /\ \/ ~fit /\ Refuse
     \/ /\ fit
        /\ stage' = IF Known(o) THEN "judging" ELSE "robots"
        /\ asked' = [origin |-> o, path |-> path]
        /\ UNCHANGED <<hops, refused>>
  /\ UNCHANGED <<origins, session, checked, robots, since, received>>

(* No answer is had for robots.txt, or the session is exhausted: the       *)
(* request is refused, and nothing is kept of the origin.                  *)
RobotsFail ==
  /\ stage = "robots" /\ Refuse
  /\ UNCHANGED <<origins, session, checked, robots, since, received>>

(* An answer that is of no use (its status or type, what it says, or a     *)
(* redirect to nowhere) is paid for before it is refused.                  *)
RobotsRefused(size) ==
  /\ stage = "robots" /\ Consume(size) /\ Refuse
  /\ UNCHANGED <<origins, checked, robots, since>>

(* Mutant: one redirect too many.                                          *)
PastHops == hops > MaxHops

LastHop == hops = MaxHops

RobotsRedirect(size) ==
  /\ stage = "robots" /\ Consume(size)
  /\ \/ LastHop /\ Refuse
     \/ /\ ~LastHop
        /\ hops' = hops + 1
        /\ UNCHANGED <<stage, asked, refused>>
  /\ UNCHANGED <<origins, checked, robots, since>>

RobotsAnswer(size) ==
  /\ stage = "robots" /\ Consume(size)
  /\ LET o == asked.origin
         policy == IF robots[o] = Missing THEN NoPolicy ELSE PolicyOf(robots[o])
     IN origins' = [origins EXCEPT ![o] = [known |-> TRUE, policy |-> policy,
                                           age |-> Never]]
  /\ stage' = "judging" /\ hops' = 0
  /\ UNCHANGED <<asked, refused, checked, robots, since>>

(* permits, and the rest of the origin's interval is slept.                *)
Remaining(state) == IF state.age >= state.policy.interval THEN 0
                    ELSE state.policy.interval - state.age

Judge ==
  /\ stage = "judging"
  /\ LET state == origins[asked.origin] IN
     \/ /\ ~Permits(state.policy, asked.path) /\ Refuse
        /\ UNCHANGED <<origins, since>>
     \/ /\ Permits(state.policy, asked.path)
        /\ stage' = "due"
        /\ Pass(Remaining(state))
        /\ UNCHANGED <<asked, hops, refused>>
  /\ UNCHANGED <<session, checked, robots, received>>

(* last_request_at is taken before the budget is looked at.                *)
Send ==
  /\ stage = "due"
  /\ origins' = [origins EXCEPT ![asked.origin].age = 0]
  /\ \/ /\ session >= MaxSession /\ Refuse
        /\ UNCHANGED since
     \/ /\ session < MaxSession
        /\ stage' = "sent"
        /\ since' = [since EXCEPT ![asked.origin] = 0]
        /\ UNCHANGED <<asked, hops, refused>>
  /\ UNCHANGED <<session, checked, robots, received>>

(* The transport failed, or the response is none the browser may see; its  *)
(* body is not counted.                                                    *)
Reject(time) ==
  /\ stage = "sent" /\ Refuse
  /\ Pass(time)
  /\ UNCHANGED <<session, checked, robots, received>>

Accept(size, time) ==
  /\ stage = "sent" /\ Consume(size)
  /\ stage' = "loading" /\ asked' = Unasked
  /\ Pass(time)
  /\ UNCHANGED <<hops, refused, checked, robots>>

(* goto returned and no request was refused so far: those that come later  *)
(* may be.                                                                 *)
Check ==
  /\ stage = "loading" /\ ~checked /\ ~refused
  /\ checked' = TRUE
  /\ UNCHANGED <<stage, asked, hops, origins, session, refused, robots,
                 since, received>>

(* The page is returned, or an error is raised: of goto, a route, a        *)
(* challenge, an oversized text; finally the session is forgotten.         *)
Finish ==
  /\ stage = "loading"
  /\ \/ checked /\ stage' = "returned"
     \/ stage' = "raised"
  /\ origins' = [o \in Origins |-> Unknown] /\ session' = 0
  /\ UNCHANGED <<asked, hops, refused, checked, robots, since, received>>

Sizes == 0 .. MaxResponse

Handle ==
  \/ RobotsFail \/ Judge \/ Send
  \/ \E size \in Sizes :
       RobotsRefused(size) \/ RobotsRedirect(size) \/ RobotsAnswer(size)
  \/ \E time \in {0, 1} : \/ Reject(time)
                          \/ \E size \in Sizes : Accept(size, time)

Next == \/ \E o \in Origins, path \in Paths, fit \in BOOLEAN : Ask(o, path, fit)
        \/ Handle \/ Check \/ Finish

(* A handler is sequential code whose transport has a timeout; goto has    *)
(* one, which fires once the handler of the moment has returned.           *)
Fairness == WF_vars(Handle) /\ SF_vars(Finish)

Spec == Init /\ [][Next]_vars /\ Fairness

-----------------------------------------------------------------------------
Ended == stage \in {"returned", "raised"}

TypeOK ==
  /\ stage \in {"loading", "robots", "judging", "due", "sent",
                "returned", "raised"}
  /\ asked \in [origin : Origins, path : Paths] \cup {Unasked}
  /\ hops \in 0 .. MaxHops
  /\ \A o \in Origins : /\ origins[o].policy \in Policy(Paths)
                        /\ {origins[o].age, since[o]} \subseteq Times
  /\ session \in 0 .. MaxSession
  /\ {refused, checked} \subseteq BOOLEAN

(* The bodies that a session accepts, robots.txt and its redirects         *)
(* included, stay within its bytes.                                        *)
Metered == received <= MaxSession

(* What rules mean, however they are written: a rule is about the paths    *)
(* that begin with its own when both are unquoted, and one forbids unless  *)
(* another that is no shorter allows.                                      *)
Concerns(rule, path) == IsPrefix(Unquoted(rule.path), Unquoted(path))

Forbids(policy, path) ==
  \E rule \in policy.rules :
    /\ ~rule.allow /\ Concerns(rule, path)
    /\ \A other \in policy.rules :
         other.allow /\ Concerns(other, path) => Len(other.path) < Len(rule.path)

WrittenPlainly(policy) ==
  \A rule \in policy.rules : \A i \in DOMAIN rule.path : rule.path[i].escapes = 0

(* tests/research/test_controlled_browser.py 176-231: a page's request,    *)
(* for a document, frame, worker or subresource, is sent only if the       *)
(* robots.txt of its origin does not forbid it, however the page spells    *)
(* the path, and only when the delay that file asks for has passed since   *)
(* the page's last request there.  The first half is of files whose rules  *)
(* are written without escapes: the code does not unquote a rule, so that  *)
(* "Disallow: /%7Ejoe" does not stop /%7Ejoe/x.  The requests for          *)
(* robots.txt itself, and its redirects, are neither judged nor delayed.   *)
Courteous ==
  [][stage # "sent" /\ stage' = "sent" =>
       LET o == asked.origin
           policy == PolicyOf(robots[o])
       IN robots[o] # Missing =>
            /\ WrittenPlainly(policy) => ~Forbids(policy, asked.path)
            /\ since[o] >= policy.interval]_vars
=============================================================================
