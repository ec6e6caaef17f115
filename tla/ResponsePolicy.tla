--------------------------- MODULE ResponsePolicy ---------------------------
(* What Safe Browsing promises about the document of a tab: the response of a  *)
(* navigation is let through only after every URL the navigation asked about   *)
(* was found safe since it was (last) asked about.  The document itself may be *)
(* of a URL that was never asked about, which nothing is promised of.          *)
CONSTANTS URLs, Null

VARIABLES
  asked,     \* URLs the navigation has asked about
  okay,      \* those found safe since they were (last) asked about
  document,  \* the URL of the response, Null before
  response   \* "none", "asked", "allowed" or "blocked"

policyVars == <<asked, okay, document, response>>

Init == asked = {} /\ okay = {} /\ document = Null /\ response = "none"

(* A navigation starts, whatever became of the previous one.                   *)
Navigate(u) == asked' = {u} /\ okay' = {} /\ document' = Null /\ response' = "none"

Redirect(u) ==
  /\ response = "none"
  /\ asked' = asked \cup {u} /\ okay' = okay \ {u}
  /\ UNCHANGED <<document, response>>

Leave == asked' = {} /\ okay' = {} /\ document' = Null /\ response' = "none"

(* The response may be let through.                                            *)
Safe == asked \subseteq okay

Respond(u) ==
  /\ response = "none"
  /\ document' = u
  /\ response' \in {"asked", "blocked"} \/ (Safe /\ response' = "allowed")
  /\ UNCHANGED <<asked, okay>>

(* A check ends; a response that waits for it may be decided at once.          *)
FoundSafe(u) ==
  /\ u \in asked /\ okay' = okay \cup {u}
  /\ \/ response' = response
     \/ response = "asked" /\ (response' = "blocked" \/ (Safe' /\ response' = "allowed"))
  /\ UNCHANGED <<asked, document>>

Decide ==
  /\ response = "asked"
  /\ response' = "blocked" \/ (Safe /\ response' = "allowed")
  /\ UNCHANGED <<asked, okay, document>>

Next ==
  \/ \E u \in URLs : Navigate(u) \/ Redirect(u) \/ Respond(u) \/ FoundSafe(u)
  \/ Leave \/ Decide

Spec == Init /\ [][Next]_policyVars
=============================================================================
