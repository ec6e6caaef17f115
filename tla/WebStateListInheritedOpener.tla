-------------------- MODULE WebStateListInheritedOpener --------------------
(***************************************************************************)
(* WebStateList, with a history variable: the tabs inserted with the flag  *)
(* INSERT_INHERIT_OPENER, whose opener is to be cleared when the active    *)
(* tab changes.  Only tabs are inserted and activated here, so that no     *)
(* caller sets an opener explicitly on such a tab.                         *)
(***************************************************************************)
EXTENDS WebStateList

VARIABLE inherited

\* The list method InsertWebStateImpl has just marked the new tab
\* (SetShouldResetOpenerOnActiveWebStateChange(true)).
MarkedByInsertion ==
  {w \in {op'.web_state} :
     /\ op.step = "Idle" /\ op'.step = "WebStateInsertedAt"
     /\ web_state_wrappers'[op'.index].should_reset_opener}

InheritInit == Init /\ inherited = {}

InheritNext ==
  /\ \/ Insert
     \/ InsertInheritingOpener
     \/ \E i \in Indexes : ActivateWebStateAt(i)
     \/ Continue
  /\ inherited' = inherited \cup MarkedByInsertion

InheritSpec == InheritInit /\ [][InheritNext]_<<vars, inherited>>

\* "Gets and sets whether this WebState opener must be clear when the active
\* WebState changes" (the comment on the flag of WebStateWrapper): when a tab
\* that was marked at its insertion stops being the active one, its opener is
\* cleared.  In the code, the SetOpenerOfWebStateAt of the same insertion has
\* already unset the mark.
InheritedOpenerIsReset ==
  [][\A i \in Indexes :
       (/\ op'.step = "WebStateActivatedAt" /\ op.step # op'.step
        /\ web_state_wrappers'[i].web_state = op'.old_web_state
        /\ op'.old_web_state \in inherited)
       => web_state_wrappers'[i].opener = NullOpener]_<<vars, inherited>>

=============================================================================
