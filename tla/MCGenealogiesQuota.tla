------------------------ MODULE MCGenealogiesQuota ------------------------
(***************************************************************************)
(* Genealogies for TLC, with a history variable: how often the private     *)
(* counter was given a reason to differ from the records.  There are two:  *)
(* a step of the counter is lost (to a crash, to an error, or to the floor *)
(* at zero), and a handler writes over (or deletes) a record that changed  *)
(* since it read it.                                                       *)
(***************************************************************************)
EXTENDS MCGenealogies

CONSTANT MaxDrift  \* bound: no request starts after this many of them

ASSUME FiniteAssumption == IsFiniteSet(Workers) /\ IsFiniteSet(Gids)

VARIABLE drift

MCvars == <<vars, drift>>

\* Workers that have changed the number of private genealogies, or are about to
\* act as if they had, and have yet to move the counter.
Owed ==
    {w \in Workers : At(w, "count") \/ (At(w, "putOwner") /\ job[w].rq.vis = "Private")}
Owes(w) ==
    CASE Serves(w, "Create") -> 1
      [] Serves(w, "Delete") -> -1
      [] OTHER -> Delta(job[w].g.vis, job[w].rq.vis)
Debt(w, u) == IF w \in Owed /\ QuotaHolder(w) = u THEN Owes(w) ELSE 0

\* Workers that write a record they read in another state.
Overwriting ==
    {w \in Workers :
        /\ At(w, "delGen") \/ (At(w, "putGen") /\ Serves(w, "UpdateVisibility"))
        /\ gen[job[w].rq.gid] # job[w].g
        /\ job'[w].pc \in {"count", "invalidate"}}

Observe ==
    drift' = drift + Cardinality(Overwriting)
                   + (IF priv' # priv THEN 0 ELSE Cardinality(Owed \ Owed'))

HInit == Init /\ drift = 0
HNext == Next /\ Observe
HSpec == HInit /\ [][HNext]_MCvars

\* What TLC explores: requests start while there are few of them.
Busy   == {w \in Workers : ~At(w, "idle")}
MCNext == HNext /\ (drift >= MaxDrift => Busy' \subseteq Busy)
MCSpec == HInit /\ [][MCNext]_MCvars

-----------------------------------------------------------------------------
\* The creators past the quota check who have not written the record yet.
Passed(u) ==
    {w \in Workers :
        /\ At(w, "putGen") /\ job[w].rq.vis = "Private" /\ QuotaHolder(w) = u
        /\ Serves(w, "UpdateVisibility") => job[w].g.vis # "Private"}
Pending(u) ==
    Cardinality({w \in Workers : Debt(w, u) = 1})
        - Cardinality({w \in Workers : Debt(w, u) = -1})

\* The private counter accounts for the records at every step of every handler:
\* with what is still owed to it, it differs from the number of private
\* genealogies by one for each lost step and each write over a changed record,
\* no more; and a user is over the cap by those and by the requests that were
\* checked together, no more (CreateGenealogy, UpdateVisibility,
\* DeleteGenealogy, the quota check and the counter's saturation).
QuotaDrift ==
    \A u \in Users :
        LET private == Cardinality(PrivateBy(u))
            off     == priv[u] + Pending(u) - private
        IN  /\ off <= drift /\ -off <= drift
            /\ MaxPrivate # 0 =>
                 private + Cardinality(Passed(u))
                     <= MaxPrivate + (Cardinality(Workers) - 1) + drift
=============================================================================
