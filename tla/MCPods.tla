------------------------------- MODULE MCPods --------------------------------
(***************************************************************************)
(* What a pod needs to serve its function: the package's archive in the    *)
(* storage, the role bindings that let the fetcher read the package and    *)
(* its secrets, and the fetcher, which puts them in place.  The three      *)
(* share no state but what a request names: a behaviour is about one of    *)
(* them, and the others stay as they are.                                  *)
(***************************************************************************)
EXTENDS Archives, RoleBindings, Fetcher

CONSTANTS p1, p2, c1, c2, k1

VARIABLE about

mcVars == <<about, vars, grantVars, fetchVars>>

\* The settings of a fetcher that nothing asks for anything.
NoPod == [onStartup |-> FALSE, zip |-> FALSE, checksum |-> FALSE, reloads |-> FALSE]

MCInit ==
  /\ about \in {"archives", "grants", "fetcher"}
  /\ Init /\ GrantInit /\ FetchInit
  /\ about = "fetcher" \/ setting = NoPod

MCNext ==
  \/ about = "archives" /\ Next /\ UNCHANGED <<about, grantVars, fetchVars>>
  \/ about = "grants" /\ GrantNext /\ UNCHANGED <<about, vars, fetchVars>>
  \/ about = "fetcher" /\ FetchNext /\ UNCHANGED <<about, vars, grantVars>>

\* The fairness of each of the three, in the behaviours that are about it.
MCSpec ==
  /\ MCInit /\ [][MCNext]_mcVars
  /\ WF_vars(about = "archives" /\ PrunerStep) /\ SF_vars(about = "archives" /\ Age)
  /\ \A c \in Clients : WF_vars(about = "archives" /\ ClientStep(c))
  /\ \A w \in Workers : WF_grantVars(about = "grants" /\ (Handle(w) \/ Setup(w)))
  /\ WF_grantVars(about = "grants" /\ Reaper)
  /\ \A n \in Requests : WF_fetchVars(about = "fetcher" /\ (Send(n) \/ Receive(n)))
  /\ \A n \in Requests : WF_fetchVars(about = "fetcher" /\ SpecializeHandler(n))

\* When users make no more changes and calls no longer fail: archives that no
\* package names do not stay (pruneArchives), accounts that nothing needs lose
\* their grants (CleanupRoleBindings), and a request to specialize a pod has
\* been answered (sendRequest), also when the package does not appear, the
\* environment does not start, or it is asked again because an answer was lost.
PodsSettle ==
  <>[](/\ about = "archives" => NoOrphans
       /\ about = "grants" => NoStaleGrants
       /\ about = "fetcher" => SpecializeEnded)
==============================================================================
