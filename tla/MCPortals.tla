----------------------------- MODULE MCPortals ------------------------------
(* The portals: two views of the workspace of one device (MCPortal), and,   *)
(* sharing no state with them or one another, what goes with them.  A       *)
(* behaviour is one of the component in focus, and the variables of the     *)
(* others stay as they are.                                                 *)
(*   portal:     publishing and syncing.                                    *)
(*   workspaces: two portals, opened in turn, with room for one record.     *)
(*   view:       two readers of a portal with three authors.                *)
(*   trust:      four verdicts on two authors of three portals.             *)
(*   provider:   two writes of one author to a social provider, behind the  *)
(*               guards that providers share.                               *)
EXTENDS MCPortal, Integers

CONSTANTS Focus,   \* the components to check
          Scopes, MaxWorkspaces, MaxKeys, MaxMounts, MaxJobs, Careless,
          Readers, Judged, Portals, MaxScopes, MaxAuthors, MaxVerdicts,
          Authors, Days, Window, PerDay, Difficulties, MaxWrites, MaxRestarts

VARIABLES focus,
          disk, keys, replicas, old, dismissed, mounts,
          replica, trust, saved, clicks, loaded,
          day, bits, used, served, profiles, boots, known, writes

spaceVars  == <<disk, keys, replicas, old, dismissed, mounts>>
trustVars  == <<trust, saved, clicks, loaded>>
socialVars == <<day, bits, used, served, profiles, boots, known, writes>>

\* The authors have a page of the same name, and the second something unknown.
Object(kind) == [kind |-> kind, slug |-> "home"]
ContentLog   == <<<<Object("post"), Object("wiki/page"), Object("profile")>>,
                  <<None, Object("wiki/page"), Object("profile")>>,
                  <<Object("post")>>>>

Space  == INSTANCE Workspaces WITH store <- replicas
Seen   == INSTANCE PortalView WITH Writers <- {1, 2, 3}
Trust  == INSTANCE PortalTrust
Social == INSTANCE SocialProvider WITH posts <- served

ASSUME PortalsAssumption ==
  /\ Space!WorkspacesAssumption /\ Seen!ViewAssumption /\ Trust!TrustAssumption
  /\ Social!ProviderAssumption

PortalsInit ==
  /\ focus \in Focus
  /\ Init
  /\ IF focus = "workspaces" THEN Space!Init
     ELSE disk = 0 /\ keys = 0 /\ replicas = 0 /\ old = 0 /\ dismissed = 0 /\ mounts = 0
  /\ IF focus = "view" THEN Seen!Init ELSE replica = 0
  /\ IF focus = "trust" THEN Trust!Init
     ELSE trust = 0 /\ saved = 0 /\ clicks = 0 /\ loaded = 0
  /\ IF focus = "provider" THEN Social!Init
     ELSE day = 0 /\ bits = 0 /\ used = 0 /\ served = 0 /\ profiles = 0 /\ boots = 0
          /\ known = 0 /\ writes = 0

PortalsNext ==
  /\ UNCHANGED focus
  /\ \/ focus = "portal" /\ Next /\ UNCHANGED <<spaceVars, replica, trustVars, socialVars>>
     \/ focus = "workspaces" /\ Space!Next
        /\ UNCHANGED <<vars, replica, trustVars, socialVars>>
     \/ focus = "view" /\ Seen!Next /\ UNCHANGED <<vars, spaceVars, trustVars, socialVars>>
     \/ focus = "trust" /\ Trust!Next /\ UNCHANGED <<vars, spaceVars, replica, socialVars>>
     \/ focus = "provider" /\ Social!Next
        /\ UNCHANGED <<vars, spaceVars, replica, trustVars>>

PortalsSpec ==
  PortalsInit /\ [][PortalsNext]_<<focus, vars, spaceVars, replica, trustVars, socialVars>>

-----------------------------------------------------------------------------
(* The properties of the components, as their modules state them; those of  *)
(* Portal hold in every state.                                              *)

PortalsTypeOK == /\ TypeOK
                 /\ focus = "workspaces" => Space!TypeOK
                 /\ focus = "view" => Seen!TypeOK
                 /\ focus = "trust" => Trust!TypeOK
                 /\ focus = "provider" => Social!TypeOK

(* What the user of portals chose, wrote and judged, and what is shown.     *)
PortalSound == /\ focus = "workspaces" => Space!NothingReplaced
               /\ focus = "trust" => Trust!VerdictsKept
               /\ focus = "view" => Seen!ViewsAgree

ProviderSound == focus = "provider" => Social!ProofsAgree /\ Social!PostsAccounted
=============================================================================
