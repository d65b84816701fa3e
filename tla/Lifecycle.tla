------------------------------ MODULE Lifecycle ------------------------------
(***************************************************************************)
(* The status life cycle of an airlock lock: the tables at the head of     *)
(* app/registry.py.  Every other module reads the life cycle from here.    *)
(***************************************************************************)

\* A code that has no row in the airlocks table.
Absent == "absent"

STATUSES ==
  {"reserved", "generated", "printed", "registered", "active", "retired", "voided"}

TERMINAL == {"retired", "voided"}

\* Mutant: binding a tag lifts every status that is not yet there.
PromoteFromAll == STATUSES \ {"registered", "active"}

\* Statuses that binding a tag lifts to "registered".
NFC_PROMOTE_FROM == {"printed"}

\* The single steps PATCH allows without force.
ALLOWED_TRANSITIONS ==
  [ s \in STATUSES |->
      CASE s = "reserved"   -> {"voided"}
        [] s = "generated"  -> {"printed", "voided"}
        [] s = "printed"    -> {"voided"}
        [] s = "registered" -> {"active", "voided"}
        [] s = "active"     -> {"retired"}
        [] OTHER            -> {} ]

==============================================================================
