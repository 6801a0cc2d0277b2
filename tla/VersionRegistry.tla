-------------------------- MODULE VersionRegistry --------------------------
(***************************************************************************)
(* What the version registry promises for one benchmark, with no request   *)
(* handlers, locks or storage in sight: registering a version is a single  *)
(* indivisible step that adds the version to the catalogue, moves the      *)
(* benchmark's version counter and writes the audit event.                 *)
(***************************************************************************)
EXTENDS Naturals

CONSTANTS
  Entry,      (* identities of version rows                                *)
  Version     (* version strings                                           *)

VARIABLES
  catalog,    (* registered versions: set of [id, version] records         *)
  total,      (* the benchmark's total_versions column                     *)
  events      (* entries with a "version.created" audit event              *)

vars == <<catalog, total, events>>

Init ==
  /\ catalog = {}
  /\ total = 0
  /\ events = {}

Register(id, v) ==
  /\ \A e \in catalog : e.id # id /\ e.version # v
  /\ catalog' = catalog \cup {[id |-> id, version |-> v]}
  /\ total' = total + 1
  /\ events' = events \cup {id}

Next == \E id \in Entry, v \in Version : Register(id, v)

Spec == Init /\ [][Next]_vars
=============================================================================
