------------------------------- MODULE MCRbac -------------------------------
(* Small tables for TLC, populated in three ways so that two calls and a login *)
(* are enough for every guard to matter.                                       *)
EXTENDS Rbac, TLC

LocalRow(s, r) == [subject |-> s, role |-> r, source |-> "local"]

MCInit ==
    /\ \/ \* ann administers through the group, bob maintains and is mapped to admin
          /\ users = [u \in Users |-> "active"]
          /\ groups = [g \in Groups |-> "live"]
          /\ roles = [r \in CustomRoles |-> "live"]
          /\ members = {<<"ann", "ops">>}
          /\ rows = {LocalRow("ops", "admin"), LocalRow("bob", "maintain")}
          /\ mappings = [x \in Mapping |-> IF x.role = "admin" THEN "live" ELSE "none"]
       \/ \* both administer, ann by a row of the provider that is no longer mapped
          /\ users = [u \in Users |-> "active"]
          /\ groups = [g \in Groups |-> "none"]
          /\ roles = [r \in CustomRoles |-> "none"]
          /\ members = {}
          /\ rows = {[LocalRow("ann", "admin") EXCEPT !.source = "idp"],
                     LocalRow("bob", "admin")}
          /\ mappings = [x \in Mapping |-> "none"]
       \/ \* ann alone, with a custom role in use
          /\ users = [u \in Users |-> IF u = "ann" THEN "active" ELSE "none"]
          /\ groups = [g \in Groups |-> "live"]
          /\ roles = [r \in CustomRoles |-> "live"]
          /\ members = {}
          /\ rows = {LocalRow("ann", "admin"), LocalRow("ops", "custom")}
          /\ mappings = [x \in Mapping |-> IF x.role = "custom" THEN "live" ELSE "none"]
    /\ grants = [r \in CustomRoles |-> IF roles[r] = "live" THEN {"plain"} ELSE {}]
    /\ creds = [u \in Users |-> {}]
    /\ req = [w \in Workers |-> Idle]
    /\ sync = NoSync
    /\ calls = 0
    /\ syncs = 0

WorkersAlike == Permutations(Workers)

MCSpec == MCInit /\ [][Next]_vars

=============================================================================
