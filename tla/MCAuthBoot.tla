----------------------------- MODULE MCAuthBoot -----------------------------
(* Two builds for TLC: the second retires heart.tick, serves fewer verbs of    *)
(* auth.users and adds me.profile.                                             *)
EXTENDS AuthBoot

Catalogue(tick, admin, me) ==
    [r \in Resources |-> IF r = "heart.tick" THEN tick
                         ELSE IF r = "auth.users" THEN admin ELSE me]

MCBuilds == {Catalogue({"GET", "POST"}, {"GET", "DELETE"}, {}),
             Catalogue({}, {"GET"}, {"DELETE"})}

=============================================================================
