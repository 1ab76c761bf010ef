------------------------------- MODULE MCAccess -------------------------------
EXTENDS Access, TLC

CONSTANTS w1, w2, o1, o2, ann, bob, cid, chief, owner, clerk

Of(domain, action, own) == [domain |-> domain, action |-> action, own |-> own]
Settings == Of("settings", "*", FALSE)
Booking == Of("bookings", "create", FALSE)
OwnBooking == Of("bookings", "create", TRUE)
MCPermissions == {All, Settings, Booking, OwnBooking}
MCGrants == {{All}, {Settings, OwnBooking}}

MCChanges == {<<None, "on">>, <<clerk, "off">>}

\* ann leads o1, bob has the role of all organizations in o2; cid is the address of the user to come.
MCRoles ==
  [r \in Roles |->
     CASE r = chief -> [exists |-> TRUE, org |-> o1, perms |-> {Settings, Booking}]
       [] r = owner -> [exists |-> TRUE, org |-> None, perms |-> {All}]
       [] OTHER -> [exists |-> FALSE, org |-> None, perms |-> {}]]
MCUsers ==
  [u \in Users |->
     CASE u = ann -> [org |-> o1, role |-> chief]
       [] u = bob -> [org |-> o2, role |-> owner]
       [] OTHER -> [org |-> None, role |-> None]]
Symmetry == Permutations(Workers)
===============================================================================
