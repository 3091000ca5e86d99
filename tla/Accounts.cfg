SPECIFICATION Spec
CONSTANTS
    Nodes = {m1, m2}
    Seeding = {m1, m2}
    Slots = {s1, s2}
    Users = {u1, u2}
    Names = {admin, ann}
    AdminName = admin
    Passwords = {p1, p2}
    AdminPass = p1
    Keys = {k1}
SYMMETRY Symmetric
INVARIANTS
    SeededOnce
    ServesAdministered
    AuthenticationJustified
PROPERTIES
    AdminsStay
