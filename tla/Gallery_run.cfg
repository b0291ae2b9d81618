\* A guest or a couple with two requests at once over two photos and two clusters.
SPECIFICATION Spec
CONSTANTS
    Photo = {p1, p2}
    Cluster = {c1, c2}
    Request = {r1, r2}
SYMMETRY Symmetry
INVARIANTS
    CountIsServed
    MarksAsAnswered
