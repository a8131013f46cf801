\* Two cards whose titles and id suffixes give the same project id.
SPECIFICATION FairSpec
CONSTANTS
    c1 = c1
    c2 = c2
    v1 = v1
    v2 = v2
    p1 = p1
    p2 = p2
    t1 = t1
    t2 = t2
    None = None
    Cards = {c1, c2}
    Versions = {v1}
    Taps = {t1}
    Projects = {p1}
    ProjectOf <- Colliding
    Plans <- OnePlan
    MaxFaults = 2
PROPERTIES
    ProjectsAreSetUp
    CardsClose
