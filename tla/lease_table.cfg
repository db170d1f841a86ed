SPECIFICATION Spec
CONSTANTS
    s1 = s1
    s2 = s2
    None = None
    Subs = {s1, s2}
    Seqs = {1, 2}
    Deadlines <- MCDeadlines
    Generations <- MCGenerations
INVARIANTS
    TypeOK
    IndexesAgree

    
