--------------------------- MODULE MCDisplayName ---------------------------
EXTENDS DisplayName, TLC

\* The specification treats all names of one kind alike.
NameSymmetry ==
  Permutations(Branches) \cup Permutations(Tags) \cup Permutations(Commits)

BothBuilds == BOOLEAN

=============================================================================
