---------------------------- MODULE MCTeamService ----------------------------
(* Instances of TeamService for TLC: a few users, teams and requests.         *)
EXTENDS TeamService, TLC

TeamSymmetry == Permutations(TeamIds)

\* Requests and names are only compared with each other.
RequestAndNameSymmetry == Permutations(Requests) \cup Permutations(Names)
=============================================================================
