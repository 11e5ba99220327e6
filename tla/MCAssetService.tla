---------------------------- MODULE MCAssetService ----------------------------
(* Instances of AssetService for TLC: few users, notes, folders and requests. *)
EXTENDS AssetService, TLC

CONSTANTS u1, u2, reader, owner    \* users, request slots

\* Every registered user is like every other (and no other id is named).
UserSymmetry == Permutations(Users)

\* Texts are written and read, and never told apart.
TextSymmetry == Permutations(Texts)

\* One client that does everything, one request after the other.
OneClient == {owner}
AnyUser == [r \in OneClient |-> Users]
Everything == [r \in OneClient |-> AllOps \ {"GetUserFolders", "GetSharedNotes"}]
Unshared ==
    [r \in OneClient |-> AllOps \ {"ShareNote", "RemoveNoteShare", "ShareFolder", "RemoveFolderShare", "ChangeTeams"}]

\* A client that administers notes, and one that uses them meanwhile.
TwoClients == {reader, owner}
OneUserEach == [r \in TwoClients |-> IF r = reader THEN {u2} ELSE {u1}]
ReaderAndOwner ==
    [r \in TwoClients |->
        IF r = reader THEN {"GetNote", "UpdateNote", "DeleteNote"}
        ELSE {"CreateFolder", "CreateNote", "DeleteFolder", "ShareNote", "RemoveNoteShare", "ShareFolder"}]
=============================================================================
