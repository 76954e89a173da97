------------------------------ MODULE MCXbGet ------------------------------
(* Instances of XbGet and MeSearch: archives of up to five files. *)
EXTENDS XbGet

Is(kind, holds) == [kind |-> kind, holds |-> holds]
Junk == Is("junk", {})

\* Files 1..5; 0 is one that another board may have left.
Tree(root, members) ==
  [f \in Files |->
     IF f = Root THEN root
     ELSE IF f = Foreign THEN Is("other", {})
     ELSE IF f \in DOMAIN members THEN members[f]
     ELSE Junk]

TheFiles == 0..5 \cup {9}

TheArchives ==
  { \* what cannot be unpacked, and what has no ME
    Tree(Junk, << >>),
    Tree(Is("archive", {1, 2}), << >>),
    \* an image or an update in an archive, or archives two or three deep
    Tree(Is("archive", {1, 2}), <<Is("archive", {3}), Is("update", {})>>),
    Tree(Is("archive", {1, 2}),
         <<Junk, Is("archive", {3}), Is("archive", {4}), Is("image", {})>>),
    \* two archives side by side, with a file of the same name
    Tree(Is("archive", {1, 2, 3}),
         <<Is("archive", {4, 5}), Is("archive", {5}), Is("image", {}),
           Is("archive", {5})>>),
    \* a directory is used again after a nested archive: what is left there is
    \* tried once more
    Tree(Is("archive", {1, 2}),
         <<Is("archive", {3}), Is("archive", {5}), Is("archive", {4}), Junk, Is("image", {})>>),
    \* PFS: with an archive that is searched again and again, and nested
    Tree(Is("pfs", {1, 2}), <<Is("archive", {3}), Is("image", {})>>),
    Tree(Is("pfs", {1}), <<Is("archive", {2, 3}), Junk, Is("update", {})>>),
    Tree(Is("pfs", {1, 2}), <<Is("pfs", {3}), Is("image", {})>>),
    \* another ME, or a broken update, before the right one
    Tree(Is("archive", {1, 2}), <<Is("other", {}), Is("image", {})>>),
    Tree(Is("archive", {1, 2}), <<Is("broken", {}), Is("image", {})>>) }
=============================================================================
