----------------------------- MODULE MCOneShot ------------------------------
(* One-shot runs on small instances.                                        *)
EXTENDS OneShotProps, TLC

\* Devices are interchangeable where BadPassword and Selected are all or none.
Symmetry == Permutations(Devices)

\* Every configuration; and one with every stage, for each kind of upload.
AllConfigs  == ConfigType
FullConfigs == {c \in ConfigType : c.collect /\ c.zipping /\ c.remove /\ c.copy
                                   /\ c.removeUploaded /\ c.download}
=============================================================================
