---------------------- MODULE MCFavoritesUsbWrite ----------------------
(* A plan with one document of each kind beside the catalog, so that every  *)
(* order of its steps and every kind of step occurs.                        *)
EXTENDS FavoritesUsbWrite, TLC

CONSTANTS flist, changed_hpd, new_hpd, old_hpd, same_hpd, w1, w2

MCChanged == {flist, changed_hpd}
MCIntroduced == {new_hpd}
MCRemoved == {old_hpd}
MCKept == {same_hpd}
MCWriters == {w1, w2}
WriterSymmetry == Permutations(MCWriters)
=============================================================================
