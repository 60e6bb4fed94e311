----------------------------- MODULE MCCatalog -----------------------------
\* Instances of Catalog for TLC: names, keys and requests as model values.
EXTENDS Catalog, TLC

MCWorkloads == {GroupOps, ServiceOps}

CatalogSymmetry == Permutations(Keys) \cup Permutations(Names) \cup Permutations(Requests)
=============================================================================
