----------------------------- MODULE Allocation -----------------------------
(***************************************************************************)
(* The four site topologies of evaluation.py (site_configs) and the       *)
(* Capacity Allocator setup_sites.  RAM, MIPS, PEs, bandwidths and the    *)
(* connection lists are data no property tells apart and are left out;    *)
(* a topology is its map from site id to site type.                       *)
(*                                                                         *)
(* setup_sites computes fractions = 1.5 * total / (small + 2 * large) in  *)
(* floating point.  The model keeps it exact: storage is counted in units *)
(* of 1 / Den(sites), so fractions is the integer 3 * total in those      *)
(* units and a file of size s occupies s * Den(sites) units.              *)
(***************************************************************************)
EXTENDS Naturals, FiniteSets, TLC

\* site_conf_2_site and the three extensions built from it by deepcopy.
SiteConfigs ==
  << [name |-> "site_conf_2_site",
      sites |-> (0 :> "small" @@ 1 :> "large")],
     [name |-> "site_conf_3_site_small",
      sites |-> (0 :> "small" @@ 1 :> "large" @@ 2 :> "small")],
     [name |-> "site_conf_3_site_large",
      sites |-> (0 :> "small" @@ 1 :> "large" @@ 2 :> "large")],
     [name |-> "site_conf_4_site",
      sites |-> (0 :> "small" @@ 1 :> "large" @@ 2 :> "large" @@ 3 :> "small")] >>

\* The counting loop of setup_sites.
SmallCount(sites) == Cardinality({id \in DOMAIN sites : sites[id] = "small"})
LargeCount(sites) == Cardinality({id \in DOMAIN sites : sites[id] = "large"})

(***************************************************************************)
(* Mutant: the denominator counts a large site once.                      *)
(***************************************************************************)
DenLargeOnce(sites) == 2 * (SmallCount(sites) + LargeCount(sites))

\* fractions = final_size / (small_count + large_count * 2), with
\* final_size = 1.5 * total = 3 * total / 2.
Den(sites) == 2 * (SmallCount(sites) + LargeCount(sites) * 2)
Fractions(total) == 3 * total

(***************************************************************************)
(* Mutant: a large site gets fractions instead of fractions * 2.          *)
(***************************************************************************)
SetupSitesLargeSingle(sites, total) ==
  [id \in {i \in DOMAIN sites : sites[i] \in {"small", "large"}} |->
      Fractions(total)]

\* id2site returned by setup_sites: a small site gets fractions, a large
\* one fractions * 2; a site of any other type gets no entry.
SetupSites(sites, total) ==
  [id \in {i \in DOMAIN sites : sites[i] \in {"small", "large"}} |->
      IF sites[id] = "small" THEN Fractions(total) ELSE 2 * Fractions(total)]

=============================================================================
