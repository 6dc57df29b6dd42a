---------------------------- MODULE MCCostViews ----------------------------
(* A small account for CostViews: a service billed in two regions, in one of  *)
(* them under two categories, a service that has no region under two names,   *)
(* and an OCI compartment without one, billed in two currencies.  The bill of *)
(* day 1, an expensive one, is restated lower.                                *)
EXTENDS CostViews

Aws(service, region, category) ==
  [provider |-> "aws", account |-> "acct", scope |-> "acct", service |-> service,
   region |-> region, category |-> category, currency |-> "USD"]
East  == Aws("ec2", "east", "ec2")
West  == Aws("ec2", "west", "ec2")
Big   == Aws("ec2", "west", "accelerated")
Tax   == Aws("tax", "", "tax")
TaxNo == Aws("tax", "NoRegion", "tax")

Oci(currency) ==
  [provider |-> "oci", account |-> "tenancy", scope |-> "team", service |-> "storage",
   region |-> "", category |-> "storage", currency |-> currency]
Bucket  == Oci("USD")
Archive == Oci("EUR")

MCLines == {East, West, Big, Tax, TaxNo, Bucket, Archive}
MCPrice == [l \in MCLines |-> IF l = Big THEN 4 ELSE 1]

MCContent ==
  [x \in Days \X (1..MaxVersion) |->
     CASE x[1] = 1 /\ x[2] = 1 -> {West, Big, Tax, TaxNo, Bucket}
       [] x[1] = 1            -> {West, East, Bucket}
       [] x[1] = 3            -> {West, East, Bucket, Archive}
       [] OTHER               -> {West, Bucket}]
=============================================================================
