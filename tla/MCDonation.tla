----------------------------- MODULE MCDonation -----------------------------
(* Instances of Donation for TLC.  The donation's retries are 2, as in the  *)
(* constructor of DonateStrategy.                                           *)
EXTENDS Donation
=============================================================================
