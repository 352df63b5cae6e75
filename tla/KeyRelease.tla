----------------------------- MODULE KeyRelease -----------------------------
(***************************************************************************)
(* The off-guest verifier (verifier.py).                                   *)
(*                                                                         *)
(* The verifier writes a nonce into a bundle directory; a guest puts its   *)
(* files there (its HCL report with the runtime claims, certificates, AK,  *)
(* release key, quote and PCRs); the verifier appraises the directory file *)
(* by file and releases a secret to the key in it.  Other guests write to  *)
(* the same directory too, whole or in part, and at any time.              *)
(*                                                                         *)
(* A hash is the value hashed; a signature is the key that made it.  The   *)
(* byte offsets of the report are left out.                                *)
(***************************************************************************)
EXTENDS Naturals, FiniteSets

CONSTANTS Guests,
          About,      \* guest -> its platform: chip, version, vmpl, debug, pcrs, genuine
          Policy,     \* versions, vmpls, debugOff, floor, pcrMode, pins
          Products,   \* product -> name and key of its pinned intermediate
          MaxTcb,     \* bound: firmware updates
          MaxPuts,    \* bound: files put into the bundle and nonces
          None

VARIABLES tcb,        \* firmware level of the chips
          nonce,      \* verifier's latest challenge
          bundle,     \* file -> value
          quotes,     \* history: quotes an AK has made
          ver,        \* the appraisal: control state and what it has read
          released,   \* releases written
          stable,     \* history: nobody wrote to the bundle during this appraisal
          puts

kvars == <<tcb, nonce, bundle, quotes, ver, released, stable, puts>>

BundleFiles == {"hcl", "certs", "ak_pub", "guest_pub", "nonce", "quote", "pcrs"}

-------------------------- (* what a guest presents *) ----------------------

\* The report is signed by the chip's key of the reported firmware level.
Report(g) == [data |-> [ak |-> g], tcb |-> tcb, version |-> About[g].version,
              vmpl |-> About[g].vmpl, debug |-> About[g].debug,
              sig |-> <<About[g].chip, tcb>>]
Hcla(g) == [report |-> Report(g), runtime |-> [ak |-> g]]
\* A genuine chip's certificate is issued by the intermediate of its product.
Vcek(g, level) == [key |-> <<About[g].chip, level>>, issuer |-> About[g].product,
                   by |-> IF About[g].genuine THEN Products[About[g].product] ELSE "forger"]

\* Mutant: the release key is left out of the binding.
BindingHash_NoKey(n, key) == <<"sol-key-release-v1", n>>

\* SHA-256 over domain, nonce and the release key.
BindingHash(n, key) == <<"sol-key-release-v1", n, key>>

Quote(g, n) == [ak |-> g, extra |-> BindingHash(n, g), pcrs |-> About[g].pcrs]

FileOf(g, f) ==
    CASE f = "hcl" -> Hcla(g)
      [] f = "certs" -> Vcek(g, tcb)
      [] f = "ak_pub" -> g
      [] f = "guest_pub" -> g
      [] f = "quote" -> Quote(g, bundle["nonce"])
      [] f = "pcrs" -> About[g].pcrs

Idle == [pc |-> "idle", report |-> None, ak |-> None, nonce |-> 0, key |-> None,
         pcrs |-> None]

Init ==
    /\ tcb = 1
    /\ nonce = 0
    /\ bundle = [f \in BundleFiles |-> IF f = "nonce" THEN 0 ELSE None]
    /\ quotes = {}
    /\ ver = Idle
    /\ released = {}
    /\ stable = TRUE
    /\ puts = 0

verifier == <<nonce, ver, released>>

\* The chips get new firmware, and with it new signing keys.
UpdateFirmware ==
    /\ tcb < MaxTcb
    /\ tcb' = tcb + 1
    /\ UNCHANGED <<verifier, bundle, quotes, stable, puts>>

IssueChallenge ==
    /\ puts < MaxPuts /\ puts' = puts + 1
    /\ nonce' = nonce + 1
    /\ bundle' = [bundle EXCEPT !["nonce"] = nonce']
    /\ stable' = (stable /\ ver.pc = "idle")
    /\ UNCHANGED <<tcb, quotes, ver, released>>

\* A guest writes all its files, in answer to the nonce that lies there.
Present(g) ==
    /\ puts < MaxPuts /\ puts' = puts + 1
    /\ bundle["nonce"] # 0
    /\ bundle' = [f \in BundleFiles |-> IF f = "nonce" THEN bundle[f] ELSE FileOf(g, f)]
    /\ quotes' = quotes \cup {Quote(g, bundle["nonce"])}
    /\ stable' = (stable /\ ver.pc = "idle")
    /\ UNCHANGED <<tcb, verifier>>

\* One file is overwritten with another guest's.
Put(g, f) ==
    /\ puts < MaxPuts /\ puts' = puts + 1
    /\ bundle["nonce"] # 0 /\ f # "nonce"
    /\ bundle' = [bundle EXCEPT ![f] = FileOf(g, f)]
    /\ quotes' = IF f = "quote" THEN quotes \cup {bundle'[f]} ELSE quotes
    /\ stable' = (stable /\ ver.pc = "idle")
    /\ UNCHANGED <<tcb, verifier>>

---------------------------- (* the appraisal *) ----------------------------

Goto(pc) == ver' = [ver EXCEPT !.pc = pc]
Reading == UNCHANGED <<tcb, nonce, bundle, quotes, released, stable, puts>>

\* _require: every file the HCL path needs is there.
Require ==
    /\ ver.pc = "idle"
    /\ ver' = [Idle EXCEPT !.pc = IF \E f \in BundleFiles \ {"nonce"} : bundle[f] = None
                                  THEN "rejected" ELSE "hcl"]
    /\ stable' = TRUE
    /\ UNCHANGED <<tcb, nonce, bundle, quotes, released, puts>>

\* report_data is the digest of the runtime claims.
RuntimeBound(h) == h.report.data = h.runtime

ParseHcla ==
    /\ ver.pc = "hcl"
    /\ LET h == bundle["hcl"] IN
       IF RuntimeBound(h) THEN ver' = [ver EXCEPT !.pc = "chain", !.report = h.report,
                                                  !.ak = h.runtime.ak]
       ELSE Goto("rejected")
    /\ Reading

\* One VCEK, issued by the pinned intermediate its issuer names, and the
\* report is signed with its key.
SelectRootSet(vcek) == Products[vcek.issuer]
VerifyChain(report, vcek) == /\ vcek.by = SelectRootSet(vcek)
                             /\ report.sig = vcek.key

TcbFloor(level) == level >= Policy.floor
CheckPolicy(r) == /\ r.version \in Policy.versions
                  /\ Policy.vmpls # {} => r.vmpl \in Policy.vmpls
                  /\ Policy.debugOff => ~r.debug
                  /\ TcbFloor(r.tcb)

AppraiseReport ==
    /\ ver.pc = "chain"
    /\ Goto(IF VerifyChain(ver.report, bundle["certs"]) /\ CheckPolicy(ver.report)
            THEN "ak" ELSE "rejected")
    /\ Reading

\* Mutant: the AK in the bundle is not compared with the one in the claims.
AkMatches_Any(file, claims) == TRUE

AkMatches(file, claims) == file = claims

VerifyAkBinding ==
    /\ ver.pc = "ak"
    /\ Goto(IF AkMatches(bundle["ak_pub"], ver.ak) THEN "nonce" ELSE "rejected")
    /\ Reading

ReadNonce ==
    /\ ver.pc = "nonce"
    /\ ver' = [ver EXCEPT !.pc = "guest_pub", !.nonce = bundle["nonce"]]
    /\ Reading

ReadGuestPub ==
    /\ ver.pc = "guest_pub"
    /\ ver' = [ver EXCEPT !.pc = "quote", !.key = bundle["guest_pub"]]
    /\ Reading

\* tpm2_checkquote reads the AK, the quote and the PCRs by path once more.
CheckQuote ==
    /\ ver.pc = "quote"
    /\ LET q == bundle["quote"] IN
       Goto(IF /\ q.ak = bundle["ak_pub"]
               /\ q.extra = BindingHash(ver.nonce, ver.key)
               /\ q.pcrs = bundle["pcrs"]
            THEN "pcrs" ELSE "rejected")
    /\ Reading

\* Mutant: a pin list that is never consulted.
PcrPolicy_Record(pcrs) == TRUE

PcrPolicy(pcrs) == Policy.pcrMode = "pin" => pcrs \in Policy.pins

ReadPcrs ==
    /\ ver.pc = "pcrs"
    /\ ver' = [ver EXCEPT !.pcrs = bundle["pcrs"],
                          !.pc = IF PcrPolicy(bundle["pcrs"]) THEN "release" ELSE "rejected"]
    /\ Reading

\* Encrypted to the key, with nonce, key and PCRs as associated data.
ReleaseToGuest ==
    /\ ver.pc = "release"
    /\ released' = released \cup {[key |-> ver.key, nonce |-> ver.nonce,
                                   pcrs |-> ver.pcrs, stable |-> stable]}
    /\ Goto("released")
    /\ UNCHANGED <<tcb, nonce, bundle, quotes, stable, puts>>

\* The process ends; the next one starts from nothing.
Again ==
    /\ ver.pc \in {"rejected", "released"}
    /\ ver' = Idle
    /\ Reading

\* unwrap_release_for_test: who holds the private key reads the secret.
Unwrap(g, r) == r.key = g

Appraise == \/ Require \/ ParseHcla \/ AppraiseReport \/ VerifyAkBinding \/ ReadNonce
            \/ ReadGuestPub \/ CheckQuote \/ ReadPcrs \/ ReleaseToGuest \/ Again

Next ==
    \/ IssueChallenge
    \/ \E g \in Guests : Present(g) \/ \E f \in BundleFiles : Put(g, f)
    \/ Appraise
    \/ UpdateFirmware

(* A secret goes only to a key that the attestation key of one and the same
   genuine guest, lawful under the policy, quoted together with a nonce the
   verifier issued and the PCRs the release names, provided the bundle was
   left alone while it was appraised. *)
ReleasedToTheAttested ==
    \A r \in released : r.stable =>
        \E g \in Guests :
            /\ Unwrap(g, r)
            /\ About[g].genuine /\ About[g].version \in Policy.versions
            /\ Policy.debugOff => ~About[g].debug
            /\ Policy.vmpls # {} => About[g].vmpl \in Policy.vmpls
            /\ [ak |-> g, extra |-> BindingHash(r.nonce, g), pcrs |-> r.pcrs] \in quotes
            /\ r.nonce \in 1 .. nonce
            /\ Policy.pcrMode = "pin" => r.pcrs \in Policy.pins

=============================================================================
