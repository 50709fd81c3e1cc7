----------------------------- MODULE MCBumpVersion -----------------------------
(***************************************************************************)
(* Instances of BumpVersion.  Four files stand for the eight: the          *)
(* canonical one, one the inventory reads, the changelog, and              *)
(* docs/releases/README.md, which the inventory does not read.             *)
(***************************************************************************)
EXTENDS BumpVersion

CONSTANTS version_py, readme, changelog, releases

AllFiles == <<version_py, readme, changelog, releases>>
Read == {version_py, readme, changelog}
AllReached == {version_py, readme, changelog, releases}

\* README.md of this repository names its version in the title only, where the
\* inventory finds it and the replacement rule does not.
ReadmeNotReached == {version_py, changelog, releases}
=============================================================================
