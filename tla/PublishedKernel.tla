---------------------------- MODULE PublishedKernel ----------------------------
(***************************************************************************)
(* The image of the language a run is given: the kernel published on the    *)
(* package site, fetched by four requests under one startup deadline, or    *)
(* the image in the binary.  The site may be published to meanwhile.        *)
(*                                                                          *)
(* Source: kernel_startup.rs published_kernel, published_kernel_with,       *)
(* fetch; image.rs from_embedded; main.rs execution_image.                  *)
(***************************************************************************)
EXTENDS Naturals, Sequences

CONSTANTS
    Releases,      \* releases of the kernel on the site
    Editions,      \* contents a release was published with: more than one if it is not immutable
    MaxUploads     \* bound on the uploads during a fetch

\* A file of an edition, its digest included, and what is no file of any.
Content == [release : Releases, edition : Editions]
NoContent == [release |-> "none", edition |-> "none"]
KernelFiles == {"descriptor", "inventory", "kernel"}

ASSUME KernelAssumption == MaxUploads \in Nat /\ "none" \notin Releases

VARIABLES
    published,  \* whether the image is the published kernel
    shelf,      \* the files at the addresses of each release
    pointer,    \* the release the entry redirects to, or nothing a fetch follows
    stage,      \* the request under way
    got,        \* the release that was chosen and the files that were read
    alarm,      \* the cancellation and the deadline
    image,      \* the image, or the code of its refusal
    uploads

kernelVars == <<published, shelf, pointer, stage, got, alarm, image, uploads>>

Refusals == {"KERNEL_RETRIEVAL_FAILED", "IMAGE_INVALID", "IMAGE_TOO_LARGE", "CANCELLED",
             "STARTUP_TIMEOUT"}
NothingRead == [release |-> "none", descriptor |-> NoContent, inventory |-> NoContent,
                kernel |-> NoContent]

KernelTypeOK ==
    /\ published \in BOOLEAN
    /\ shelf \in [Releases -> [KernelFiles -> Content \cup {NoContent}]]
    /\ pointer \in Releases \cup {"error", "elsewhere"}
    /\ stage \in {"image", "entry", "verify", "done"} \cup KernelFiles
    /\ got \in [release : Releases \cup {"none"}, descriptor : Content \cup {NoContent},
                inventory : Content \cup {NoContent}, kernel : Content \cup {NoContent}]
    /\ alarm \subseteq {"cancel", "deadline"}
    /\ image \in {"none", "embedded", "kernel"} \cup Refusals
    /\ uploads \in 0..MaxUploads

KernelInit ==
    /\ published \in BOOLEAN
    /\ \E e \in Editions :
          shelf = [r \in Releases |-> [file \in KernelFiles |-> [release |-> r, edition |-> e]]]
    /\ pointer \in Releases
    /\ stage = "image" /\ got = NothingRead /\ alarm = {} /\ image = "none" /\ uploads = 0

-----------------------------------------------------------------------------
(* The site: releases are meant to be immutable, and nothing keeps them so. *)

Upload ==
    /\ stage \in {"entry"} \cup KernelFiles /\ uploads < MaxUploads
    /\ uploads' = uploads + 1
    /\ \/ /\ \E r \in Releases, file \in KernelFiles, c \in Content \cup {NoContent} :
                shelf' = [shelf EXCEPT ![r][file] = c]
          /\ UNCHANGED pointer
       \/ pointer' \in Releases \cup {"error", "elsewhere"} /\ UNCHANGED shelf
    /\ UNCHANGED <<published, stage, got, alarm, image>>

Alarm(what) ==
    /\ stage # "done" /\ alarm' = alarm \cup {what}
    /\ UNCHANGED <<published, shelf, pointer, stage, got, image, uploads>>

-----------------------------------------------------------------------------
(* The fetch.                                                               *)

Site == UNCHANGED <<published, shelf, pointer, alarm, uploads>>

\* Whatever failed, a cancellation or a passed deadline is the reason, and the
\* cancellation comes first.
RefuseKernel(code) ==
    /\ stage' = "done" /\ UNCHANGED got
    /\ image' = IF "cancel" \in alarm THEN "CANCELLED"
                ELSE IF "deadline" \in alarm THEN "STARTUP_TIMEOUT" ELSE code

ChooseImage ==
    /\ stage = "image" /\ Site /\ UNCHANGED got
    /\ IF published THEN stage' = "entry" /\ UNCHANGED image
       ELSE stage' = "done" /\ image' \in {"embedded", "IMAGE_INVALID", "IMAGE_TOO_LARGE"}

\* The wait for an answer ends with an alarm; the request may go on unheard.
Interrupted ==
    /\ stage \in {"entry"} \cup KernelFiles /\ alarm # {} /\ Site
    /\ RefuseKernel("KERNEL_RETRIEVAL_FAILED")

\* The entry answers with a redirect, an error, or what is no redirect to a release.
AskEntry ==
    /\ stage = "entry" /\ alarm = {} /\ Site
    /\ \/ /\ pointer \in Releases
          /\ got' = [got EXCEPT !.release = pointer]
          /\ stage' = "descriptor" /\ UNCHANGED image
       \/ pointer = "elsewhere" /\ RefuseKernel("IMAGE_INVALID")
       \/ RefuseKernel("KERNEL_RETRIEVAL_FAILED")

After(file) ==
    CASE file = "descriptor" -> "inventory"
      [] file = "inventory" -> "kernel"
      [] file = "kernel" -> "verify"

\* A descriptor names its release, the others are named by digest.
Genuine(file, c) ==
    CASE file = "descriptor" -> c \in Content /\ c.release = got.release
      [] file = "inventory" -> c = got.descriptor
      [] file = "kernel" -> c = got.inventory

\* Mutation of AskKernelFile: the kernel is checked against its release only.
AskKernelFileLoosely(file) ==
    /\ stage = file /\ alarm = {} /\ Site
    /\ LET c == shelf[got.release][file]
       IN \/ /\ c \in Content /\ c.release = got.release
             /\ got' = [got EXCEPT ![file] = c]
             /\ stage' = After(file) /\ UNCHANGED image
          \/ ~Genuine(file, c) /\ RefuseKernel("IMAGE_INVALID")
          \/ \E code \in {"KERNEL_RETRIEVAL_FAILED", "IMAGE_TOO_LARGE"} : RefuseKernel(code)

\* A file is read whole, or is an error, too large, or not what was promised.
AskKernelFile(file) ==
    /\ stage = file /\ alarm = {} /\ Site
    /\ LET c == shelf[got.release][file]
       IN \/ /\ Genuine(file, c)
             /\ got' = [got EXCEPT ![file] = c]
             /\ stage' = After(file) /\ UNCHANGED image
          \/ ~Genuine(file, c) /\ RefuseKernel("IMAGE_INVALID")
          \/ \E code \in {"KERNEL_RETRIEVAL_FAILED", "IMAGE_TOO_LARGE"} : RefuseKernel(code)

\* The image around the kernel is checked as the embedded one is; an alarm no
\* longer stops what has been read.
VerifyImage ==
    /\ stage = "verify" /\ Site
    /\ \/ stage' = "done" /\ image' = "kernel" /\ UNCHANGED got
       \/ \E code \in {"IMAGE_INVALID", "IMAGE_TOO_LARGE"} : RefuseKernel(code)

KernelNext ==
    \/ Upload \/ (\E what \in {"cancel", "deadline"} : Alarm(what))
    \/ ChooseImage \/ Interrupted \/ AskEntry \/ VerifyImage
    \/ (\E file \in KernelFiles : AskKernelFile(file))

KernelSpec == KernelInit /\ [][KernelNext]_kernelVars

-----------------------------------------------------------------------------
\* A run is given one edition of the release the site pointed to, whatever was
\* uploaded between the requests, or nothing: a failed fetch takes neither the
\* embedded image nor a part (kernel_startup.rs, line 76: "no fallback was used"),
\* and it is called cancelled or late only if it was.
KernelIsWhole ==
    /\ image = "kernel" =>
          /\ got.kernel \in Content /\ got.kernel.release = got.release
          /\ got.inventory = got.kernel /\ got.descriptor = got.kernel
    /\ image = "embedded" => ~published
    /\ image = "CANCELLED" => "cancel" \in alarm
    /\ image = "STARTUP_TIMEOUT" => "deadline" \in alarm /\ "cancel" \notin alarm
=============================================================================
