------------------------------- MODULE Channels -------------------------------
(* What the endpoints log: the file of channels that analysts save on the       *)
(* console, and the audit policy that an endpoint applies.                     *)

CONSTANTS
    AgentGroup, BuiltIn, Custom, Asker,
    AuditPolicy, Thread, MaxPolicyChange, MaxPolicyTrouble,
    Unset       \* no template for a group, no policy

VARIABLES
    channelFile, saveClashed, channelCall, wantedChannels, retiredChannels,
    policyKind, desiredPolicy, policyInForce, policyMemory, toolPresent, installCooling,
    policyRun, policyDoubt, failedFor, policyChanges, policyTroubles

Choosing == INSTANCE LogChannels WITH
    Group <- AgentGroup, Call <- Asker, NoGroup <- Unset,
    disk <- channelFile, clashed <- saveClashed, call <- channelCall,
    wanted <- wantedChannels, retired <- retiredChannels
Applying == INSTANCE ChannelPolicy WITH
    MaxChange <- MaxPolicyChange, MaxTrouble <- MaxPolicyTrouble, None <- Unset,
    Setting <- AuditPolicy,
    kind <- policyKind, desired <- desiredPolicy, endpoint <- policyInForce,
    memory <- policyMemory, present <- toolPresent, cooling <- installCooling,
    run <- policyRun, doubt <- policyDoubt, changes <- policyChanges,
    troubles <- policyTroubles

ChannelsBounds == Choosing!ChannelBounds /\ Applying!PolicyBounds
ChannelsTypeOK == Choosing!TypeOK /\ Applying!TypeOK
ChannelsSpec == Choosing!Spec /\ Applying!Spec

\* The file of channels says what was saved last, unless a request wrote over what it had not
\* read; and what an endpoint remembers to have applied is in force.
ChannelsFollow == Choosing!SavesKept /\ Applying!PolicyFollows
===============================================================================
