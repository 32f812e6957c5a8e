---------------------------- MODULE MCAttachments ----------------------------
EXTENDS Attachments
=============================================================================
