CONSTANTS
    Names <- MCNames
    Lines <- MCLines
    Blobs <- MCBlobs
    Numbers <- MCNumbers
    MaxReplies = 3
SPECIFICATION Spec
INVARIANT ReadsBack
