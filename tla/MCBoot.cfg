SPECIFICATION Spec
CONSTANTS
  Media = {"usb", "copy", "cd"}
  Labels = {"coreos", "data"}
  Content <- MCContent
  MaxStarts = 2
INVARIANTS
  ExecutedIsOwn
  BannerBeforeLogin
PROPERTY
  LoginEventually
