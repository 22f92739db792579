SPECIFICATION MCLinkSpec
CONSTANTS
  Capabilities = {c1, c2}
  Products = {"lms", "wfa"}
  Plans = {"basic", "custom"}
  ProductOf <- TwoProducts
  Editors = {w1, w2}
  Nothing = Nothing
SYMMETRY LinkSymmetry
PROPERTY AttachedWithinProductAlone
